---------------------------- MODULE DeviceProofs ----------------------------
(***************************************************************************)
(* Proofs about the programs of Devices, for every value of their          *)
(* constants.  A behaviour is of one part for good, and a step of it is a  *)
(* step of that part, so an invariant of the component is one of the part. *)
(***************************************************************************)
EXTENDS Devices, FiniteSetTheorems, WellFoundedInduction, TLAPS

(* A part goes on by the steps of its own program.                         *)
LEMMA PartSteps ==
    ASSUME [Next]_vars
    PROVE  /\ part' = part
           /\ part = "ge" => [Ge!Next]_(Ge!vars)
           /\ part = "shared" => [Shared!Next]_(Shared!vars)
           /\ part = "audio" => [Audio!Next]_(Audio!vars)
           /\ part = "efuse" => [Efuses!Next]_(Efuses!vars)
           /\ part = "pad" => [Pads!Next]_(Pads!vars)
           /\ part = "panel" => [Panel!Next]_(Panel!vars)
           /\ part = "console" => [Text!Next]_(Text!vars)
           /\ part = "cache" => [Cache!Next]_(Cache!vars)
           /\ part = "calls" => [Calls!Next]_call
<1>1. CASE GeStep("ge", Ge!Next)
  BY <1>1 DEF GeStep
<1>2. CASE GeStep("shared", Shared!Next)
  BY <1>2 DEF GeStep
<1>3. CASE AudioStep(Audio!Next)
  BY <1>3 DEF AudioStep
<1>4. CASE EfusesStep(Efuses!Next)
  BY <1>4 DEF EfusesStep
<1>5. CASE PadsStep(Pads!Next)
  BY <1>5 DEF PadsStep
<1>6. CASE TextStep(Text!Next)
  BY <1>6 DEF TextStep
<1>7. CASE PanelStep(Panel!Next)
  BY <1>7 DEF PanelStep
<1>8. CASE CacheStep(Cache!Next)
  BY <1>8 DEF CacheStep
<1>9. CASE CallsStep(Calls!Next)
  BY <1>9 DEF CallsStep
<1>10. CASE UNCHANGED vars
  <2>1. part' = part
        /\ UNCHANGED <<geVars, audioVars, efusesVars, padsVars, panelVars,
                       textVars, cacheVars, call>>
    BY <1>10 DEF vars, callsVars
  <2>2. UNCHANGED Ge!vars /\ UNCHANGED Shared!vars
    BY <2>1 DEF geVars, Ge!vars, Ge!client, Ge!driver, Ge!engine, Shared!vars,
                Shared!client, Shared!driver, Shared!engine
  <2>3. UNCHANGED Audio!vars
    BY <2>1 DEF audioVars, Audio!vars, Audio!library, Audio!hardware,
                Audio!writer, Audio!handler
  <2>4. UNCHANGED Efuses!vars
    BY <2>1 DEF efusesVars, Efuses!vars, Efuses!controller
  <2>5. UNCHANGED Pads!vars
    BY <2>1 DEF padsVars, Pads!vars
  <2>6. UNCHANGED Panel!vars
    BY <2>1 DEF panelVars, Panel!vars, Panel!display, Panel!tearing,
                Panel!rebuilt, Panel!service
  <2>7. UNCHANGED Text!vars
    BY <2>1 DEF textVars, Text!vars
  <2>8. UNCHANGED Cache!vars
    BY <2>1 DEF cacheVars, Cache!vars, Cache!config
  <2> QED BY <2>1, <2>2, <2>3, <2>4, <2>5, <2>6, <2>7, <2>8
<1> QED
  BY <1>1, <1>2, <1>3, <1>4, <1>5, <1>6, <1>7, <1>8, <1>9, <1>10 DEF Next

(* A part starts as its program does.                                      *)
LEMMA PartStarts ==
    ASSUME Init
    PROVE  /\ part = "ge" => Ge!Init
           /\ part = "shared" => Shared!Init
           /\ part = "audio" => Audio!Init
           /\ part = "efuse" => Efuses!Init
           /\ part = "pad" => Pads!Init
           /\ part = "panel" => Panel!Init
           /\ part = "console" => Text!Init
           /\ part = "cache" => Cache!Init
           /\ part = "calls" => Calls!Init
BY DEF Init, GeInit, SharedInit, AudioInit, EfusesInit, PadsInit, TextInit,
       PanelInit, CacheInit, CallsInit

----------------------------------------------------------------------------
(* The graphics queue.                                                     *)

GePart ==
    /\ part = "ge" => Ge!QueueInv
    /\ part = "shared" => Shared!QueueInv

(* For every number of clients and every size of ring, guard and batch:    *)
(* the ring between hcge_linux_submit, the driver and the engine holds     *)
(* exactly the accepted words that are still to be drawn, a batch that     *)
(* refused a command is not submitted without it, a sync answers 0 only    *)
(* when all is drawn, and one retry finds room.                            *)
THEOREM AcceptedWordsAreKept == Spec => []GeQueueIsFaithful
<1>1. Init => GePart
  BY DeviceAssumption, PartStarts, Ge!QueueStarts, Shared!QueueStarts DEF GePart
<1>2. GePart /\ [Next]_vars => GePart'
  <2> SUFFICES ASSUME GePart, [Next]_vars PROVE GePart'
    OBVIOUS
  <2>1. ASSUME part = "ge" PROVE Ge!QueueInv'
    <3>1. Ge!QueueInv /\ [Ge!Next]_(Ge!vars)
      BY <2>1, PartSteps DEF GePart
    <3> QED BY <3>1, DeviceAssumption, Ge!QueueInductive
  <2>2. ASSUME part = "shared" PROVE Shared!QueueInv'
    <3>1. Shared!QueueInv /\ [Shared!Next]_(Shared!vars)
      BY <2>2, PartSteps DEF GePart
    <3> QED BY <3>1, DeviceAssumption, Shared!QueueInductive
  <2> QED BY <2>1, <2>2, PartSteps DEF GePart
<1>3. GePart => GeQueueIsFaithful
  BY DeviceAssumption, Ge!QueueInvGives, Shared!QueueInvGives
  DEF GePart, GeQueueIsFaithful
<1> QED BY <1>1, <1>2, <1>3, PTL DEF Spec

----------------------------------------------------------------------------
(* The fuses.                                                              *)

(* The controller has only fuses to blow that are whole and asked for.     *)
LoadsWhole == loading \cap fuses = {}
LoadsAsked == loading \subseteq requested /\ data \subseteq requested

(* From the ready poll to the start of the write nothing is being blown,   *)
(* not even for an earlier call that timed out, so what was read is true.  *)
Reading == {"read", "clear", "ready", "load"}
ReadsQuiet == efuse_pc \in Reading => loading = {}
ReadsTruly == efuse_pc \in Reading \ {"read"} => current = fuses

(* While the write is polled, what is asked for is blown or will be, unless
   the controller has reported an error. *)
WriteGoesOn == efuse_pc = "poll" /\ ~error => data \subseteq fuses \cup loading

EfuseInv ==
    /\ LoadsWhole /\ LoadsAsked /\ ReadsQuiet /\ ReadsTruly /\ WriteGoesOn
    /\ Efuses!OnlyAskedIsBlown /\ Efuses!NeverPulsedTwice
    /\ Efuses!SuccessIsComplete

(* Every step of caller and controller keeps the invariant.                *)
LEMMA EfuseInductive == EfuseInv /\ [Efuses!Next]_(Efuses!vars) => EfuseInv'
<1> SUFFICES ASSUME EfuseInv, [Efuses!Next]_(Efuses!vars) PROVE EfuseInv'
  OBVIOUS
<1> USE DEF EfuseInv, LoadsWhole, LoadsAsked, ReadsQuiet, ReadsTruly,
        WriteGoesOn, Reading, Efuses!OnlyAskedIsBlown, Efuses!NeverPulsedTwice,
        Efuses!SuccessIsComplete, Efuses!controller
<1>1. ASSUME NEW from \in Efuses!Fuse, NEW len \in 0..Bits, Efuses!Call(from,
             len)
      PROVE  EfuseInv'
  <2>1. PICK bits \in SUBSET (0..len - 1) :
           /\ data' = Efuses!Placed(from, bits)
           /\ requested' = requested \cup {from + b : b \in bits}
    BY <1>1 DEF Efuses!Call
  <2>2. data' \subseteq requested' /\ requested \subseteq requested'
    BY <2>1 DEF Efuses!Placed
  <2>3. efuse_pc' = "mode" /\ UNCHANGED <<Efuses!controller, current>>
    BY <1>1 DEF Efuses!Call
  <2> QED BY <2>2, <2>3
<1>2. CASE Efuses!SetMode BY <1>2 DEF Efuses!SetMode
<1>3. CASE Efuses!Ready("poll_read", "read") BY <1>3 DEF Efuses!Ready,
                                                         Efuses!Busy
<1>4. CASE Efuses!ReadWords BY <1>4 DEF Efuses!ReadWords
<1>5. CASE Efuses!ClearStatus BY <1>5 DEF Efuses!ClearStatus
<1>6. CASE Efuses!Ready("ready", "load") BY <1>6 DEF Efuses!Ready, Efuses!Busy
<1>7. CASE Efuses!Load BY <1>7 DEF Efuses!Load, Efuses!Missing
<1>8. CASE Efuses!Poll BY <1>8 DEF Efuses!Poll, Efuses!PollResult, Efuses!Busy
<1>9. CASE Efuses!Return BY <1>9 DEF Efuses!Return
<1>10. CASE Efuses!Blow
  <2>1. PICK f \in loading : /\ fuses' = fuses \cup {f}
                             /\ pulsed' = IF f \in fuses THEN pulsed \cup {f}
                                          ELSE pulsed
                             /\ loading' = loading \ {f}
    BY <1>10 DEF Efuses!Blow
  <2>2. f \notin fuses /\ f \in requested OBVIOUS
  <2>3. UNCHANGED <<mode, error, efuse_pc, data, current, requested, calls>>
    BY <1>10 DEF Efuses!Blow
  <2>4. efuse_pc \notin Reading BY <2>1
  <2> QED BY <2>1, <2>2, <2>3, <2>4
<1>11. CASE Efuses!Fails BY <1>11 DEF Efuses!Fails, Efuses!Busy
<1>12. CASE UNCHANGED Efuses!vars BY <1>12 DEF Efuses!vars
<1> QED BY <1>1, <1>2, <1>3, <1>4, <1>5, <1>6, <1>7, <1>8, <1>9, <1>10,
           <1>11, <1>12 DEF Efuses!Next

EfusePart == part = "efuse" => EfuseInv

(* For every number of fuses and of calls: hc15xx_efuse_write and          *)
(* hc15xx_efuse_bits_write blow only what somebody asked for, pulse no     *)
(* fuse twice over any sequence of failed, timed-out and repeated calls,   *)
(* and return 0 only when all that was asked for is blown.                 *)
THEOREM FusesAreSafe == Spec => []EfuseDoesWhatWasAsked
<1>1. Init => EfusePart
  BY PartStarts
  DEF EfusePart, Efuses!Init, EfuseInv, LoadsWhole, LoadsAsked, ReadsQuiet,
      ReadsTruly, WriteGoesOn, Reading, Efuses!OnlyAskedIsBlown,
      Efuses!NeverPulsedTwice, Efuses!SuccessIsComplete
<1>2. EfusePart /\ [Next]_vars => EfusePart'
  BY PartSteps, EfuseInductive DEF EfusePart
<1>3. EfusePart => EfuseDoesWhatWasAsked
  BY DEF EfusePart, EfuseInv, EfuseDoesWhatWasAsked,
         Efuses!EfuseDoesWhatWasAsked
<1> QED BY <1>1, <1>2, <1>3, PTL DEF Spec

----------------------------------------------------------------------------
(* The panel.                                                              *)

(* Two slots; None where nothing is fetched or staged.                     *)
SlotsOK == slot \in {0, 1}

(* The diagnostics run only when they were asked for, and the third frame  *)
(* is a hand-off's.                                                        *)
Diagnosing == {"probe", "probelatch", "probed", "restore", "restorelatch",
               "restored"}
PathOK == /\ panel_pc \in Diagnosing => boot.diag
          /\ panel_pc = "latch3" => boot.handoff

(* Wherever the next step builds a descriptor the scanout engine fetches   *)
(* the slot built last, and nothing newer is staged, unless a present      *)
(* without a latch came before; it then fetches one of the two slots, on a *)
(* boot without diagnostics.                                               *)
Latched == {"prime2", "commit", "active", "probe", "probed", "restore",
            "restored", "techeck", "condition", "hold"}
After == {"complete", "noticed", "loop", "paused", "stopped"}
FetchOK == /\ panel_pc \in Latched => fetch = slot /\ staged = slot
           /\ panel_pc \in After /\ ~loose => fetch = slot /\ staged = slot
           /\ panel_pc \in After /\ ~boot.diag =>
                  fetch \in {0, 1} /\ staged \in {0, 1}

(* Presents without a latch come only after the take-over.                 *)
LooseOK == loose => panel_pc \in After

(* The raster has the pads: of a hand-off from the reconnection on, of a   *)
(* direct boot from the commit on.                                         *)
Connected == {"prime1", "latch1", "prime2", "latch2", "commit"}
Live == {"latch3", "active", "techeck", "condition", "latch4", "hold"}
          \cup Diagnosing
PadsOK == /\ boot.handoff /\ panel_pc \in Connected => pads = "rgb"
          /\ panel_pc \in Live \cup After => pads = "rgb"

(* The conditioning is over when the service announces the display, and    *)
(* nothing moves it any more.                                              *)
ConditionOK ==
    panel_pc \in After /\ ~boot.diag => rearms - since >= TeEdges /\ ~te

(* Only the console loop announces, and it is not left for the abort.      *)
Announced == {"loop", "paused", "stopped"}
AnnounceOK == ready \/ started => panel_pc \in Announced

PanelInv ==
    /\ SlotsOK /\ PathOK /\ FetchOK /\ LooseOK /\ PadsOK /\ ConditionOK
    /\ AnnounceOK
    /\ Panel!InheritedPanelIsPreserved /\ Panel!AbortFailsClosed
    /\ Panel!FetchedSlotIsLeftAlone

(* build_gma_descriptor_profile while the engine fetches the slot built    *)
(* last: the other one is rewritten, so nothing that is scanned changes.   *)
LEMMA BuildSparesFetched ==
    ASSUME SlotsOK, ~writtenLive, fetch = slot, Panel!Built
    PROVE  SlotsOK' /\ ~writtenLive'
<1>1. fetch # 1 - slot /\ 1 - slot \in {0, 1}
  BY SMT DEF SlotsOK
<1>2. SlotsOK'
  BY <1>1 DEF SlotsOK, Panel!Built
<1>3. writtenLive' = (writtenLive \/ fetch = 1 - slot)
  BY DEF Panel!Built
<1>4. ~writtenLive'
  BY <1>1, <1>3, Zenon
<1> QED BY <1>2, <1>4

(* Every step of the service, of the panel and of init keeps it.           *)
LEMMA PanelInductive == PanelInv /\ [Panel!Next]_(Panel!vars) => PanelInv'
<1> SUFFICES ASSUME PanelInv, [Panel!Next]_(Panel!vars) PROVE PanelInv'
  OBVIOUS
<1> USE DEF PanelInv, SlotsOK, PathOK, FetchOK, LooseOK, PadsOK, ConditionOK,
        AnnounceOK, Panel!InheritedPanelIsPreserved, Panel!AbortFailsClosed,
        Panel!FetchedSlotIsLeftAlone
<1> USE DEF Diagnosing, Latched, After, Connected, Live, Announced
<1> USE DEF Panel!display, Panel!rebuilt, Panel!tearing, Panel!service, Panel!Go, Panel!Abort
<1>1. CASE Panel!Quiesce BY <1>1 DEF Panel!Quiesce
<1>2. CASE Panel!PanelInit BY <1>2 DEF Panel!PanelInit, Panel!McuOwned
<1>3. CASE Panel!Push BY <1>3 DEF Panel!Push, Panel!McuOwned
<1>4. CASE Panel!Connect BY <1>4 DEF Panel!Connect
<1>5. CASE Panel!Prime1 BY <1>5 DEF Panel!Prime1, Panel!Staged
<1>6. CASE Panel!Latch("latch1", "prime2") BY <1>6 DEF Panel!Latch
<1>7. CASE Panel!Present("prime2", "latch2")
  <2>1. Panel!Built /\ fetch = slot /\ ~writtenLive
    BY <1>7 DEF Panel!Present, Panel!PresentNext
  <2>2. SlotsOK' /\ ~writtenLive'
    BY <2>1, BuildSparesFetched
  <2> QED BY <1>7, <2>2 DEF Panel!Present, Panel!PresentNext
<1>8. CASE Panel!Latch("latch2", "commit") BY <1>8 DEF Panel!Latch
<1>9. CASE Panel!Commit BY <1>9 DEF Panel!Commit
<1>10. CASE Panel!PostCommit
  <2>1. Panel!Built /\ fetch = slot /\ ~writtenLive
    BY <1>10 DEF Panel!PostCommit, Panel!Present, Panel!PresentNext
  <2>2. SlotsOK' /\ ~writtenLive'
    BY <2>1, BuildSparesFetched
  <2> QED BY <1>10, <2>2 DEF Panel!PostCommit, Panel!Present, Panel!PresentNext
<1>11. CASE Panel!Latch("latch3", "active") BY <1>11 DEF Panel!Latch
<1>12. CASE Panel!Probe BY <1>12 DEF Panel!Probe
<1>13. CASE Panel!Present("probe", "probelatch")
  <2>1. Panel!Built /\ fetch = slot /\ ~writtenLive
    BY <1>13 DEF Panel!Present, Panel!PresentNext
  <2>2. SlotsOK' /\ ~writtenLive'
    BY <2>1, BuildSparesFetched
  <2> QED BY <1>13, <2>2 DEF Panel!Present, Panel!PresentNext
<1>14. CASE Panel!Latch("probelatch", "probed") BY <1>14 DEF Panel!Latch
<1>15. CASE Panel!ProbeEnds BY <1>15 DEF Panel!ProbeEnds
<1>16. CASE Panel!ProbeFails BY <1>16 DEF Panel!ProbeFails
<1>17. CASE Panel!Present("restore", "restorelatch")
  <2>1. Panel!Built /\ fetch = slot /\ ~writtenLive
    BY <1>17 DEF Panel!Present, Panel!PresentNext
  <2>2. SlotsOK' /\ ~writtenLive'
    BY <2>1, BuildSparesFetched
  <2> QED BY <1>17, <2>2 DEF Panel!Present, Panel!PresentNext
<1>18. CASE Panel!Latch("restorelatch", "restored") BY <1>18 DEF Panel!Latch
<1>19. CASE Panel!Restored BY <1>19 DEF Panel!Restored
<1>20. CASE Panel!TeCheck BY <1>20 DEF Panel!TeCheck
<1>21. CASE Panel!Present("condition", "latch4")
  <2>1. Panel!Built /\ fetch = slot /\ ~writtenLive
    BY <1>21 DEF Panel!Present, Panel!PresentNext
  <2>2. SlotsOK' /\ ~writtenLive'
    BY <2>1, BuildSparesFetched
  <2> QED BY <1>21, <2>2 DEF Panel!Present, Panel!PresentNext
<1>22. CASE Panel!Latch("latch4", "hold") BY <1>22 DEF Panel!Latch
<1>23. CASE Panel!LatchFails BY <1>23 DEF Panel!LatchFails, Panel!Waits
<1>24. CASE Panel!Conditioned BY <1>24 DEF Panel!Conditioned
<1>25. CASE Panel!HoldFails BY <1>25 DEF Panel!HoldFails
<1>26. CASE Panel!Publish BY <1>26 DEF Panel!Publish
<1>27. CASE Panel!Draw
  <2>1. /\ Panel!Built /\ staged' = 1 - slot /\ fetch' = 1 - slot
        /\ UNCHANGED <<boot, panel_pc, pads, mcuWrites, loose, te, rearms,
                       since, ready>>
        /\ panel_pc = "loop" /\ slot' = 1 - slot
    BY <1>27 DEF Panel!Draw, Panel!Built
  <2>2. CASE loose
    BY <2>1, <2>2, SMT
  <2>3. CASE ~loose
    <3>1. fetch = slot /\ ~writtenLive
      BY <2>1, <2>3
    <3>2. SlotsOK' /\ ~writtenLive'
      BY <2>1, <3>1, BuildSparesFetched
    <3> QED BY <2>1, <2>3, <3>2, SMT
  <2> QED BY <2>2, <2>3
<1>28. CASE Panel!Leave BY <1>28 DEF Panel!Leave
<1>29. CASE Panel!Rearm BY <1>29 DEF Panel!Rearm, Panel!Waits
<1>30. CASE Panel!Pause BY <1>30 DEF Panel!Pause
<1>31. CASE Panel!Resume BY <1>31 DEF Panel!Resume
<1>32. CASE Panel!StopRequested BY <1>32 DEF Panel!StopRequested
<1>33. CASE UNCHANGED Panel!vars BY <1>33 DEF Panel!vars
<1>34. CASE Panel!KmsgFails
  <2>1. /\ slot' = 1 - slot /\ staged' \in {staged, 1 - slot}
        /\ loose' = TRUE /\ panel_pc = "complete" /\ panel_pc' = "noticed"
        /\ UNCHANGED <<boot, pads, fetch, mcuWrites, te, rearms, since, ready,
                       started>>
    BY <1>34 DEF Panel!KmsgFails, Panel!PresentNext, Panel!Built, Panel!Staged
  <2> QED BY <2>1, SMT
<1>35. CASE Panel!Idle BY <1>35 DEF Panel!Idle
<1> QED
  BY <1>1, <1>2, <1>3, <1>4, <1>5, <1>6, <1>7, <1>8, <1>9, <1>10, <1>11,
     <1>12, <1>13, <1>14, <1>15, <1>16, <1>17, <1>18, <1>19, <1>20, <1>21,
     <1>22, <1>23, <1>24, <1>25, <1>26, <1>27, <1>28, <1>29, <1>30, <1>31,
     <1>32, <1>33, <1>34, <1>35
  DEF Panel!Next, Panel!Work

PanelPart == part = "panel" => PanelInv

(* For every number of conditioning edges and size of the deferred log:    *)
(* run_direct_console announces the display only with a Linux frame        *)
(* latched and conditioned, does not re-initialise the panel a bootloader  *)
(* left running, leaves the device dark and unannounced on every failure,  *)
(* and rewrites no descriptor while the scanout engine fetches it, unless  *)
(* it went on from a present whose latch it did not see (the notice that   *)
(* /dev/kmsg cannot be opened, diagnostics failed on a direct boot).       *)
THEOREM HandoffIsSafe == Spec => []PanelHandoffIsSafe
<1>1. Init => PanelPart
  BY PartStarts
  DEF PanelPart, Panel!Init, PanelInv, SlotsOK, PathOK, FetchOK, LooseOK,
      PadsOK, ConditionOK, AnnounceOK, Panel!InheritedPanelIsPreserved,
      Panel!AbortFailsClosed, Panel!FetchedSlotIsLeftAlone, Diagnosing,
      Latched, After, Connected, Live, Announced
<1>2. PanelPart /\ [Next]_vars => PanelPart'
  BY PartSteps, PanelInductive DEF PanelPart
<1>3. PanelPart => PanelHandoffIsSafe
  BY DEF PanelPart, PanelHandoffIsSafe, Panel!PanelHandoffIsSafe,
         Panel!ReadyMeansConditioned, PanelInv, SlotsOK, FetchOK, PadsOK,
         ConditionOK, AnnounceOK, After, Announced
<1> QED BY <1>1, <1>2, <1>3, PTL DEF Spec

----------------------------------------------------------------------------
(* The controller scan.                                                    *)

(* The service remembers the last scan; a reader of its events holds what  *)
(* was reported; two equal scans are reported; and only standby slows the  *)
(* scans down.                                                             *)
PadInv ==
    /\ raw_prev = last /\ held = state
    /\ run \in 0..2 /\ raw_count \in Nat
    /\ run # 1 => state = last
    /\ ~slept => poll_ms = normal_poll_ms

(* Every step of the service and of what it watches keeps it, and a turn   *)
(* at the normal rate reports only what two scans in a row have seen.      *)
LEMMA PadInductive ==
    ASSUME PadInv, [Pads!Next]_(Pads!vars)
    PROVE  PadInv' /\ (state' # state /\ ~slept => run' = 2 /\ last' = state')
<1> USE DEF PadInv
<1>1. CASE Pads!Turn
  <2>1. PICK raw, second \in SUBSET Buttons :
           LET s == Pads!Sampled(raw, second)
               edge == raw # raw_prev /\ poll_ms = normal_poll_ms
               after == IF raw = last THEN Pads!Cap(run + 1, 2) ELSE 1
           IN  /\ ~edge => second = raw
               /\ raw_prev' = s.raw
               /\ raw_count' = s.count
               /\ IF Pads!Reports(s)
                  THEN held' = Pads!EmitChanges(state, s.raw) /\ state' = s.raw
                  ELSE UNCHANGED <<held, state>>
               /\ last' = second
               /\ run' = IF ~edge THEN after ELSE IF second = raw THEN 2 ELSE 1
    BY <1>1 DEF Pads!Turn
  <2> DEFINE s == Pads!Sampled(raw, second)
  <2>2. ~slept' => poll_ms' = normal_poll_ms'
    <3>1. CASE Pads!LookUp
      <4>1. slept' = (standby # 0)
        BY <3>1 DEF Pads!LookUp
      <4>2. ~slept' => standby = 0
        BY <4>1, Zenon
      <4>3. standby = 0 => poll_ms' = normal_poll_ms'
        BY <3>1 DEF Pads!LookUp, Pads!NewPeriod, Pads!PollInterval
      <4> QED BY <4>2, <4>3
    <3>2. CASE UNCHANGED <<slept, poll_ms, normal_poll_ms>>
      BY <3>2
    <3> QED BY <1>1, <3>1, <3>2 DEF Pads!Turn
  <2>3. /\ s.raw = second /\ s.count \in Nat
        /\ raw = raw_prev => s.count >= 1
        /\ raw # raw_prev /\ poll_ms = normal_poll_ms =>
              s.count = IF second = raw THEN 1 ELSE 0
    BY <2>1 DEF Pads!Sampled, Pads!Cap, Pads!DebounceScans
  <2>4. Pads!Reports(s) <=>
           /\ s.count >= (IF poll_ms = normal_poll_ms THEN 1 ELSE 0)
           /\ second # state
    BY <2>3 DEF Pads!Reports, Pads!DebounceScans
  <2>5. /\ state' = IF Pads!Reports(s) THEN second ELSE state
        /\ held' = state'
    BY <2>1, <2>3 DEF Pads!EmitChanges
  <2>6. raw_prev' = second /\ last' = second /\ raw_count' \in Nat
    BY <2>1, <2>3
  <2> HIDE DEF s
  <2>7. run' = IF ~(raw # raw_prev /\ poll_ms = normal_poll_ms)
               THEN IF raw = last THEN Pads!Cap(run + 1, 2) ELSE 1
               ELSE IF second = raw THEN 2 ELSE 1
    BY <2>1
  <2>8. run' \in {1, 2} /\ (run' = 2 => state' = second)
    BY <2>1, <2>3, <2>4, <2>5, <2>7 DEF Pads!Cap
  <2>9. state' # state /\ ~slept => run' = 2
    BY <2>1, <2>3, <2>4, <2>5, <2>7 DEF Pads!Cap
  <2> QED BY <2>2, <2>5, <2>6, <2>8, <2>9
<1>2. CASE Pads!Standby \/ Pads!Mounted \/ Pads!HandleSignal
  BY <1>2 DEF Pads!Standby, Pads!Mounted, Pads!HandleSignal
<1>3. CASE UNCHANGED Pads!vars
  BY <1>3 DEF Pads!vars
<1> QED BY <1>1, <1>2, <1>3 DEF Pads!Next

PadPart == part = "pad" => PadInv

(* For every set of buttons and every configured period: after two equal   *)
(* scans the service reports the scanned buttons and a reader of its       *)
(* events holds exactly those; outside standby a report is confirmed by a  *)
(* second scan.                                                            *)
THEOREM PadIsTruthful == Spec => PadReportsButtons
<1>1. Init => PadPart
  BY PartStarts DEF PadPart, PadInv, Pads!Init
<1>2. PadPart /\ [Next]_vars => PadPart'
  BY PartSteps, PadInductive DEF PadPart
<1>3. PadPart => (part = "pad" => Pads!StableIsReported)
  BY DEF PadPart, PadInv, Pads!StableIsReported
<1>4. PadPart /\ [Next]_vars =>
        [part = "pad" /\ state' # state /\ ~slept
            => run' = 2 /\ last' = state']_vars
  BY PartSteps, PadInductive DEF PadPart
<1> QED BY <1>1, <1>2, <1>3, <1>4, PTL DEF Spec, PadReportsButtons

----------------------------------------------------------------------------
(* The audio ring.                                                         *)

(* Units from one cursor to another one.                                   *)
Dist(c, x) == IF x >= c THEN x - c ELSE (x - c) + Units

(* The units in the ring when the hardware was at b, a little earlier.     *)
Spot(b) == fill + Dist(b, consumer)

(* The steps of set_target whose playing `moved` counts.                   *)
Timed == {"store", "publish", "fetch", "register"}

CursorsOK ==
    /\ configured \in BOOLEAN /\ streaming \in BOOLEAN
    /\ streaming => configured
    /\ target \in Audio!Cursor /\ published \in Audio!Cursor
    /\ low \in Audio!Cursor
    /\ consumer \in Audio!Cursor /\ wpub \in Audio!Cursor
    /\ appl \in Audio!Cursor
    /\ wread \in Audio!Cursor /\ iread \in Audio!Cursor
    /\ wback \in Audio!Cursor /\ iback \in Audio!Cursor
    /\ fill \in 0..Units /\ moved \in Nat
    /\ wpc \in Timed \cup {"idle", "read", "service", "apply", "tail", "arm"}
    /\ wpc \in Timed => moved <= Speed
    /\ ipc \in {"idle", "apply", "tail", "arm"}
    /\ ~streaming => ipc = "idle"
    /\ ~configured => wpc = "idle" /\ low = consumer

(* The writer's cursor is the end of what was written; only a full ring    *)
(* has it where the hardware's is.                                         *)
FillOK ==
    configured =>
        \/ fill = Dist(consumer, appl)
        \/ fill = Units /\ appl = consumer

(* A call of set_target that has not stored its target yet: everything     *)
(* the hardware or the handler knows of ends before the new units.  Else   *)
(* the target is the end of them and the hardware is to stop before it.    *)
KnownOK ==
    /\ wpc \in {"read", "store"} =>
           Dist(consumer, low) <= Dist(consumer, target)
           /\ Dist(consumer, target) < fill
    /\ configured /\ wpc \notin {"read", "store"} =>
           target = appl /\ Dist(consumer, low) <= fill

(* The cursor it is about to publish: the end of a ring that is not full,  *)
(* or the guard short of it, where the hardware cannot have been yet.      *)
Safe(x) ==
    \/ x = appl /\ fill < Units
    \/ /\ fill = Units - moved /\ moved <= Speed
       /\ Dist(consumer, x) = (Units - Guard) - moved
StoreOK ==
    /\ wpc \in {"store", "publish", "register"} => Safe(wpub)
    /\ wpc = "fetch" => Safe(published)

(* Between two calls and in the service at the end of one.                 *)
RestOK ==
    configured /\ wpc \in {"idle", "service", "apply", "tail", "arm"} =>
        (low = appl => fill < Units)

(* Outside the updates of the register it holds the published cursor, but  *)
(* after a stale one.                                                      *)
StaleOK ==
    configured /\ wpc \notin {"fetch", "register", "tail"} /\ ipc # "tail"
    /\ ~stale => low = published

(* A service that found the consumer elsewhere finds the ring not full.    *)
ServiceOK ==
    /\ wpc = "apply" /\ wread # appl => fill < Units
    /\ ipc = "apply" /\ wpc \notin {"read", "store"} /\ iread # appl =>
           fill < Units

(* The consumers that may be written back: the hardware was there and has  *)
(* played since no more than was in the ring, and what goes to the low     *)
(* half with them fits.                                                    *)
WriterBackOK ==
    /\ wpc = "register" =>
           /\ Dist(wback, consumer) <= moved /\ Spot(wback) <= Units
           /\ wpub = appl => Spot(wback) < Units
    /\ wpc = "tail" => published = target /\ Spot(wback) < Units
HandlerBackOK ==
    ipc = "tail" =>
        /\ published = target /\ Spot(iback) <= Units
        /\ wpc # "read" /\ (wpc = "store" => wpub = appl) =>
               Spot(iback) < Units
        /\ wpc \in Timed => Dist(iback, consumer) <= moved
        /\ wpc \in {"register", "tail"} =>
               Dist(iback, consumer) <= Dist(wback, consumer)

AudioInv ==
    /\ CursorsOK /\ FillOK /\ KnownOK /\ StoreOK /\ RestOK /\ StaleOK
    /\ ServiceOK /\ WriterBackOK /\ HandlerBackOK

(* One turn of the ring.                                                   *)
LEMMA OneTurn ==
    ASSUME NEW u \in Nat \ {0}, NEW x \in Int
    PROVE  /\ x \in 0..u - 1 => x % u = x
           /\ x \in u..(2 * u) - 1 => x % u = x - u
           /\ x \in -u..-1 => x % u = x + u
OBVIOUS

(* A distance is less than the ring, and 0 between equal cursors only.     *)
LEMMA DistRange ==
    ASSUME Audio!AudioAssumption, NEW c \in Audio!Cursor, NEW x \in Audio!Cursor
    PROVE  Dist(c, x) \in 0..Units - 1 /\ (Dist(c, x) = 0 <=> x = c)
BY DEF Audio!AudioAssumption, Audio!Cursor, Dist

(* What the hardware may still play is a distance.                         *)
LEMMA AheadIsDist ==
    ASSUME Audio!AudioAssumption, CursorsOK
    PROVE  Audio!Ahead = Dist(consumer, low)
<1>1. Units \in Nat \ {0} /\ low - consumer \in Int
  BY DEF Audio!AudioAssumption, CursorsOK, Audio!Cursor
<1>2. /\ low - consumer \in 0..Units - 1 => Audio!Ahead = low - consumer
      /\ low - consumer \in -Units..-1 => Audio!Ahead = (low - consumer) + Units
  BY <1>1, OneTurn DEF Audio!Ahead
<1>3. low \in 0..Units - 1 /\ consumer \in 0..Units - 1
  BY DEF CursorsOK, Audio!Cursor
<1> HIDE DEF Audio!Ahead
<1> QED BY <1>1, <1>2, <1>3 DEF Dist

(* The hardware plays one unit: every other cursor comes one nearer.       *)
LEMMA OnePlayed ==
    ASSUME Audio!AudioAssumption, NEW c \in Audio!Cursor, NEW x \in Audio!Cursor
    PROVE  /\ (c + 1) % Units \in Audio!Cursor
           /\ Dist((c + 1) % Units, x) =
                  IF x = c THEN Units - 1 ELSE Dist(c, x) - 1
<1>1. Units \in Nat \ {0} /\ c + 1 \in Int
  BY DEF Audio!AudioAssumption, Audio!Cursor
<1>2. (c + 1) % Units = IF c + 1 = Units THEN 0 ELSE c + 1
  BY <1>1, OneTurn DEF Audio!Cursor
<1> QED BY <1>1, <1>2 DEF Audio!Cursor, Dist

(* Distances from two cursors differ by the one between them.               *)
LEMMA FromBehind ==
    ASSUME Audio!AudioAssumption, NEW b \in Audio!Cursor,
           NEW c \in Audio!Cursor, NEW x \in Audio!Cursor
    PROVE  /\ Dist(b, x) = IF Dist(b, c) + Dist(c, x) < Units
                           THEN Dist(b, c) + Dist(c, x)
                           ELSE (Dist(b, c) + Dist(c, x)) - Units
           /\ Dist(c, c) = 0
BY DEF Audio!AudioAssumption, Audio!Cursor, Dist

(* What a write-back does: it leaves the consumer, or puts it back to b.   *)
LEMMA WriteBackIs ==
    ASSUME Audio!AudioAssumption, CursorsOK, NEW b \in Audio!Cursor, NEW x,
           Audio!WriteBack(x, b)
    PROVE  /\ low' = x /\ (x # published => stale')
           /\ \/ consumer' = consumer /\ fill' = fill /\ moved' = moved
              \/ /\ consumer' = b /\ fill' = Spot(b)
                 /\ moved' \in Nat
                 /\ Dist(b, consumer) <= moved =>
                        moved' = moved - Dist(b, consumer)
                 /\ moved' <= moved
           /\ configured' = configured /\ streaming' = streaming
           /\ target' = target /\ published' = published
<1>1. Units \in Nat \ {0} /\ consumer - b \in Int
  BY DEF Audio!AudioAssumption, CursorsOK, Audio!Cursor
<1>2. /\ consumer - b \in 0..Units - 1 => Audio!Behind(b) = consumer - b
      /\ consumer - b \in -Units..-1 => Audio!Behind(b) = (consumer - b) + Units
  BY <1>1, OneTurn DEF Audio!Behind
<1>3. consumer \in 0..Units - 1 /\ b \in 0..Units - 1
  BY DEF CursorsOK, Audio!Cursor
<1>4. Audio!Behind(b) = Dist(b, consumer)
  <2> HIDE DEF Audio!Behind
  <2> QED BY <1>1, <1>2, <1>3 DEF Dist
<1>5. Dist(b, consumer) \in Nat
  BY DistRange DEF CursorsOK, Audio!AudioAssumption
<1>6. stale' = (x # published) /\ low' = x
  BY DEF Audio!WriteBack
<1>7. \/ consumer' = consumer /\ fill' = fill /\ moved' = moved
      \/ /\ consumer' = b /\ fill' = fill + Dist(b, consumer)
         /\ moved' = IF moved >= Dist(b, consumer)
                     THEN moved - Dist(b, consumer) ELSE 0
  <2> HIDE DEF Audio!Behind
  <2> QED BY <1>4 DEF Audio!WriteBack
<1>8. moved \in Nat
  BY DEF CursorsOK
<1>9. /\ configured' = configured /\ streaming' = streaming
      /\ target' = target /\ published' = published
  BY DEF Audio!WriteBack
<1>10. \/ consumer' = consumer /\ fill' = fill /\ moved' = moved
       \/ /\ consumer' = b /\ fill' = Spot(b)
          /\ moved' \in Nat
          /\ Dist(b, consumer) <= moved => moved' = moved - Dist(b, consumer)
          /\ moved' <= moved
  BY <1>5, <1>7, <1>8 DEF Spot
<1> QED BY <1>6, <1>9, <1>10

(* Nothing is configured at the start.                                     *)
LEMMA AudioStarts == ASSUME Audio!AudioAssumption, Audio!Init PROVE AudioInv
<1>1. CursorsOK
  <2>1. configured \in BOOLEAN /\ streaming \in BOOLEAN
    BY Zenon DEF Audio!Init
  <2> QED BY <2>1 DEF Audio!AudioAssumption, Audio!Init, CursorsOK, Audio!Cursor,
                      Timed
<1>2. /\ FillOK /\ KnownOK /\ StoreOK /\ RestOK /\ StaleOK /\ ServiceOK
      /\ WriterBackOK /\ HandlerBackOK
  BY DEF Audio!Init, FillOK, KnownOK, StoreOK, RestOK, StaleOK, ServiceOK,
         WriterBackOK, HandlerBackOK
<1> QED BY <1>1, <1>2 DEF AudioInv

(* What the invariant says of a listener: only written units are played,   *)
(* and none stays hidden in front of the published cursor, unless an       *)
(* update stored a stale one.                                              *)
LEMMA AudioInvGives ==
    ASSUME Audio!AudioAssumption, AudioInv
    PROVE  Audio!PlaysOnlyWritten /\ Audio!NothingElseHidden
<1>1. Audio!Ahead = Dist(consumer, low)
  BY AheadIsDist DEF AudioInv
<1>2. /\ Dist(consumer, low) \in 0..Units - 1
      /\ Dist(consumer, low) = 0 <=> low = consumer
      /\ Dist(consumer, appl) = 0 <=> appl = consumer
      /\ fill \in 0..Units
  BY DistRange DEF AudioInv, CursorsOK
<1>3. Audio!PlaysOnlyWritten
  <2>1. CASE ~configured
    BY <1>1, <1>2, <2>1 DEF Audio!PlaysOnlyWritten, AudioInv, CursorsOK
  <2>2. CASE wpc \in {"read", "store"}
    BY <1>1, <1>2, <2>2, DistRange
       DEF Audio!PlaysOnlyWritten, AudioInv, KnownOK, CursorsOK
  <2>3. CASE configured /\ wpc \notin {"read", "store"}
    BY <1>1, <2>3 DEF Audio!PlaysOnlyWritten, AudioInv, KnownOK
  <2> QED BY <2>1, <2>2, <2>3
<1>4. ASSUME wpc = "idle", ipc = "idle", streaming, fill > 0, ~stale,
             ~(Audio!Ahead > 0)
      PROVE  Audio!PublishesTail(consumer)
  <2>1. configured /\ low = published /\ target = appl
        /\ (low = appl => fill < Units)
    BY <1>4 DEF AudioInv, CursorsOK, StaleOK, KnownOK, RestOK
  <2>2. low = consumer
    BY <1>1, <1>2, <1>4
  <2>3. appl # consumer
    BY <1>2, <1>4, <2>1, <2>2 DEF AudioInv, FillOK
  <2> QED BY <2>1, <2>2, <2>3 DEF Audio!PublishesTail
<1> QED BY <1>3, <1>4 DEF Audio!NothingElseHidden, Audio!NothingHidden

(* Steps that move no cursor and no program counter that matters.          *)
LEMMA AudioIdles ==
    ASSUME Audio!AudioAssumption, AudioInv,
           UNCHANGED <<configured, streaming, target, published, low, consumer,
                       fill, moved, stale, Audio!writer, Audio!handler>>
    PROVE  AudioInv'
BY DEF AudioInv, CursorsOK, FillOK, KnownOK, StoreOK, Safe, RestOK, StaleOK,
       ServiceOK, WriterBackOK, HandlerBackOK, Spot, Audio!writer, Audio!handler

(* The calls that begin and end a stream.                                  *)
LEMMA StreamKeeps ==
    ASSUME Audio!AudioAssumption, AudioInv,
           Audio!Configure \/ Audio!Start \/ Audio!Stop
    PROVE  AudioInv'
<1> USE DEF AudioInv, Audio!library, Audio!hardware, Audio!writer, Audio!handler
<1>1. CASE Audio!Configure
  <2> USE <1>1 DEF Audio!Configure, Audio!WriterRuns
  <2>1. CursorsOK'
    <3>1. configured' \in BOOLEAN
      BY Zenon
    <3> QED BY <3>1 DEF CursorsOK, Audio!Cursor, Audio!AudioAssumption, Timed
  <2>2. /\ FillOK' /\ KnownOK' /\ StoreOK' /\ RestOK' /\ StaleOK' /\ ServiceOK'
        /\ WriterBackOK' /\ HandlerBackOK'
    BY DEF CursorsOK, FillOK, KnownOK, StoreOK, RestOK, StaleOK, ServiceOK,
           WriterBackOK, HandlerBackOK, Dist, Audio!AudioAssumption
  <2> QED BY <2>1, <2>2
<1>2. CASE Audio!Stop
  <2> USE <1>2 DEF Audio!Stop, Audio!WriterRuns
  <2>1. CursorsOK'
    <3>1. configured' \in BOOLEAN /\ streaming' \in BOOLEAN
      BY Zenon
    <3> QED BY <3>1 DEF CursorsOK, Audio!Cursor, Audio!AudioAssumption, Timed
  <2>2. ~configured' /\ wpc' = "idle" /\ ipc' = "idle"
    OBVIOUS
  <2>3. /\ FillOK' /\ KnownOK' /\ StoreOK' /\ RestOK' /\ StaleOK' /\ ServiceOK'
        /\ WriterBackOK' /\ HandlerBackOK'
    BY <2>2 DEF FillOK, KnownOK, StoreOK, RestOK, StaleOK, ServiceOK,
                WriterBackOK, HandlerBackOK
  <2> QED BY <2>1, <2>3
<1>3. CASE Audio!Start
  <2> USE <1>3 DEF Audio!Start, Audio!WriterRuns
  <2>1. CursorsOK' BY DEF CursorsOK, Timed
  <2>2. /\ FillOK' /\ KnownOK' /\ StoreOK' /\ RestOK' /\ StaleOK' /\ ServiceOK'
        /\ WriterBackOK' /\ HandlerBackOK'
    BY DEF CursorsOK, FillOK, KnownOK, StoreOK, RestOK, StaleOK, ServiceOK,
           WriterBackOK, HandlerBackOK
  <2> QED BY <2>1, <2>2
<1> QED BY <1>1, <1>2, <1>3

(* Units are written to the ring.                                          *)
LEMMA WriteKeeps ==
    ASSUME Audio!AudioAssumption, AudioInv, NEW k \in 1..Units, Audio!Write(k)
    PROVE  AudioInv'
<1> USE DEF AudioInv, Audio!library, Audio!hardware, Audio!writer, Audio!handler
<1>1. /\ wpc = "idle" /\ ipc = "idle" /\ configured /\ fill + k <= Units
      /\ fill' = fill + k /\ appl' = (appl + k) % Units /\ wpc' = "read"
      /\ UNCHANGED <<moved, Audio!library, Audio!hardware, stale, wread, wpub,
                     wback, Audio!handler>>
  BY DEF Audio!Write, Audio!WriterRuns
<1>2. appl' = IF appl + k < Units THEN appl + k ELSE (appl + k) - Units
  <2>1. Units \in Nat \ {0} /\ appl + k \in Int /\ appl \in 0..Units - 1
    BY DEF Audio!AudioAssumption, CursorsOK, Audio!Cursor
  <2>2. /\ appl + k \in 0..Units - 1 => (appl + k) % Units = appl + k
        /\ appl + k \in Units..(2 * Units) - 1 =>
              (appl + k) % Units = (appl + k) - Units
    BY <2>1, OneTurn
  <2>3. appl + k \in 0..Units - 1 \/ appl + k \in Units..(2 * Units) - 1
    BY <2>1
  <2> QED BY <1>1, <2>1, <2>2, <2>3
<1>3. CursorsOK'
  BY <1>1, <1>2 DEF CursorsOK, Audio!Cursor, Audio!AudioAssumption, Timed
<1>4. FillOK'
  <2>1. /\ fill = Dist(consumer, appl) /\ consumer' = consumer
        /\ fill \in 0..Units /\ appl \in 0..Units - 1
        /\ consumer \in 0..Units - 1 /\ Units \in Nat
        /\ fill' = fill + k /\ fill + k <= Units
    BY <1>1 DEF CursorsOK, Audio!Cursor, Audio!AudioAssumption, FillOK
  <2>2. \/ fill' = Dist(consumer', appl')
        \/ fill' = Units /\ appl' = consumer'
    BY <1>2, <2>1 DEF Dist
  <2> QED BY <2>2 DEF FillOK
<1>5. KnownOK'
  <2>1. target = appl /\ Dist(consumer, low) <= fill /\ fill < Units
    BY <1>1 DEF KnownOK, CursorsOK, Audio!AudioAssumption
  <2>2. fill = Dist(consumer, target)
    BY <1>1, <2>1 DEF FillOK, CursorsOK, Audio!AudioAssumption
  <2> QED BY <1>1, <2>1, <2>2 DEF KnownOK, CursorsOK, Audio!AudioAssumption
<1>6. /\ StoreOK' /\ RestOK' /\ StaleOK' /\ ServiceOK' /\ WriterBackOK'
      /\ HandlerBackOK'
  BY <1>1 DEF StoreOK, RestOK, StaleOK, ServiceOK, WriterBackOK, HandlerBackOK
<1> QED BY <1>3, <1>4, <1>5, <1>6

(* The consumer is read and the two cursors are stored.                    *)
LEMMA StoreKeeps ==
    ASSUME Audio!AudioAssumption, AudioInv,
           Audio!ReadConsumer \/ Audio!StoreTarget \/ Audio!StorePublished
           \/ Audio!FetchRegister
    PROVE  AudioInv'
<1> USE DEF AudioInv, Audio!library, Audio!hardware, Audio!writer, Audio!handler
<1>1. CASE Audio!ReadConsumer
  <2>1. /\ wpc = "read" /\ ipc = "idle" /\ wpc' = "store" /\ moved' = 0
        /\ wpub' = IF appl = consumer THEN (appl + Units - Guard) % Units
                   ELSE appl
        /\ UNCHANGED <<Audio!library, Audio!hardware, fill, stale, wread, appl,
                       wback, Audio!handler>>
    BY <1>1 DEF Audio!ReadConsumer, Audio!WriterRuns, Audio!Published
  <2>2. /\ wpub' \in Audio!Cursor
        /\ appl = consumer => Dist(consumer, wpub') = Units - Guard
    <3>1. /\ Units \in Nat \ {0}
          /\ appl + Units - Guard \in Int /\ appl \in 0..Units - 1
          /\ Guard \in 1..Units - 1
      BY DEF Audio!AudioAssumption, CursorsOK, Audio!Cursor
    <3> DEFINE x == appl + Units - Guard
    <3>2. /\ x \in 0..Units - 1 => x % Units = x
          /\ x \in Units..(2 * Units) - 1 => x % Units = x - Units
      BY <3>1, OneTurn
    <3>3. x \in 0..Units - 1 \/ x \in Units..(2 * Units) - 1
      BY <3>1
    <3>4. appl = consumer => wpub' = x % Units
      BY <2>1
    <3> QED BY <2>1, <3>1, <3>2, <3>3, <3>4 DEF Dist, Audio!Cursor
  <2>3. CursorsOK'
    BY <2>1, <2>2 DEF CursorsOK, Timed, Audio!AudioAssumption
  <2>4. /\ FillOK' /\ KnownOK' /\ RestOK' /\ StaleOK' /\ ServiceOK'
        /\ WriterBackOK' /\ HandlerBackOK'
    BY <2>1 DEF FillOK, KnownOK, RestOK, StaleOK, ServiceOK, WriterBackOK,
                HandlerBackOK
  <2>5. StoreOK'
    BY <2>1, <2>2, DistRange DEF CursorsOK, Audio!AudioAssumption, FillOK,
                                 KnownOK, StoreOK, Safe
  <2> QED BY <2>3, <2>4, <2>5
<1>2. CASE Audio!StoreTarget
  <2>1. /\ wpc = "store" /\ ipc = "idle" /\ wpc' = "publish" /\ target' = appl
        /\ UNCHANGED <<moved, configured, streaming, published, Audio!hardware,
                       fill, stale, wread, wpub, appl, wback, Audio!handler>>
    BY <1>2 DEF Audio!StoreTarget, Audio!WriterRuns
  <2>2. CursorsOK'
    BY <2>1 DEF CursorsOK, Timed
  <2>3. /\ FillOK' /\ StoreOK' /\ RestOK' /\ StaleOK' /\ ServiceOK'
        /\ WriterBackOK' /\ HandlerBackOK'
    BY <2>1 DEF FillOK, StoreOK, Safe, RestOK, StaleOK, ServiceOK,
                WriterBackOK, HandlerBackOK
  <2>4. KnownOK'
    BY <2>1, DistRange DEF KnownOK, CursorsOK, Audio!AudioAssumption
  <2> QED BY <2>2, <2>3, <2>4
<1>3. CASE Audio!StorePublished
  <2>1. /\ wpc = "publish" /\ ipc = "idle" /\ wpc' = "fetch"
        /\ published' = wpub
        /\ UNCHANGED <<moved, configured, streaming, target, Audio!hardware,
                       fill, stale, wread, wpub, appl, wback, Audio!handler>>
    BY <1>3 DEF Audio!StorePublished, Audio!WriterRuns
  <2>2. CursorsOK'
    BY <2>1 DEF CursorsOK, Timed
  <2>3. /\ FillOK' /\ KnownOK' /\ StoreOK' /\ RestOK' /\ StaleOK' /\ ServiceOK'
        /\ WriterBackOK' /\ HandlerBackOK'
    BY <2>1 DEF FillOK, KnownOK, StoreOK, Safe, RestOK, StaleOK, ServiceOK,
                WriterBackOK, HandlerBackOK
  <2> QED BY <2>2, <2>3
<1>4. CASE Audio!FetchRegister
  <2>1. /\ wpc = "fetch" /\ ipc = "idle" /\ wpc' = "register"
        /\ wpub' = published /\ wback' = consumer
        /\ UNCHANGED <<moved, Audio!library, Audio!hardware, fill, stale, wread,
                       appl, Audio!handler>>
    BY <1>4 DEF Audio!FetchRegister, Audio!WriterRuns
  <2>2. CursorsOK'
    BY <2>1 DEF CursorsOK, Timed
  <2>3. /\ FillOK' /\ KnownOK' /\ StoreOK' /\ RestOK' /\ StaleOK' /\ ServiceOK'
        /\ HandlerBackOK'
    BY <2>1 DEF FillOK, KnownOK, StoreOK, Safe, RestOK, StaleOK, ServiceOK,
                HandlerBackOK
  <2>4. Dist(consumer, consumer) = 0
    BY FromBehind DEF CursorsOK
  <2>5. (wpub' = appl') => fill < Units
    BY <2>1, DistRange
       DEF StoreOK, Safe, FillOK, CursorsOK, Audio!AudioAssumption
  <2>6. WriterBackOK'
    BY <2>1, <2>4, <2>5 DEF WriterBackOK, Spot, CursorsOK
  <2> QED BY <2>2, <2>3, <2>6
<1> QED BY <1>1, <1>2, <1>3, <1>4

(* The writer's update of the register.                                    *)
LEMMA RegisterKeeps ==
    ASSUME Audio!AudioAssumption, AudioInv, Audio!WriteRegister
    PROVE  AudioInv'
<1> USE DEF AudioInv, Audio!writer, Audio!handler
<1>1. /\ wpc = "register" /\ ipc = "idle" /\ Audio!WriteBack(wpub, wback)
      /\ wpc' = "service"
      /\ UNCHANGED <<wread, wpub, appl, wback, Audio!handler>>
  BY DEF Audio!WriteRegister, Audio!WriterRuns
<1> DEFINE d == Dist(wback, consumer)
<1>2. /\ low' = wpub /\ (wpub # published => stale')
      /\ \/ consumer' = consumer /\ fill' = fill /\ moved' = moved
         \/ consumer' = wback /\ fill' = fill + d /\ moved' \in Nat
      /\ configured' = configured /\ streaming' = streaming
      /\ target' = target /\ published' = published
  BY <1>1, WriteBackIs DEF CursorsOK, Spot
<1>3. /\ d <= moved /\ fill + d <= Units /\ (wpub = appl => fill + d < Units)
      /\ Safe(wpub) /\ target = appl /\ d \in 0..Units - 1
      /\ configured
  BY <1>1, DistRange DEF WriterBackOK, StoreOK, KnownOK, CursorsOK, Spot
<1>4. ASSUME NEW x \in Audio!Cursor
      PROVE  /\ Dist(wback, x) = IF d + Dist(consumer, x) < Units
                                 THEN d + Dist(consumer, x)
                                 ELSE (d + Dist(consumer, x)) - Units
             /\ Dist(consumer, x) \in 0..Units - 1
             /\ Dist(consumer, x) = 0 <=> x = consumer
             /\ Dist(wback, x) \in 0..Units - 1
             /\ Dist(wback, x) = 0 <=> x = wback
  BY FromBehind, DistRange DEF CursorsOK
<1> HIDE DEF d
<1>5. CursorsOK'
  BY <1>1, <1>2, <1>3 DEF CursorsOK, Timed
<1>6. FillOK'
  <2>1. wback \in Audio!Cursor /\ appl \in Audio!Cursor /\ fill \in 0..Units
        /\ Units \in Nat
    BY DEF CursorsOK, Audio!AudioAssumption
  <2>2. fill = Dist(consumer, appl) \/ (fill = Units /\ appl = consumer)
    BY <1>3 DEF FillOK
  <2> QED BY <1>1, <1>2, <1>3, <1>4, <2>1, <2>2 DEF FillOK
<1>7. KnownOK' /\ RestOK'
  <2>1. /\ wpub \in Audio!Cursor /\ appl \in Audio!Cursor /\ fill \in 0..Units
        /\ Units \in Nat /\ Guard \in 1..Units - 1 /\ moved \in Nat
        /\ Speed <= Units - Guard /\ Speed \in Nat
    BY DEF CursorsOK, Audio!AudioAssumption
  <2>2. fill = Dist(consumer, appl) \/ (fill = Units /\ appl = consumer)
    BY <1>3 DEF FillOK
  <2>3. CASE wpub = appl /\ fill < Units
    <3>1. fill = Dist(consumer, wpub)
      BY <2>1, <2>2, <2>3
    <3>2. Dist(consumer', low') <= fill' /\ fill' < Units
      BY <1>2, <1>3, <1>4, <2>1, <2>3, <3>1
    <3> QED BY <1>1, <1>2, <1>3, <3>2 DEF KnownOK, RestOK
  <2>4. CASE fill = Units - moved /\ moved <= Speed
             /\ Dist(consumer, wpub) = (Units - Guard) - moved
    <3>1. Dist(consumer', low') <= fill' /\ (low' = appl' => fill' < Units)
      BY <1>1, <1>2, <1>3, <1>4, <2>1, <2>2, <2>4
    <3> QED BY <1>1, <1>2, <1>3, <3>1 DEF KnownOK, RestOK
  <2> QED BY <1>3, <2>3, <2>4 DEF Safe
<1>8. /\ StoreOK' /\ StaleOK' /\ ServiceOK' /\ WriterBackOK' /\ HandlerBackOK'
  BY <1>1, <1>2 DEF StoreOK, StaleOK, ServiceOK, WriterBackOK, HandlerBackOK
<1> QED BY <1>5, <1>6, <1>7, <1>8

(* The service at the end of a call or of start.                           *)
LEMMA ServiceKeeps ==
    ASSUME Audio!AudioAssumption, AudioInv,
           Audio!WriterReads \/ Audio!WriterPublishes \/ Audio!WriterArms
    PROVE  AudioInv'
<1> USE DEF AudioInv, Audio!library, Audio!hardware, Audio!writer, Audio!handler
<1>1. CASE Audio!WriterReads
  <2>1. /\ wpc = "service" /\ ipc = "idle" /\ wpc' = "apply"
        /\ wread' = consumer
        /\ UNCHANGED <<moved, Audio!library, Audio!hardware, fill, stale, wpub,
                       appl, wback, Audio!handler>>
    BY <1>1 DEF Audio!WriterReads, Audio!WriterRuns
  <2>2. CursorsOK' /\ FillOK' /\ KnownOK' /\ StoreOK' /\ RestOK' /\ StaleOK'
    BY <2>1 DEF CursorsOK, Timed, FillOK, KnownOK, StoreOK, RestOK, StaleOK
  <2>3. ServiceOK'
    BY <2>1, DistRange DEF CursorsOK, FillOK, ServiceOK, Audio!AudioAssumption
  <2>4. WriterBackOK' /\ HandlerBackOK'
    BY <2>1 DEF WriterBackOK, HandlerBackOK
  <2> QED BY <2>2, <2>3, <2>4
<1>2. CASE Audio!WriterPublishes
  <2>1. /\ wpc = "apply" /\ ipc = "idle"
        /\ \/ /\ wread # target /\ published' = target /\ wback' = consumer
              /\ wpc' = "tail"
           \/ wpc' = "arm" /\ published' = published /\ wback' = wback
        /\ UNCHANGED <<moved, configured, streaming, target, Audio!hardware,
                       fill, stale, wread, wpub, appl, Audio!handler>>
    BY <1>2 DEF Audio!WriterPublishes, Audio!WriterRuns, Audio!PublishesTail
  <2>2. CursorsOK'
    BY <2>1 DEF CursorsOK, Timed
  <2>3. /\ FillOK' /\ KnownOK' /\ StoreOK' /\ RestOK' /\ StaleOK' /\ ServiceOK'
        /\ HandlerBackOK'
    BY <2>1 DEF FillOK, KnownOK, StoreOK, RestOK, StaleOK, ServiceOK,
                HandlerBackOK
  <2>4. WriterBackOK'
    <3>1. wpc' = "tail" => fill < Units
      BY <2>1 DEF ServiceOK, KnownOK, CursorsOK
    <3>2. Dist(consumer, consumer) = 0
      BY FromBehind DEF CursorsOK
    <3> QED BY <2>1, <3>1, <3>2 DEF WriterBackOK, Spot, CursorsOK
  <2> QED BY <2>2, <2>3, <2>4
<1>3. CASE Audio!WriterArms
  <2>1. /\ wpc = "arm" /\ ipc = "idle" /\ wpc' = "idle"
        /\ wread' = 0 /\ wpub' = 0 /\ wback' = 0 /\ moved' = 0
        /\ UNCHANGED <<Audio!library, low, consumer, fill, stale, appl,
                       Audio!handler>>
    BY <1>3 DEF Audio!WriterArms, Audio!WriterRuns, Audio!Arm
  <2>2. CursorsOK'
    BY <2>1 DEF CursorsOK, Timed, Audio!Cursor, Audio!AudioAssumption
  <2>3. /\ FillOK' /\ KnownOK' /\ StoreOK' /\ RestOK' /\ StaleOK' /\ ServiceOK'
        /\ WriterBackOK' /\ HandlerBackOK'
    BY <2>1 DEF FillOK, KnownOK, StoreOK, RestOK, StaleOK, ServiceOK,
                WriterBackOK, HandlerBackOK
  <2> QED BY <2>2, <2>3
<1> QED BY <1>1, <1>2, <1>3

(* The writer's update for the tail.                                       *)
LEMMA TailKeeps ==
    ASSUME Audio!AudioAssumption, AudioInv, Audio!WriterWritesTail
    PROVE  AudioInv'
<1> USE DEF AudioInv, Audio!writer, Audio!handler
<1>1. /\ wpc = "tail" /\ ipc = "idle" /\ Audio!WriteBack(published, wback)
      /\ wpc' = "arm"
      /\ UNCHANGED <<wread, wpub, appl, wback, Audio!handler>>
  BY DEF Audio!WriterWritesTail, Audio!WriterRuns
<1> DEFINE d == Dist(wback, consumer)
<1>2. /\ low' = published
      /\ \/ consumer' = consumer /\ fill' = fill /\ moved' = moved
         \/ consumer' = wback /\ fill' = fill + d /\ moved' \in Nat
      /\ configured' = configured /\ streaming' = streaming
      /\ target' = target /\ published' = published
  BY <1>1, WriteBackIs DEF CursorsOK, Spot
<1>3. /\ fill + d < Units /\ published = appl /\ target = appl
      /\ d \in 0..Units - 1 /\ configured
  BY <1>1, DistRange DEF WriterBackOK, KnownOK, CursorsOK, Spot
<1>4. /\ Dist(wback, appl) = IF d + Dist(consumer, appl) < Units
                             THEN d + Dist(consumer, appl)
                             ELSE (d + Dist(consumer, appl)) - Units
      /\ Dist(consumer, appl) \in 0..Units - 1
  BY FromBehind, DistRange DEF CursorsOK
<1> HIDE DEF d
<1>5. CursorsOK'
  BY <1>1, <1>2, <1>3 DEF CursorsOK, Timed, Audio!AudioAssumption
<1>6. fill' = Dist(consumer', appl) /\ fill' < Units
  <2>1. fill = Dist(consumer, appl) /\ fill \in 0..Units /\ Units \in Nat
    BY <1>3 DEF FillOK, CursorsOK, Audio!AudioAssumption
  <2> QED BY <1>2, <1>3, <1>4, <2>1
<1>7. FillOK' /\ KnownOK' /\ RestOK'
  BY <1>1, <1>2, <1>3, <1>6, <1>5 DEF FillOK, KnownOK, RestOK, CursorsOK
<1>8. /\ StoreOK' /\ StaleOK' /\ ServiceOK' /\ WriterBackOK' /\ HandlerBackOK'
  BY <1>1, <1>2 DEF StoreOK, StaleOK, ServiceOK, WriterBackOK, HandlerBackOK
<1> QED BY <1>5, <1>7, <1>8

(* The handler up to its update of the register, and after it.             *)
LEMMA HandlerKeeps ==
    ASSUME Audio!AudioAssumption, AudioInv,
           Audio!HandlerReads \/ Audio!HandlerPublishes \/ Audio!HandlerArms
    PROVE  AudioInv'
<1> USE DEF AudioInv, Audio!library, Audio!hardware, Audio!writer, Audio!handler
<1>1. CASE Audio!HandlerReads
  <2>1. /\ ipc = "idle" /\ streaming /\ iread' = consumer /\ ipc' = "apply"
        /\ UNCHANGED <<moved, Audio!library, Audio!hardware, fill, stale,
                       Audio!writer, iback>>
    BY <1>1 DEF Audio!HandlerReads
  <2>2. /\ CursorsOK' /\ FillOK' /\ KnownOK' /\ StoreOK' /\ RestOK' /\ StaleOK'
        /\ WriterBackOK' /\ HandlerBackOK'
    BY <2>1 DEF CursorsOK, FillOK, KnownOK, StoreOK, Safe, RestOK, StaleOK,
                WriterBackOK, HandlerBackOK, Spot
  <2>3. ServiceOK'
    BY <2>1, DistRange DEF CursorsOK, FillOK, ServiceOK, Audio!AudioAssumption
  <2> QED BY <2>2, <2>3
<1>2. CASE Audio!HandlerPublishes
  <2>1. /\ ipc = "apply"
        /\ \/ /\ iread # target /\ published' = target /\ iback' = consumer
              /\ ipc' = "tail"
           \/ ipc' = "arm" /\ published' = published /\ iback' = iback
        /\ UNCHANGED <<moved, configured, streaming, target, Audio!hardware,
                       fill, stale, Audio!writer, iread>>
    BY <1>2 DEF Audio!HandlerPublishes, Audio!PublishesTail
  <2>2. CursorsOK'
    BY <2>1 DEF CursorsOK
  <2>3. FillOK' /\ KnownOK' /\ RestOK' /\ ServiceOK'
    BY <2>1 DEF FillOK, KnownOK, RestOK, ServiceOK
  <2>4. /\ configured
        /\ wpc \notin {"read", "store"} /\ ipc' = "tail" =>
               target = appl /\ fill < Units
    BY <2>1 DEF CursorsOK, KnownOK, ServiceOK
  <2>5. StoreOK'
    BY <2>1, <2>4 DEF StoreOK, Safe
  <2>6. StaleOK' /\ WriterBackOK'
    BY <2>1 DEF StaleOK, WriterBackOK, Spot
  <2>7. HandlerBackOK'
    <3>1. SUFFICES ASSUME ipc' = "tail" PROVE HandlerBackOK'
      BY DEF HandlerBackOK
    <3>2. Dist(consumer, consumer) = 0 /\ fill \in 0..Units /\ Units \in Nat
      BY FromBehind DEF CursorsOK, Audio!AudioAssumption
    <3>3. iback' = consumer /\ consumer' = consumer /\ fill' = fill
          /\ published' = target' /\ wpc' = wpc /\ moved' = moved
          /\ wback' = wback /\ wpub' = wpub /\ appl' = appl
      BY <2>1, <3>1
    <3>4. wpc = "store" /\ wpub = appl => fill < Units
      BY DistRange DEF StoreOK, Safe, FillOK, CursorsOK, Audio!AudioAssumption
    <3>5. Dist(wback, consumer) \in Nat /\ moved \in Nat
      BY DistRange DEF CursorsOK, Audio!AudioAssumption
    <3> QED BY <2>4, <3>1, <3>2, <3>3, <3>4, <3>5 DEF HandlerBackOK, Spot
  <2> QED BY <2>2, <2>3, <2>5, <2>6, <2>7
<1>3. CASE Audio!HandlerArms
  <2>1. /\ ipc = "arm" /\ ipc' = "idle" /\ iread' = 0 /\ iback' = 0
        /\ UNCHANGED <<moved, Audio!library, low, consumer, fill, stale,
                       Audio!writer>>
    BY <1>3 DEF Audio!HandlerArms, Audio!Arm
  <2>2. CursorsOK'
    BY <2>1 DEF CursorsOK, Audio!Cursor, Audio!AudioAssumption
  <2>3. /\ FillOK' /\ KnownOK' /\ StoreOK' /\ RestOK' /\ StaleOK' /\ ServiceOK'
        /\ WriterBackOK' /\ HandlerBackOK'
    BY <2>1 DEF FillOK, KnownOK, StoreOK, Safe, RestOK, StaleOK, ServiceOK,
                WriterBackOK, HandlerBackOK, Spot
  <2> QED BY <2>2, <2>3
<1> QED BY <1>1, <1>2, <1>3

(* The handler's update, wherever it has interrupted the writer.           *)
LEMMA HandlerTailKeeps ==
    ASSUME Audio!AudioAssumption, AudioInv, Audio!HandlerWritesTail
    PROVE  AudioInv'
<1> USE DEF AudioInv, Audio!writer, Audio!handler
<1>1. /\ ipc = "tail" /\ Audio!WriteBack(published, iback) /\ ipc' = "arm"
      /\ UNCHANGED <<Audio!writer, iread, iback>>
  BY DEF Audio!HandlerWritesTail
<1> DEFINE d == Dist(iback, consumer)
<1>2. /\ low' = published
      /\ \/ consumer' = consumer /\ fill' = fill /\ moved' = moved
         \/ /\ consumer' = iback /\ fill' = fill + d /\ moved' \in Nat
            /\ (d <= moved => moved' = moved - d) /\ moved' <= moved
      /\ configured' = configured /\ streaming' = streaming
      /\ target' = target /\ published' = published
  BY <1>1, WriteBackIs DEF CursorsOK, Spot
<1>3. /\ published = target /\ fill + d <= Units /\ configured
      /\ wpc # "read" /\ (wpc = "store" => wpub = appl) => fill + d < Units
      /\ wpc \in Timed => d <= moved /\ moved <= Speed
      /\ d \in 0..Units - 1
      /\ wpc \in {"register", "tail"} => d <= Dist(wback, consumer)
  BY <1>1, DistRange DEF HandlerBackOK, CursorsOK, Spot
<1>4. ASSUME NEW x \in Audio!Cursor
      PROVE  /\ Dist(iback, x) = IF d + Dist(consumer, x) < Units
                                 THEN d + Dist(consumer, x)
                                 ELSE (d + Dist(consumer, x)) - Units
             /\ Dist(consumer, x) \in 0..Units - 1
             /\ Dist(consumer, x) = 0 <=> x = consumer
             /\ Dist(iback, x) = 0 <=> x = iback
  BY FromBehind, DistRange DEF CursorsOK
<1>5. /\ fill \in 0..Units /\ Units \in Nat /\ moved \in Nat
      /\ Guard \in 1..Units - 1 /\ Speed \in 0..Units - Guard
      /\ appl \in Audio!Cursor /\ target \in Audio!Cursor
      /\ wpub \in Audio!Cursor /\ published \in Audio!Cursor
  BY DEF CursorsOK, Audio!AudioAssumption
<1>6. fill = Dist(consumer, appl) \/ (fill = Units /\ appl = consumer)
  BY <1>3 DEF FillOK
<1>7. d = Dist(iback, consumer)
  OBVIOUS
<1> HIDE DEF d
<1>8. CursorsOK'
  <2>1. moved' <= moved /\ moved' \in Nat /\ fill' \in 0..Units
    BY <1>2, <1>3, <1>5
  <2>2. wpc' = wpc /\ wpc \in Timed => moved' <= Speed
    BY <1>3, <1>5, <2>1
  <2> QED BY <1>1, <1>2, <2>1, <2>2 DEF CursorsOK
<1>9. FillOK'
  BY <1>1, <1>2, <1>3, <1>4, <1>5, <1>6 DEF FillOK
<1>10. KnownOK'
  <2>1. CASE wpc \in {"read", "store"}
    <3>1. Dist(consumer, target) < fill
      BY <2>1 DEF KnownOK
    <3>2. Dist(consumer', target) < fill'
      BY <1>2, <1>3, <1>4, <1>5, <3>1
    <3>3. low' = target
      BY <1>2, <1>3
    <3>4. Dist(consumer', target) \in Nat
      BY <1>8, DistRange, <1>5 DEF CursorsOK, Audio!AudioAssumption
    <3> QED BY <1>1, <1>2, <2>1, <3>2, <3>3, <3>4 DEF KnownOK
  <2>2. CASE wpc \notin {"read", "store"}
    <3>1. target = appl /\ low' = appl /\ fill + d < Units
      BY <1>2, <1>3, <2>2 DEF KnownOK
    <3>2. Dist(consumer', appl) <= fill'
      BY <1>2, <1>3, <1>4, <1>5, <1>6, <3>1
    <3> QED BY <1>1, <1>2, <2>2, <3>1, <3>2 DEF KnownOK
  <2> QED BY <2>1, <2>2
<1>11. StoreOK'
  <2>1. ASSUME NEW x \in Audio!Cursor, Safe(x), wpc \in Timed,
               x = appl => fill + d < Units
        PROVE  \/ x = appl /\ fill' < Units
               \/ /\ fill' = Units - moved' /\ moved' <= Speed
                  /\ Dist(consumer', x) = (Units - Guard) - moved'
    <3>1. CASE x = appl /\ fill < Units
      BY <1>2, <1>3, <1>5, <2>1, <3>1
    <3>2. CASE fill = Units - moved /\ moved <= Speed
               /\ Dist(consumer, x) = (Units - Guard) - moved
      BY <1>2, <1>3, <1>4, <1>5, <2>1, <3>2
    <3> QED BY <2>1, <3>1, <3>2 DEF Safe
  <2>2. wpc \in {"store", "publish", "register"} =>
            (wpub = appl => fill + d < Units)
    BY <1>3
  <2>3. wpc = "fetch" => (published = appl => fill + d < Units)
    BY <1>3
  <2>4. wpc \in {"store", "publish", "register"} => Safe(wpub)'
    BY <1>1, <1>5, <2>1, <2>2 DEF StoreOK, Safe, Timed
  <2>5. wpc = "fetch" => Safe(published)'
    BY <1>1, <1>2, <1>5, <2>1, <2>3 DEF StoreOK, Safe, Timed
  <2> QED BY <1>1, <2>4, <2>5 DEF StoreOK
<1>12. RestOK' /\ ServiceOK'
  BY <1>1, <1>2, <1>3, <1>5 DEF RestOK, ServiceOK
<1>13. StaleOK'
  BY <1>1, <1>2 DEF StaleOK
<1>14. HandlerBackOK'
  BY <1>1 DEF HandlerBackOK
<1>15. WriterBackOK'
  <2>1. SUFFICES ASSUME wpc \in {"register", "tail"} PROVE WriterBackOK'
    BY <1>1 DEF WriterBackOK
  <2>2. /\ Dist(wback, consumer) = IF Dist(wback, iback) + d < Units
                                   THEN Dist(wback, iback) + d
                                   ELSE (Dist(wback, iback) + d) - Units
        /\ Dist(wback, iback) \in 0..Units - 1
        /\ Dist(wback, consumer) \in 0..Units - 1
    <3>1. /\ wback \in Audio!Cursor /\ iback \in Audio!Cursor
          /\ consumer \in Audio!Cursor
      BY DEF CursorsOK
    <3> HIDE DEF AudioInv
    <3>2. Dist(wback, consumer) =
              IF Dist(wback, iback) + Dist(iback, consumer) < Units
              THEN Dist(wback, iback) + Dist(iback, consumer)
              ELSE (Dist(wback, iback) + Dist(iback, consumer)) - Units
      BY <3>1, FromBehind
    <3>3. /\ Dist(wback, iback) \in 0..Units - 1
          /\ Dist(wback, consumer) \in 0..Units - 1
      BY <3>1, DistRange
    <3> QED BY <1>7, <3>2, <3>3
  <2>3. Dist(wback, iback) = Dist(wback, consumer) - d
    BY <1>3, <1>5, <2>1, <2>2
  <2>4. \/ /\ Dist(wback, consumer') = Dist(wback, consumer)
           /\ fill' = fill /\ moved' = moved
        \/ /\ Dist(wback, consumer') = Dist(wback, iback)
           /\ fill' = fill + d /\ (d <= moved => moved' = moved - d)
    BY <1>2
  <2>5. fill' + Dist(wback, consumer') = fill + Dist(wback, consumer)
    BY <1>3, <1>5, <2>2, <2>3, <2>4
  <2>7. wpc = "register" /\ Dist(wback, consumer) <= moved =>
            Dist(wback, consumer') <= moved'
    BY <1>3, <1>5, <2>2, <2>3, <2>4 DEF Timed
  <2>6. /\ wpc' = wpc /\ wpub' = wpub /\ appl' = appl /\ wback' = wback
        /\ target' = target /\ published' = published
    BY <1>1, <1>2
  <2> QED BY <2>5, <2>6, <2>7 DEF WriterBackOK, Spot
<1> QED BY <1>8, <1>9, <1>10, <1>11, <1>12, <1>13, <1>14, <1>15

(* One unit is played.                                                     *)
LEMMA PlayKeeps ==
    ASSUME Audio!AudioAssumption, AudioInv, Audio!Play
    PROVE  AudioInv'
<1> USE DEF AudioInv, Audio!library, Audio!writer, Audio!handler
<1>1. /\ streaming /\ consumer # low /\ consumer' = (consumer + 1) % Units
      /\ fill' = fill - 1
      /\ wpc \in Timed => moved < Speed /\ moved' = moved + 1
      /\ wpc \notin Timed => moved' = moved
      /\ UNCHANGED <<Audio!library, low, stale, Audio!writer, Audio!handler>>
  BY DEF Audio!Play, Timed
<1> DEFINE Nearer(x) == /\ Dist(consumer, x) \in 0..Units - 1
                        /\ Dist(consumer, x) = 0 <=> x = consumer
                        /\ Dist(consumer', x) = IF x = consumer THEN Units - 1
                                                ELSE Dist(consumer, x) - 1
           Farther(b) == /\ Dist(b, consumer) \in 0..Units - 1
                         /\ Dist(b, consumer) + 1 < Units =>
                                Dist(b, consumer') = Dist(b, consumer) + 1
<1>2. ASSUME NEW x \in Audio!Cursor PROVE Nearer(x)
  BY <1>1, OnePlayed, DistRange DEF CursorsOK
<1>3. consumer' \in Audio!Cursor
  BY <1>1, OnePlayed DEF CursorsOK
<1>4. ASSUME NEW b \in Audio!Cursor PROVE Farther(b)
  <2>1. /\ Dist(b, consumer') = IF Dist(b, consumer) + Dist(consumer, consumer')
                                     < Units
                                THEN Dist(b, consumer) + Dist(consumer, consumer')
                                ELSE (Dist(b, consumer)
                                      + Dist(consumer, consumer')) - Units
        /\ Dist(b, consumer) \in 0..Units - 1
        /\ Dist(consumer, consumer') \in 0..Units - 1
        /\ Dist(consumer', consumer') = 0
    BY <1>3, FromBehind, DistRange DEF CursorsOK
  <2>2. /\ Dist(consumer', consumer') = IF consumer' = consumer THEN Units - 1
                                        ELSE Dist(consumer, consumer') - 1
    BY <1>2, <1>3
  <2>3. Dist(consumer, consumer') = 0 <=> consumer' = consumer
    BY <1>2, <1>3
  <2>4. Units \in Nat /\ Units > 1
    BY DEF Audio!AudioAssumption
  <2> QED BY <2>1, <2>2, <2>3, <2>4
<1>5. /\ Nearer(low) /\ Nearer(target) /\ Nearer(appl) /\ Nearer(wpub)
      /\ Nearer(published) /\ Farther(wback) /\ Farther(iback)
  BY <1>2, <1>4 DEF CursorsOK
<1> HIDE DEF Nearer
<1>6. /\ fill \in 1..Units /\ Units \in Nat /\ configured /\ moved \in Nat
      /\ Guard \in 1..Units - 1 /\ Speed \in 0..Units - Guard
      /\ wpc \in {"read", "store"} => fill >= 2
  BY <1>1, <1>5 DEF CursorsOK, KnownOK, Audio!AudioAssumption, Nearer
<1>7. CursorsOK'
  BY <1>1, <1>3, <1>6 DEF CursorsOK
<1>8. FillOK'
  <2>1. \/ fill = Dist(consumer, appl)
        \/ fill = Units /\ appl = consumer
    BY <1>6 DEF FillOK
  <2>2. fill' = Dist(consumer', appl')
    BY <1>1, <1>5, <1>6, <2>1 DEF Nearer
  <2> QED BY <2>2 DEF FillOK
<1>9. KnownOK'
  BY <1>1, <1>5, <1>6 DEF KnownOK, Nearer
<1>10. StoreOK'
  <2>1. ASSUME NEW x, Nearer(x), Safe(x), wpc \in Timed
        PROVE  \/ x = appl /\ fill' < Units
               \/ /\ fill' = Units - moved' /\ moved' <= Speed
                  /\ Dist(consumer', x) = (Units - Guard) - moved'
    BY <1>1, <1>6, <2>1 DEF Safe, Nearer
  <2>2. wpc \in {"store", "publish", "register"} => Safe(wpub)'
    BY <1>1, <1>5, <2>1 DEF StoreOK, Safe, Timed
  <2>3. wpc = "fetch" => Safe(published)'
    BY <1>1, <1>5, <2>1 DEF StoreOK, Safe, Timed
  <2> QED BY <1>1, <2>2, <2>3 DEF StoreOK
<1>11. RestOK' /\ StaleOK' /\ ServiceOK'
  BY <1>1, <1>6 DEF RestOK, StaleOK, ServiceOK
<1>12. ASSUME NEW b, Farther(b), Spot(b) <= Units,
              Spot(b) < Units \/ fill >= 2
       PROVE  /\ Dist(b, consumer') = Dist(b, consumer) + 1
              /\ fill' + Dist(b, consumer') = Spot(b)
  BY <1>1, <1>6, <1>12 DEF Spot
<1>13. WriterBackOK'
  <2>1. CASE wpc = "register"
    <3>1. Dist(wback, consumer) <= moved /\ moved < Speed
          /\ Spot(wback) <= Units /\ (wpub = appl => Spot(wback) < Units)
      BY <1>1, <2>1 DEF WriterBackOK, Timed
    <3>2. /\ Dist(wback, consumer') = Dist(wback, consumer) + 1
          /\ fill' + Dist(wback, consumer') = Spot(wback)
      BY <1>1, <1>5, <1>6, <3>1 DEF Spot
    <3> QED BY <1>1, <1>5, <1>6, <2>1, <3>1, <3>2
            DEF WriterBackOK, Spot, Timed
  <2>2. CASE wpc = "tail"
    BY <1>1, <1>5, <1>12, <2>2 DEF WriterBackOK, Spot, CursorsOK,
                                   Audio!AudioAssumption
  <2>3. CASE wpc \notin {"register", "tail"}
    BY <1>1, <2>3 DEF WriterBackOK
  <2> QED BY <2>1, <2>2, <2>3
<1>14. HandlerBackOK'
  <2>1. SUFFICES ASSUME ipc = "tail" PROVE HandlerBackOK'
    BY <1>1 DEF HandlerBackOK
  <2>2. Spot(iback) <= Units /\ (Spot(iback) < Units \/ fill >= 2)
    BY <1>6, <2>1 DEF HandlerBackOK
  <2>3. /\ Dist(iback, consumer') = Dist(iback, consumer) + 1
        /\ fill' + Dist(iback, consumer') = Spot(iback)
    BY <1>5, <1>12, <2>2
  <2>4. wpc \in {"register", "tail"} =>
            Dist(wback, consumer') = Dist(wback, consumer) + 1
    <3>1. CASE wpc = "register"
      BY <1>1, <1>5, <1>6, <3>1 DEF WriterBackOK, Timed
    <3>2. CASE wpc = "tail"
      BY <1>5, <1>12, <3>2 DEF WriterBackOK, Spot, CursorsOK,
                               Audio!AudioAssumption
    <3> QED BY <3>1, <3>2
  <2> QED BY <1>1, <1>5, <1>6, <2>1, <2>3, <2>4 DEF HandlerBackOK, Spot
<1> QED BY <1>7, <1>8, <1>9, <1>10, <1>11, <1>13, <1>14

(* Every step of the writer, the handler and the hardware keeps it.        *)
LEMMA AudioInductive ==
    ASSUME Audio!AudioAssumption, AudioInv, [Audio!Next]_(Audio!vars)
    PROVE  AudioInv'
<1>1. CASE Audio!SeesEmpty \/ Audio!RunsDry \/ UNCHANGED Audio!vars
  BY <1>1, AudioIdles DEF Audio!SeesEmpty, Audio!RunsDry, Audio!vars,
                          Audio!library, Audio!hardware
<1>2. CASE Audio!HandlerServices
  BY <1>2, HandlerKeeps, HandlerTailKeeps DEF Audio!HandlerServices
<1>3. CASE Audio!SetTarget
  BY <1>3, StoreKeeps, RegisterKeeps, ServiceKeeps, TailKeeps
     DEF Audio!SetTarget
<1> QED
  BY <1>1, <1>2, <1>3, StreamKeeps, WriteKeeps, HandlerKeeps, PlayKeeps
     DEF Audio!Next, Audio!Writer, Audio!Handler, Audio!Hardware

AudioPart == part = "audio" => AudioInv

(* For every size of the ring and of its guard, and for hardware that      *)
(* plays at most the rest of the ring during a call: no interleaving of    *)
(* hc15xx_audio_set_target, the interrupt handler and the hardware lets it *)
(* play what was not written, although the register is updated in two      *)
(* accesses and the consumer read by the first may take effect again; and  *)
(* a full ring is never taken for an empty one, but after an update that   *)
(* stored another cursor than the one published.                           *)
THEOREM PlaysWhatWasWritten == Spec => []AudioRingIsFaithful
<1>1. Init => AudioPart
  BY DeviceAssumption, PartStarts, AudioStarts DEF AudioPart
<1>2. AudioPart /\ [Next]_vars => AudioPart'
  <2> SUFFICES ASSUME AudioPart, [Next]_vars, part' = "audio" PROVE AudioInv'
    BY DEF AudioPart
  <2>1. AudioInv /\ [Audio!Next]_(Audio!vars)
    BY PartSteps DEF AudioPart
  <2> QED BY <2>1, DeviceAssumption, AudioInductive
<1>3. AudioPart => AudioRingIsFaithful
  BY DeviceAssumption, AudioInvGives DEF AudioPart, AudioRingIsFaithful
<1> QED BY <1>1, <1>2, <1>3, PTL DEF Spec

----------------------------------------------------------------------------
(* Induction over the numbers.                                             *)

(* A set of numbers has a least one. *)
LEMMA LeastNumber ==
    ASSUME NEW T \in SUBSET Nat, T # {}
    PROVE  \E m \in T : \A k \in T : m <= k
<1>1. \A R : IsWellFoundedOn(R, Nat)
                 => \E m \in T : \A k \in T : <<k, m>> \notin R
  BY WFMin
<1>2. PICK m \in T : \A k \in T : <<k, m>> \notin OpToRel(<, Nat)
  BY <1>1, NatLessThanWellFounded
<1>3. \A k \in T : ~(k < m)
  BY <1>2 DEF OpToRel
<1> QED BY <1>3

(* Induction over the numbers. *)
LEMMA AllNumbers ==
    ASSUME NEW T, 0 \in T, \A k \in Nat : k \in T => k + 1 \in T
    PROVE  \A k \in Nat : k \in T
<1> DEFINE U == {k \in Nat : k \notin T}
<1>1. SUFFICES ASSUME U # {} PROVE FALSE
  OBVIOUS
<1>2. PICK m \in U : \A k \in U : m <= k
  BY <1>1, LeastNumber
<1>3. m \in Nat /\ m # 0 /\ m - 1 \in Nat /\ m - 1 \notin U
  BY <1>2
<1>4. m - 1 \in T
  BY <1>3
<1>5. (m - 1) + 1 \in T
  BY <1>3, <1>4
<1> QED BY <1>3, <1>5

----------------------------------------------------------------------------
(* The cache model.                                                        *)

(* The model's cardinality is that of the theorems on finite sets. *)
LEMMA SameCardinality == \A S : Cache!Cardinality(S) = Cardinality(S)
BY Zenon DEF Cache!Cardinality, Cardinality

WayType == [valid : BOOLEAN, line : Nat, age : Nat]
CacheType == [tick : Nat, way : [0..Sets - 1 -> [1..Ways -> WayType]]]

(* A line is only held in the set its address belongs to. *)
Shelved(c) ==
    \A s \in 0..Sets - 1 : \A w \in 1..Ways :
        c.way[s][w].valid => Cache!SetOf(c.way[s][w].line) = s

(* A line is held when a valid way has it. *)
LEMMA ContentsAre ==
    ASSUME NEW c, NEW x
    PROVE  x \in Cache!Contents(c) <=>
               \E s \in 0..Sets - 1 : \E w \in 1..Ways :
                   c.way[s][w].valid /\ c.way[s][w].line = x
<1>1. x \in Cache!Contents(c) <=> \E s \in 0..Sets - 1 : x \in Cache!Held(c, s)
  BY DEF Cache!Contents
<1>2. \A s : x \in Cache!Held(c, s) <=>
                \E w \in 1..Ways : c.way[s][w].valid /\ c.way[s][w].line = x
  BY DEF Cache!Held
<1> QED BY <1>1, <1>2

(* The place of an access is the first one that is free or has the line, and
   an oldest one when there is none. *)
LEMMA ChosenWay ==
    ASSUME Cache!CacheAssumption, NEW ways \in [1..Ways -> WayType], NEW a
    PROVE  /\ Cache!Chosen(ways, a) \in 1..Ways
           /\ Cache!Stops(ways, a) = {} =>
                  \A v \in 1..Ways :
                      ways[Cache!Chosen(ways, a)].age <= ways[v].age
           /\ Cache!Stops(ways, a) # {} =>
                  /\ Cache!Chosen(ways, a) \in Cache!Stops(ways, a)
                  /\ \A v \in Cache!Stops(ways, a) : Cache!Chosen(ways, a) <= v
<1> DEFINE S == Cache!Stops(ways, a)
<1>1. S \subseteq 1..Ways /\ 1 \in 1..Ways /\ 1..Ways \subseteq Nat
  BY DEF Cache!Stops, Cache!CacheAssumption
<1>2. CASE S # {}
  <2>1. \E w \in S : \A v \in S : w <= v
    BY <1>1, <1>2, LeastNumber
  <2>2. Cache!Chosen(ways, a) \in S /\ \A v \in S : Cache!Chosen(ways, a) <= v
    BY <1>2, <2>1 DEF Cache!Chosen
  <2> QED BY <1>1, <1>2, <2>2
<1>3. CASE S = {}
  <2> DEFINE Ages == {ways[v].age : v \in 1..Ways}
  <2>1. Ages \subseteq Nat /\ Ages # {}
    BY <1>1 DEF WayType
  <2>2. PICK old \in Ages : \A x \in Ages : old <= x
    BY <2>1, LeastNumber
  <2> DEFINE Oldest == {v \in 1..Ways : ways[v].age = old}
  <2>3. Oldest \subseteq Nat /\ Oldest # {}
    BY <1>1, <2>2
  <2>4. PICK w \in Oldest : \A v \in Oldest : w <= v
    BY <2>3, LeastNumber
  <2>5. /\ w \in 1..Ways
        /\ \A v \in 1..Ways : ways[w].age <= ways[v].age
        /\ \A v \in 1..w - 1 : ways[v].age > ways[w].age
    <3>1. w \in 1..Ways /\ ways[w].age = old
      BY <2>4
    <3>2. ASSUME NEW v \in 1..Ways PROVE ways[w].age <= ways[v].age
      BY <2>2, <3>1, <3>2
    <3>3. ASSUME NEW v \in 1..w - 1 PROVE ways[v].age > ways[w].age
      <4>1. v \in 1..Ways /\ ~(w <= v)
        BY <1>1, <3>1, <3>3 DEF Cache!CacheAssumption
      <4>2. ways[v].age # old /\ ways[v].age \in Nat /\ old \in Nat
        BY <2>1, <2>2, <2>4, <4>1 DEF WayType
      <4> QED BY <3>1, <3>2, <4>1, <4>2
    <3> QED BY <3>1, <3>2, <3>3
  <2>6. Cache!Victim(ways) \in 1..Ways
        /\ \A v \in 1..Ways : ways[Cache!Victim(ways)].age <= ways[v].age
    BY <2>5 DEF Cache!Victim
  <2> QED BY <1>3, <2>6 DEF Cache!Chosen
<1> QED BY <1>2, <1>3

(* An age is a number, and the tick itself until the ages wrap. *)
LEMMA AgeIs ==
    ASSUME Cache!CacheAssumption, NEW c, c.tick \in Nat
    PROVE  /\ Cache!Age(c) \in Nat
           /\ c.tick + 1 < AgeSpan => Cache!Age(c) = c.tick + 1
BY DEF Cache!Age, Cache!CacheAssumption

(* What one access changes. *)
LEMMA AccessIs ==
    ASSUME Cache!CacheAssumption, NEW c \in CacheType, NEW a \in Nat
    PROVE  LET s == Cache!SetOf(a)
               w == Cache!Chosen(c.way[s], a)
               d == Cache!Access(c, a)
           IN  /\ s \in 0..Sets - 1 /\ w \in 1..Ways
               /\ d \in CacheType /\ d.tick = c.tick + 1
               /\ \A t \in 0..Sets - 1, v \in 1..Ways :
                      d.way[t][v] = IF t = s /\ v = w
                                    THEN [valid |-> TRUE, line |-> a,
                                          age |-> Cache!Age(c)]
                                    ELSE c.way[t][v]
<1> DEFINE s == Cache!SetOf(a)
           w == Cache!Chosen(c.way[s], a)
           new == [valid |-> TRUE, line |-> a, age |-> Cache!Age(c)]
<1>1. s \in 0..Sets - 1
  BY DEF Cache!SetOf, Cache!CacheAssumption
<1>2. c.way[s] \in [1..Ways -> WayType] /\ c.tick \in Nat
  BY <1>1 DEF CacheType
<1>3. w \in 1..Ways
  BY <1>2, ChosenWay
<1>4. new \in WayType
  BY <1>2, AgeIs DEF WayType
<1> DEFINE d == Cache!Access(c, a)
           table == [c.way EXCEPT ![s] = [@ EXCEPT ![w] = new]]
<1>5. d = [tick |-> c.tick + 1, way |-> table]
  BY DEF Cache!Access
<1> HIDE DEF s, w, new
<1>6. [c.way EXCEPT ![s] = [@ EXCEPT ![w] = new]]
          \in [0..Sets - 1 -> [1..Ways -> WayType]]
  BY <1>1, <1>2, <1>3, <1>4 DEF CacheType
<1>7. d \in CacheType /\ d.tick = c.tick + 1 /\ d.way = table
  <2> HIDE DEF d, table
  <2>2. table \in [0..Sets - 1 -> [1..Ways -> WayType]]
    BY <1>6 DEF table
  <2> QED BY <1>2, <1>5, <2>2 DEF CacheType
<1>8. \A t \in 0..Sets - 1, v \in 1..Ways :
          [c.way EXCEPT ![s] = [@ EXCEPT ![w] = new]][t][v]
              = IF t = s /\ v = w THEN new ELSE c.way[t][v]
  BY <1>1, <1>3 DEF CacheType
<1> HIDE DEF d
<1>9. /\ s \in 0..Sets - 1 /\ w \in 1..Ways
      /\ d \in CacheType /\ d.tick = c.tick + 1
      /\ \A t \in 0..Sets - 1, v \in 1..Ways :
             d.way[t][v] = IF t = s /\ v = w THEN new ELSE c.way[t][v]
  BY <1>1, <1>3, <1>7, <1>8
<1> QED BY <1>9 DEF s, w, new, d

(* Fetching a line brings in no other, and a hit is a line that was there. *)
LEMMA FetchBringsOne ==
    ASSUME Cache!CacheAssumption, NEW c \in CacheType, NEW a \in Nat, Shelved(c)
    PROVE  /\ Cache!Access(c, a) \in CacheType /\ Shelved(Cache!Access(c, a))
           /\ Cache!Contents(Cache!Access(c, a)) \subseteq Cache!Contents(c)
                  \cup {a}
           /\ Cache!Hit(c, a) => a \in Cache!Contents(c)
<1> DEFINE s == Cache!SetOf(a)
           w == Cache!Chosen(c.way[s], a)
           d == Cache!Access(c, a)
<1>1. /\ s \in 0..Sets - 1 /\ w \in 1..Ways
      /\ d \in CacheType /\ d.tick = c.tick + 1
      /\ \A t \in 0..Sets - 1, v \in 1..Ways :
             d.way[t][v] = IF t = s /\ v = w
                           THEN [valid |-> TRUE, line |-> a,
                                 age |-> Cache!Age(c)]
                           ELSE c.way[t][v]
  BY AccessIs
<1>2. Cache!Hit(c, a) => a \in Cache!Contents(c)
  BY <1>1, ContentsAre DEF Cache!Hit
<1> HIDE DEF w, d
<1>3. Shelved(d)
  BY <1>1 DEF Shelved
<1>4. Cache!Contents(d) \subseteq Cache!Contents(c) \cup {a}
  <2>1. SUFFICES ASSUME NEW t \in 0..Sets - 1, NEW v \in 1..Ways,
                        d.way[t][v].valid
                 PROVE  d.way[t][v].line \in Cache!Contents(c) \cup {a}
    BY ContentsAre
  <2>2. CASE t = s /\ v = w
    BY <1>1, <2>2
  <2>3. CASE d.way[t][v] = c.way[t][v]
    BY <2>1, <2>3, ContentsAre
  <2> QED BY <1>1, <2>2, <2>3
<1> QED BY <1>1, <1>2, <1>3, <1>4 DEF d

(* Dropping a line removes it wherever it is held. *)
LEMMA DropRemoves ==
    ASSUME Cache!CacheAssumption, NEW c \in CacheType, NEW a \in Nat, Shelved(c)
    PROVE  /\ Cache!Invalidate(c, a) \in CacheType
           /\ Shelved(Cache!Invalidate(c, a))
           /\ Cache!Contents(Cache!Invalidate(c, a))
                  \subseteq Cache!Contents(c) \ {a}
<1> DEFINE s == Cache!SetOf(a)
           Old(v) == c.way[s][v]
           new == [v \in 1..Ways |->
                      IF Old(v).valid /\ Old(v).line = a
                      THEN [Old(v) EXCEPT !.valid = FALSE, !.age = 0]
                      ELSE Old(v)]
           d == Cache!Invalidate(c, a)
<1>1. s \in 0..Sets - 1
  BY DEF Cache!SetOf, Cache!CacheAssumption
<1>2. \A v \in 1..Ways : Old(v) \in WayType
  BY <1>1 DEF CacheType
<1>3. new \in [1..Ways -> WayType]
  <2>1. \A x \in WayType : [x EXCEPT !.valid = FALSE, !.age = 0] \in WayType
    BY DEF WayType
  <2>2. \A v \in 1..Ways : new[v] \in WayType
    BY <1>2, <2>1
  <2>3. new = [v \in 1..Ways |-> new[v]]
    OBVIOUS
  <2> HIDE DEF new
  <2> QED BY <2>2, <2>3
<1>4. d = [c EXCEPT !.way = [@ EXCEPT ![s] = new]]
  BY <1>1 DEF Cache!Invalidate, CacheType
<1>5. \A v \in 1..Ways :
          \/ new[v] = c.way[s][v] /\ ~(new[v].valid /\ new[v].line = a)
          \/ ~new[v].valid
  BY <1>2 DEF WayType
<1> HIDE DEF new, d, s
<1>6. d \in CacheType /\ d.way = [c.way EXCEPT ![s] = new]
  BY <1>1, <1>3, <1>4 DEF CacheType
<1>7. \A t \in 0..Sets - 1 : d.way[t] = IF t = s THEN new ELSE c.way[t]
  BY <1>1, <1>6 DEF CacheType
<1>8. ASSUME NEW t \in 0..Sets - 1, NEW v \in 1..Ways, d.way[t][v].valid
      PROVE  d.way[t][v] = c.way[t][v] /\ d.way[t][v].line # a
  <2>1. CASE t = s
    BY <1>5, <1>7, <1>8, <2>1
  <2>2. CASE t # s
    BY <1>7, <1>8, <2>2 DEF Shelved, s
  <2> QED BY <2>1, <2>2
<1>9. Shelved(d)
  BY <1>8 DEF Shelved
<1>10. Cache!Contents(d) \subseteq Cache!Contents(c) \ {a}
  <2>1. SUFFICES ASSUME NEW t \in 0..Sets - 1, NEW v \in 1..Ways,
                        d.way[t][v].valid
                 PROVE  d.way[t][v].line \in Cache!Contents(c) \ {a}
    BY ContentsAre
  <2> QED BY <1>8, <2>1, ContentsAre
<1> QED BY <1>6, <1>9, <1>10 DEF d

(* As long as the ages do not wrap: the age of a line is the number of its
   last access; the valid ways of a set
   come first and hold different lines; and a line that was accessed and is not
   held any more is older than everything in its full set. *)
Lru(c, log) ==
    /\ c \in CacheType /\ log \in Seq(Nat) /\ c.tick = Len(log)
    /\ \A s \in 0..Sets - 1 : \A w \in 1..Ways :
           c.way[s][w].valid =>
               /\ Cache!SetOf(c.way[s][w].line) = s
               /\ c.way[s][w].age \in 1..Len(log)
               /\ log[c.way[s][w].age] = c.way[s][w].line
               /\ \A j \in 1..Len(log) :
                      j > c.way[s][w].age => log[j] # c.way[s][w].line
    /\ \A s \in 0..Sets - 1 : \A v, w \in 1..Ways :
           c.way[s][w].valid => /\ v < w => c.way[s][v].valid
                                /\ c.way[s][v].valid
                                   /\ c.way[s][v].line = c.way[s][w].line =>
                                          v = w
    /\ \A s \in 0..Sets - 1 : \A i \in 1..Len(log) :
           Cache!SetOf(log[i]) = s =>
               \/ \E w \in 1..Ways :
                      c.way[s][w].valid /\ c.way[s][w].line = log[i]
               \/ \A w \in 1..Ways : c.way[s][w].valid /\ c.way[s][w].age > i

(* An empty cache has seen nothing. *)
LEMMA LruStarts ==
    ASSUME Cache!CacheAssumption
    PROVE  Lru(Cache!EmptyCache, <<>>)
BY DEF Cache!CacheAssumption, Lru, Cache!EmptyCache, Cache!EmptyWay, CacheType,
       WayType

(* One access keeps the order. *)
LEMMA LruAccess ==
    ASSUME Cache!CacheAssumption, NEW c, NEW log, Lru(c, log), NEW a \in Nat,
           Len(log) + 1 < AgeSpan
    PROVE  Lru(Cache!Access(c, a), Append(log, a))
<1> DEFINE s == Cache!SetOf(a)
           w == Cache!Chosen(c.way[s], a)
           d == Cache!Access(c, a)
           more == Append(log, a)
           old == c.way
           new == d.way
<1>1. /\ c \in CacheType /\ log \in Seq(Nat) /\ c.tick = Len(log)
      /\ Len(log) \in Nat
  BY DEF Lru
<1>2. /\ s \in 0..Sets - 1 /\ w \in 1..Ways
      /\ d \in CacheType /\ d.tick = Len(log) + 1
      /\ \A t \in 0..Sets - 1, v \in 1..Ways :
             new[t][v] = IF t = s /\ v = w
                         THEN [valid |-> TRUE, line |-> a, age |-> Len(log) + 1]
                         ELSE old[t][v]
  <2>1. Cache!Age(c) = Len(log) + 1
    BY <1>1, AgeIs
  <2> QED BY <1>1, <2>1, AccessIs
<1>3. /\ more \in Seq(Nat) /\ Len(more) = Len(log) + 1
      /\ more[Len(log) + 1] = a /\ \A i \in 1..Len(log) : more[i] = log[i]
  BY <1>1
<1>4. old[s] \in [1..Ways -> WayType]
  BY <1>1, <1>2 DEF CacheType
<1>5. /\ Cache!Stops(old[s], a) = {} =>
             \A v \in 1..Ways : /\ old[s][v].valid /\ old[s][v].line # a
                                /\ old[s][w].age <= old[s][v].age
      /\ Cache!Stops(old[s], a) # {} =>
             /\ ~old[s][w].valid \/ old[s][w].line = a
             /\ \A v \in 1..Ways : ~old[s][v].valid \/ old[s][v].line = a =>
                    w <= v
  BY <1>4, ChosenWay DEF Cache!Stops
<1> DEFINE Valid(t, v) == old[t][v].valid = TRUE
           Line(t, v) == old[t][v].line
           Age(t, v) == old[t][v].age
           NowValid(t, v) == new[t][v].valid = TRUE
           NowLine(t, v) == new[t][v].line
           NowAge(t, v) == new[t][v].age
           full == Cache!Stops(old[s], a) = {}
<1>6. /\ NowValid(s, w) /\ NowLine(s, w) = a /\ NowAge(s, w) = Len(log) + 1
      /\ \A t \in 0..Sets - 1, v \in 1..Ways :
             t # s \/ v # w => /\ NowValid(t, v) <=> Valid(t, v)
                               /\ NowLine(t, v) = Line(t, v)
                               /\ NowAge(t, v) = Age(t, v)
  BY <1>2
<1>7. \A v \in 1..Ways : old[s][v].valid \in BOOLEAN /\ Age(s, v) \in Nat
  BY <1>4 DEF WayType
<1>8. /\ full => \A v \in 1..Ways : Valid(s, v) /\ Line(s, v) # a
                                    /\ Age(s, w) <= Age(s, v)
      /\ ~full => /\ ~Valid(s, w) \/ Line(s, w) = a
                  /\ \A v \in 1..Ways : ~Valid(s, v) \/ Line(s, v) = a => w <= v
  BY <1>2, <1>5, <1>7
<1>9. \A t \in 0..Sets - 1 : \A v \in 1..Ways :
          Valid(t, v) => /\ Cache!SetOf(Line(t, v)) = t
                         /\ Age(t, v) \in 1..Len(log)
                         /\ log[Age(t, v)] = Line(t, v)
                         /\ \A j \in 1..Len(log) :
                                j > Age(t, v) => log[j] # Line(t, v)
  BY DEF Lru
<1>10. \A t \in 0..Sets - 1 : \A u, v \in 1..Ways :
           Valid(t, v) => /\ u < v => Valid(t, u)
                          /\ Valid(t, u) /\ Line(t, u) = Line(t, v) => u = v
  <2>1. \A t \in 0..Sets - 1 : old[t] \in [1..Ways -> WayType]
    BY <1>1 DEF CacheType
  <2>2. \A t \in 0..Sets - 1 : \A v \in 1..Ways : old[t][v].valid \in BOOLEAN
    BY <2>1 DEF WayType
  <2> QED BY <2>2 DEF Lru
<1>11. \A t \in 0..Sets - 1 : \A i \in 1..Len(log) :
           Cache!SetOf(log[i]) = t =>
               \/ \E v \in 1..Ways : Valid(t, v) /\ Line(t, v) = log[i]
               \/ \A v \in 1..Ways : Valid(t, v) /\ Age(t, v) > i
  <2>1. \A t \in 0..Sets - 1 : old[t] \in [1..Ways -> WayType]
    BY <1>1 DEF CacheType
  <2>2. \A t \in 0..Sets - 1 : \A v \in 1..Ways : old[t][v].valid \in BOOLEAN
    BY <2>1 DEF WayType
  <2> QED BY <2>2 DEF Lru
<1>12. \A t \in 0..Sets - 1 : \A v \in 1..Ways : new[t][v].valid \in BOOLEAN
  <2>1. \A t \in 0..Sets - 1 : new[t] \in [1..Ways -> WayType]
    BY <1>2 DEF CacheType
  <2> QED BY <2>1 DEF WayType
<1> DEFINE L == Len(log)
           R == 0..Sets - 1
           W == 1..Ways
<1>13. L \in Nat /\ s \in R /\ w \in W /\ W \subseteq Nat
  BY <1>1, <1>2 DEF Cache!CacheAssumption
<1> DEFINE Home(x) == Cache!SetOf(x)
<1>14. Home(a) = s
  OBVIOUS
<1> HIDE DEF s, w, d, more, old, new, Valid, Line, Age, NowValid, NowLine,
             NowAge,
             full, Home
(* The line is held nowhere else, and no way after a free one is valid. *)
<1>20. \A v \in W : Valid(s, v) /\ Line(s, v) = a => v = w
  <2>1. SUFFICES ASSUME NEW v \in W, Valid(s, v), Line(s, v) = a, v # w
        PROVE FALSE
    OBVIOUS
  <2>2. ~full /\ w <= v
    BY <1>8, <2>1
  <2>3. Valid(s, w)
    BY <1>10, <1>13, <2>1, <2>2
  <2>4. Line(s, w) = a
    BY <1>8, <2>2, <2>3
  <2> QED BY <1>10, <1>13, <2>1, <2>3, <2>4
<1>21. \A v \in W : v < w => Valid(s, v)
  BY <1>8, <1>13
<1>22. ASSUME NEW t \in R, NEW v \in W, NowValid(t, v)
       PROVE  /\ Home(NowLine(t, v)) = t
              /\ NowAge(t, v) \in 1..L + 1
              /\ more[NowAge(t, v)] = NowLine(t, v)
              /\ \A j \in 1..L + 1 : j > NowAge(t, v) => more[j] # NowLine(t, v)
  <2>1. CASE t = s /\ v = w
    BY <1>3, <1>6, <1>13, <1>14, <2>1
  <2>2. CASE t # s \/ v # w
    <3>1. /\ Valid(t, v) /\ NowLine(t, v) = Line(t, v)
          /\ NowAge(t, v) = Age(t, v)
      BY <1>6, <1>22, <2>2
    <3>2. /\ Home(Line(t, v)) = t
          /\ Age(t, v) \in 1..L /\ log[Age(t, v)] = Line(t, v)
          /\ \A j \in 1..L : j > Age(t, v) => log[j] # Line(t, v)
      BY <1>9, <3>1 DEF Home
    <3>3. Line(t, v) # a
      BY <1>14, <1>20, <2>2, <3>1, <3>2
    <3>4. ASSUME NEW j \in 1..L + 1, j > Age(t, v) PROVE more[j] # Line(t, v)
      <4>1. CASE j = L + 1
        BY <1>3, <3>3, <4>1
      <4>2. CASE j \in 1..L
        BY <1>3, <3>2, <3>4, <4>2
      <4> QED BY <1>13, <4>1, <4>2
    <3> QED BY <1>3, <1>13, <3>1, <3>2, <3>4
  <2> QED BY <2>1, <2>2
<1>23. ASSUME NEW t \in R, NEW u \in W, NEW v \in W, NowValid(t, v)
       PROVE  /\ u < v => NowValid(t, u)
              /\ NowValid(t, u) /\ NowLine(t, u) = NowLine(t, v) => u = v
  <2>1. CASE t # s
    BY <1>6, <1>10, <1>23, <2>1
  <2>2. CASE t = s /\ v = w
    BY <1>6, <1>20, <1>21, <2>2
  <2>3. CASE t = s /\ v # w
    <3>1. Valid(s, v) /\ NowLine(s, v) = Line(s, v)
      BY <1>6, <1>13, <1>23, <2>3
    <3>2. u < v => NowValid(s, u)
      <4>1. CASE u = w
        BY <1>6, <4>1
      <4>2. CASE u # w
        BY <1>6, <1>10, <1>13, <3>1, <4>2
      <4> QED BY <4>1, <4>2
    <3>3. NowValid(s, u) /\ NowLine(s, u) = NowLine(s, v) => u = v
      <4>1. CASE u = w
        BY <1>6, <1>20, <2>3, <3>1, <4>1
      <4>2. CASE u # w
        BY <1>6, <1>10, <1>13, <3>1, <4>2
      <4> QED BY <4>1, <4>2
    <3> QED BY <2>3, <3>2, <3>3
  <2> QED BY <2>1, <2>2, <2>3
<1>24. ASSUME NEW t \in R, NEW i \in 1..L + 1, Home(more[i]) = t
       PROVE  \/ \E v \in W : NowValid(t, v) /\ NowLine(t, v) = more[i]
              \/ \A v \in W : NowValid(t, v) /\ NowAge(t, v) > i
  <2>1. CASE more[i] = a
    BY <1>6, <1>13, <1>14, <1>24, <2>1
  <2>2. CASE more[i] # a
    <3>1. i \in 1..L /\ more[i] = log[i] /\ Cache!SetOf(log[i]) = t
      BY <1>3, <1>13, <1>24, <2>2 DEF Home
    <3>2. CASE \A v \in W : Valid(t, v) /\ Age(t, v) > i
      <4>1. ASSUME NEW v \in W PROVE NowValid(t, v) /\ NowAge(t, v) > i
        <5>1. CASE t = s /\ v = w
          BY <1>6, <1>13, <3>1, <5>1
        <5>2. CASE t # s \/ v # w
          BY <1>6, <3>2, <5>2
        <5> QED BY <5>1, <5>2
      <4> QED BY <4>1
    <3>3. ASSUME NEW v \in W, Valid(t, v), Line(t, v) = log[i]
          PROVE  \/ \E x \in W : NowValid(t, x) /\ NowLine(t, x) = more[i]
                 \/ \A x \in W : NowValid(t, x) /\ NowAge(t, x) > i
      <4>1. CASE t # s \/ v # w
        BY <1>6, <3>1, <3>3, <4>1
      (* The line of the victim was used last when its age says. *)
      <4>2. CASE t = s /\ v = w
        <5>1. full
          BY <1>8, <2>2, <3>1, <3>3, <4>2
        <5>2. Age(s, w) \in 1..L /\ ~(i > Age(s, w))
          BY <1>9, <1>13, <3>1, <3>3, <4>2
        <5>3. ASSUME NEW x \in W, x # w
              PROVE  Valid(s, x) /\ Age(s, x) > i
          <6>1. Valid(s, x) /\ Age(s, w) <= Age(s, x)
            BY <1>8, <5>1
          <6>2. Line(s, x) # Line(s, w)
            BY <1>10, <1>13, <3>3, <4>2, <5>3, <6>1
          <6>3. Age(s, x) # Age(s, w)
            BY <1>9, <1>13, <3>3, <4>2, <6>1, <6>2
          <6>4. Age(s, x) \in Nat
            BY <1>7
          <6> QED BY <3>1, <5>2, <6>1, <6>3, <6>4
        <5>4. ASSUME NEW x \in W PROVE NowValid(s, x) /\ NowAge(s, x) > i
          <6>1. CASE x = w
            BY <1>6, <1>13, <3>1, <6>1
          <6>2. CASE x # w
            BY <1>6, <1>13, <5>3, <6>2
          <6> QED BY <6>1, <6>2
        <5> QED BY <4>2, <5>4
      <4> QED BY <4>1, <4>2
    <3> QED BY <1>11, <3>1, <3>2, <3>3
  <2> QED BY <2>1, <2>2
<1>25. Lru(d, more)
  <2>1. d \in CacheType /\ more \in Seq(Nat) /\ d.tick = Len(more)
    BY <1>2, <1>3
  <2>2. \A t \in R : \A v \in W :
            d.way[t][v].valid =>
                /\ Cache!SetOf(d.way[t][v].line) = t
                /\ d.way[t][v].age \in 1..Len(more)
                /\ more[d.way[t][v].age] = d.way[t][v].line
                /\ \A j \in 1..Len(more) :
                       j > d.way[t][v].age => more[j] # d.way[t][v].line
    BY <1>3, <1>12, <1>22 DEF NowValid, NowLine, NowAge, Home, new
  <2>3. \A t \in R : \A u, v \in W :
            d.way[t][v].valid => /\ u < v => d.way[t][u].valid
                                 /\ d.way[t][u].valid
                                    /\ d.way[t][u].line = d.way[t][v].line =>
                                           u = v
    <3>1. SUFFICES ASSUME NEW t \in R, NEW u \in W, NEW v \in W,
                          d.way[t][v].valid
                   PROVE  /\ u < v => d.way[t][u].valid
                          /\ d.way[t][u].valid
                             /\ d.way[t][u].line = d.way[t][v].line => u = v
      OBVIOUS
    <3>2. d.way[t][v].valid = TRUE /\ d.way[t][u].valid \in BOOLEAN
      BY <1>12, <3>1 DEF new
    <3>3. /\ u < v => d.way[t][u].valid = TRUE
          /\ d.way[t][u].valid = TRUE /\ d.way[t][u].line = d.way[t][v].line
             => u = v
      BY <1>23, <3>2 DEF NowValid, NowLine, new
    <3> QED BY <3>2, <3>3
  <2>4. ASSUME NEW t \in R, NEW i \in 1..Len(more), Cache!SetOf(more[i]) = t
        PROVE  \/ \E v \in W : d.way[t][v].valid /\ d.way[t][v].line = more[i]
               \/ \A v \in W : d.way[t][v].valid /\ d.way[t][v].age > i
    <3>1. \/ \E v \in W : NowValid(t, v) /\ NowLine(t, v) = more[i]
          \/ \A v \in W : NowValid(t, v) /\ NowAge(t, v) > i
      BY <1>3, <1>24, <2>4 DEF Home
    <3> QED BY <3>1 DEF NowValid, NowLine, NowAge, new
  <2> QED BY <2>1, <2>2, <2>3, <2>4 DEF Lru
<1> QED BY <1>25 DEF d, more

(* Such a cache holds the lines that were used last. *)
LEMMA LruIsRecent ==
    ASSUME Cache!CacheAssumption, NEW c, NEW log, Lru(c, log)
    PROVE  Cache!Contents(c) = Cache!Recent(log)
<1> DEFINE Valid(t, v) == c.way[t][v].valid
           Line(t, v) == c.way[t][v].line
           Age(t, v) == c.way[t][v].age
           L == Len(log)
           R == 0..Sets - 1
           W == 1..Ways
           Few(i) == Cardinality(Cache!Since(log, i)) <= Ways
<1>1. log \in Seq(Nat) /\ L \in Nat /\ DOMAIN log = 1..L
  BY DEF Lru
<1>2. \A t \in R : \A v \in W :
          Valid(t, v) => /\ Cache!SetOf(Line(t, v)) = t
                         /\ Age(t, v) \in 1..L /\ log[Age(t, v)] = Line(t, v)
                         /\ \A j \in 1..L : j > Age(t, v) => log[j] # Line(t, v)
  BY DEF Lru
<1>3. \A t \in R : \A u, v \in W :
          Valid(t, v) /\ Valid(t, u) /\ Line(t, u) = Line(t, v) => u = v
  BY DEF Lru
<1>4. \A t \in R : \A i \in 1..L :
          Cache!SetOf(log[i]) = t =>
              \/ \E v \in W : Valid(t, v) /\ Line(t, v) = log[i]
              \/ \A v \in W : Valid(t, v) /\ Age(t, v) > i
  BY DEF Lru
<1>5. \A i \in 1..L : Cache!SetOf(log[i]) \in R
  BY <1>1 DEF Cache!SetOf, Cache!CacheAssumption
<1>6. \A x : x \in Cache!Contents(c) <=>
                 \E t \in R : \E v \in W : Valid(t, v) /\ Line(t, v) = x
  BY ContentsAre
<1>7. \A x : x \in Cache!Recent(log) <=> \E i \in 1..L : Few(i) /\ log[i] = x
  <2> DEFINE K == {k \in DOMAIN log :
                       Cache!Cardinality(Cache!Since(log, k)) <= Ways}
  <2>1. \A i : i \in K <=> i \in 1..L /\ Few(i)
    BY <1>1, SameCardinality
  <2>2. Cache!Recent(log) = {log[i] : i \in K}
    BY DEF Cache!Recent
  <2> HIDE DEF Few, K
  <2> QED BY <2>1, <2>2
<1>8. \A i, x : x \in Cache!Since(log, i) <=>
                    \E j \in i..L : Cache!SetOf(log[j]) = Cache!SetOf(log[i])
                                    /\ log[j] = x
  BY DEF Cache!Since
<1>9. IsFiniteSet(W) /\ Cardinality(W) = Ways /\ Ways \in Nat
  BY FS_Interval DEF Cache!CacheAssumption
<1> HIDE DEF Valid, Line, Age, Few
(* What was used since a held line is held, too. *)
<1>10. ASSUME NEW t \in R, NEW v \in W, Valid(t, v) PROVE Few(Age(t, v))
  <2> DEFINE i == Age(t, v)
             T == Cache!Since(log, i)
             f == [x \in T |-> CHOOSE u \in W : Valid(t, u) /\ Line(t, u) = x]
  <2>1. i \in 1..L /\ Cache!SetOf(log[i]) = t
    BY <1>2, <1>10
  <2>2. ASSUME NEW x \in T PROVE \E u \in W : Valid(t, u) /\ Line(t, u) = x
    <3>1. PICK j \in i..L : Cache!SetOf(log[j]) = t /\ log[j] = x
      BY <1>8, <2>1
    <3>2. j \in 1..L /\ ~(Age(t, v) > j)
      BY <1>1, <2>1, <3>1
    <3> QED BY <1>4, <1>10, <3>1, <3>2
  <2>3. \A x \in T : f[x] \in W /\ Line(t, f[x]) = x
    BY <2>2
  <2>4. f \in Injection(T, W)
    BY <2>3 DEF Injection, IsInjective
  <2>5. Cardinality(T) <= Cardinality(W)
    BY <1>9, <2>4, FS_Injection
  <2> QED BY <1>9, <2>5 DEF Few
(* Since an access of a line that is not held any more, Ways others were   *)
(* used.                                                                   *)
<1>11. ASSUME NEW i \in 1..L, ~\E v \in W : /\ Valid(Cache!SetOf(log[i]), v)
                                            /\ Line(Cache!SetOf(log[i]), v) =
                                                   log[i]
       PROVE  ~Few(i)
  <2> DEFINE t == Cache!SetOf(log[i])
             T == Cache!Since(log, i)
             V == T \ {log[i]}
             f == [v \in W |-> Line(t, v)]
  <2>1. t \in R /\ \A v \in W : Valid(t, v) /\ Age(t, v) > i
    BY <1>4, <1>5, <1>11
  <2>2. log[i] \in T
    BY <1>1, <1>8
  <2>3. ASSUME NEW v \in W PROVE Line(t, v) \in V
    <3>1. Age(t, v) \in i..L /\ Cache!SetOf(log[Age(t, v)]) = t
          /\ log[Age(t, v)] = Line(t, v)
      BY <1>1, <1>2, <2>1
    <3> QED BY <1>8, <1>11, <2>1, <3>1
  <2>4. f \in Injection(W, V)
    <3>1. f \in [W -> V]
      BY <2>3
    <3>2. \A u, v \in W : f[u] = f[v] => u = v
      BY <1>3, <2>1
    <3> QED BY <3>1, <3>2 DEF Injection, IsInjective
  <2>5. IsFiniteSet(T)
    <3> DEFINE g == [j \in i..L |-> log[j]]
               G == {g[j] : j \in i..L}
    <3>1. IsFiniteSet(i..L)
      BY <1>1, FS_Interval
    <3>2. g \in Surjection(i..L, G)
      BY DEF Surjection
    <3>3. IsFiniteSet(G)
      BY <3>1, <3>2, FS_Surjection
    <3>4. T \in SUBSET G
      BY <1>8
    <3> QED BY <3>3, <3>4, FS_Subset
  <2>6. IsFiniteSet(V) /\ Cardinality(V) = Cardinality(T) - 1
        /\ Cardinality(T) \in Nat
    BY <2>2, <2>5, FS_RemoveElement, FS_CardinalityType
  <2>7. Cardinality(W) <= Cardinality(V)
    BY <2>4, <2>6, FS_Injection
  <2> QED BY <1>9, <2>6, <2>7 DEF Few
<1>12. \A x : x \in Cache!Contents(c) => x \in Cache!Recent(log)
  BY <1>2, <1>6, <1>7, <1>10
<1>13. \A x : x \in Cache!Recent(log) => x \in Cache!Contents(c)
  BY <1>5, <1>6, <1>7, <1>11
<1> QED BY <1>12, <1>13

(* Later the cache still has its form, and the ticks number the accesses. *)
LruTill(c, log) ==
    /\ c \in CacheType /\ log \in Seq(Nat) /\ c.tick = Len(log)
    /\ Len(log) < AgeSpan => Lru(c, log)

LEMMA LruTillStarts ==
    ASSUME Cache!CacheAssumption
    PROVE  LruTill(Cache!EmptyCache, <<>>)
BY LruStarts DEF Lru, LruTill

LEMMA LruGoesOn ==
    ASSUME Cache!CacheAssumption, NEW c, NEW log, LruTill(c, log), NEW a \in Nat
    PROVE  LruTill(Cache!Access(c, a), Append(log, a))
<1>1. c \in CacheType /\ log \in Seq(Nat) /\ c.tick = Len(log)
  BY DEF LruTill
<1>2. Append(log, a) \in Seq(Nat) /\ Len(Append(log, a)) = Len(log) + 1
      /\ Len(log) \in Nat
  BY <1>1
<1>3. Cache!Access(c, a) \in CacheType /\ Cache!Access(c, a).tick = c.tick + 1
  BY <1>1, AccessIs
<1>4. ASSUME Len(log) + 1 < AgeSpan
      PROVE  Lru(Cache!Access(c, a), Append(log, a))
  <2>1. Lru(c, log)
    BY <1>2, <1>4 DEF LruTill, Cache!CacheAssumption
  <2> QED BY <1>4, <2>1, LruAccess
<1> QED BY <1>1, <1>2, <1>3, <1>4 DEF LruTill

(* What the plugin counts. *)
Counters ==
    [instructions : Nat, i_misses : Nat, d_accesses : Nat, d_lines : Nat,
     d_misses : Nat, stores : Nat, rec_i_accesses : Nat, rec_i_misses : Nat,
     rec_d_accesses : Nat, rec_d_lines : Nat, rec_d_misses : Nat,
     rec_tb_execs : Nat, rec_unique_lines : Nat]

CodeCounted(k) ==
    /\ k.i_misses <= k.instructions /\ k.rec_i_misses <= k.rec_i_accesses
    /\ k.rec_i_accesses <= k.instructions
DataCounted(k) ==
    /\ k.rec_d_misses <= k.rec_d_lines /\ k.rec_d_lines <= k.d_lines
    /\ k.d_accesses <= k.d_lines /\ k.d_misses <= k.d_lines

(* The part of the state an instruction changes: what the cache holds was
   fetched, and every line that was fetched has missed at least once. *)
CodeOK(c, k, seen, fetched) ==
    /\ c \in CacheType /\ Shelved(c) /\ Cache!Contents(c) \subseteq fetched
    /\ k \in Counters /\ CodeCounted(k) /\ DataCounted(k)
    /\ IsFiniteSet(seen) /\ k.rec_unique_lines = Cardinality(seen)
    /\ IsFiniteSet(fetched) /\ Cardinality(fetched) <= k.i_misses
StepOK(m) == CodeOK(m.icache, m.n, m.lines, m.ilog)

(* One instruction keeps it. *)
LEMMA InstructionKeeps ==
    ASSUME Cache!CacheAssumption, NEW m, NEW a \in Nat, StepOK(m)
    PROVE  StepOK(Cache!Instruction(m, a))
<1> DEFINE r == Cache!InRec(m.rec, a)
           miss == ~Cache!Hit(m.icache, a)
           new == Cache!Fresh(m, r, a)
           x == Cache!Instruction(m, a)
           k == m.n
<1>1. SUFFICES ASSUME Cache!Selected(m.rec, a) PROVE StepOK(x)
  BY DEF Cache!Instruction
<1>2. /\ x.icache = Cache!Access(m.icache, a)
      /\ x.n = [k EXCEPT !.instructions = @ + 1,
                         !.i_misses = @ + Cache!Bit(miss),
                         !.rec_i_accesses = @ + Cache!Bit(r),
                         !.rec_i_misses = @ + Cache!Bit(r /\ miss),
                         !.rec_unique_lines = @ + Cache!Bit(new)]
      /\ x.lines = IF r THEN m.lines \cup {a} ELSE m.lines
      /\ x.ilog = m.ilog \cup {a}
  BY <1>1 DEF Cache!Instruction
<1>3. /\ m.icache \in CacheType /\ Shelved(m.icache)
      /\ Cache!Contents(m.icache) \subseteq m.ilog
      /\ k \in Counters /\ CodeCounted(k) /\ DataCounted(k)
      /\ IsFiniteSet(m.lines) /\ k.rec_unique_lines = Cardinality(m.lines)
      /\ IsFiniteSet(m.ilog) /\ Cardinality(m.ilog) <= k.i_misses
  BY DEF StepOK, CodeOK
<1>4. new <=> r /\ a \notin m.lines
  BY DEF Cache!Fresh
<1> DEFINE b1 == Cache!Bit(miss)
           b2 == Cache!Bit(r)
           b3 == Cache!Bit(r /\ miss)
           b4 == Cache!Bit(new)
<1>5. /\ b1 = IF miss THEN 1 ELSE 0
      /\ b2 = IF r THEN 1 ELSE 0
      /\ b3 = IF r /\ miss THEN 1 ELSE 0
      /\ b4 = IF new THEN 1 ELSE 0
  BY DEF Cache!Bit
<1>6. /\ x.icache \in CacheType /\ Shelved(x.icache)
      /\ Cache!Contents(x.icache) \subseteq x.ilog
      /\ ~miss => a \in m.ilog
  BY <1>2, <1>3, FetchBringsOne
<1> HIDE DEF r, miss, new, x, k, b1, b2, b3, b4
<1>7. /\ b1 \in {0, 1} /\ b2 \in {0, 1} /\ b3 \in {0, 1} /\ b4 \in {0, 1}
      /\ b3 <= b1 /\ b3 <= b2
  BY <1>5
<1> DEFINE p0 == k.instructions + 1
           p1 == k.i_misses + b1
           p2 == k.rec_i_accesses + b2
           p3 == k.rec_i_misses + b3
           p4 == k.rec_unique_lines + b4
<1>8. x.n =
          [k EXCEPT !.instructions = p0, !.i_misses = p1, !.rec_i_accesses = p2,
                      !.rec_i_misses = p3, !.rec_unique_lines = p4]
  BY <1>2 DEF b1, b2, b3, b4
<1>9. p0 \in Nat /\ p1 \in Nat /\ p2 \in Nat /\ p3 \in Nat /\ p4 \in Nat
  BY <1>3, <1>7 DEF Counters
<1>10. p1 <= p0 /\ p3 <= p2 /\ p2 <= p0
  BY <1>3, <1>7 DEF Counters, CodeCounted
<1>11. IsFiniteSet(x.lines) /\ p4 = Cardinality(x.lines)
  <2>1. CASE r
    <3>1. x.lines = m.lines \cup {a}
      BY <1>2, <2>1
    <3>2. /\ IsFiniteSet(m.lines \cup {a}) /\ Cardinality(m.lines) \in Nat
          /\ Cardinality(m.lines \cup {a})
                 = IF a \in m.lines THEN Cardinality(m.lines)
                                    ELSE Cardinality(m.lines) + 1
      BY <1>3, FS_AddElement, FS_CardinalityType
    <3> QED BY <1>3, <1>4, <1>5, <2>1, <3>1, <3>2
  <2>2. CASE ~r
    BY <1>2, <1>3, <1>4, <1>5, <2>2 DEF Counters
  <2> QED BY <2>1, <2>2
<1>12. IsFiniteSet(x.ilog) /\ Cardinality(x.ilog) <= p1
  <2>1. /\ IsFiniteSet(m.ilog \cup {a}) /\ Cardinality(m.ilog) \in Nat
        /\ Cardinality(m.ilog \cup {a})
               = IF a \in m.ilog THEN Cardinality(m.ilog)
                 ELSE Cardinality(m.ilog) + 1
    BY <1>3, FS_AddElement, FS_CardinalityType
  <2>2. k.i_misses \in Nat
    BY <1>3 DEF Counters
  <2>3. x.ilog = m.ilog \cup {a}
    BY <1>2
  <2> QED BY <1>3, <1>5, <1>6, <2>1, <2>2, <2>3
<1> HIDE DEF p0, p1, p2, p3, p4
<1>13. x.n \in Counters
  <2>1. ASSUME NEW y \in Counters, NEW v \in Nat
        PROVE  /\ [y EXCEPT !.instructions = v] \in Counters
               /\ [y EXCEPT !.i_misses = v] \in Counters
               /\ [y EXCEPT !.rec_i_accesses = v] \in Counters
               /\ [y EXCEPT !.rec_i_misses = v] \in Counters
               /\ [y EXCEPT !.rec_unique_lines = v] \in Counters
    BY DEF Counters
  <2>2. k \in Counters
    BY <1>3
  <2>3. [[k EXCEPT !.instructions = p0] EXCEPT !.i_misses = p1] \in Counters
    BY <1>9, <2>1, <2>2
  <2>4. [[[k EXCEPT !.instructions = p0] EXCEPT !.i_misses = p1] EXCEPT
             !.rec_i_accesses = p2] \in Counters
    BY <1>9, <2>1, <2>3
  <2>5. [[[[k EXCEPT !.instructions = p0] EXCEPT !.i_misses = p1] EXCEPT
              !.rec_i_accesses = p2] EXCEPT !.rec_i_misses = p3] \in Counters
    BY <1>9, <2>1, <2>4
  <2>6. [[[[[k EXCEPT !.instructions = p0] EXCEPT !.i_misses = p1] EXCEPT
               !.rec_i_accesses = p2] EXCEPT !.rec_i_misses = p3] EXCEPT
             !.rec_unique_lines = p4] \in Counters
    BY <1>9, <2>1, <2>5
  <2> QED BY <1>8, <2>6
<1>14. /\ x.n.instructions = p0 /\ x.n.i_misses = p1 /\ x.n.rec_i_accesses = p2
       /\ x.n.rec_i_misses = p3 /\ x.n.rec_unique_lines = p4
  BY <1>3, <1>8 DEF Counters
<1>15. /\ x.n.d_accesses = k.d_accesses /\ x.n.d_lines = k.d_lines
       /\ x.n.d_misses = k.d_misses /\ x.n.rec_d_lines = k.rec_d_lines
       /\ x.n.rec_d_misses = k.rec_d_misses
  BY <1>3, <1>8 DEF Counters
<1>16. CodeCounted(x.n) /\ DataCounted(x.n)
  BY <1>3, <1>10, <1>14, <1>15 DEF CodeCounted, DataCounted
<1> QED BY <1>6, <1>11, <1>12, <1>13, <1>14, <1>16 DEF StepOK, CodeOK

(* So does a whole block. *)
LEMMA RunKeeps ==
    ASSUME Cache!CacheAssumption, NEW b \in Seq(Nat), NEW m, StepOK(m)
    PROVE  StepOK(Cache!Run(b, m))
<1> DEFINE Def(g, l) ==
               g = [i \in 0..l |-> IF i = 0 THEN m
                                   ELSE Cache!Instruction(g[i - 1], b[i])]
           T == {l \in Nat : \E g : Def(g, l)}
           after == CHOOSE g : Def(g, Len(b))
<1>1. 0 \in T
  <2>1. Def([i \in 0..0 |-> m], 0)
    OBVIOUS
  <2> QED BY <2>1
<1>2. ASSUME NEW l \in Nat, l \in T PROVE l + 1 \in T
  <2>1. PICK g : Def(g, l)
    BY <1>2
  <2> DEFINE h == [i \in 0..(l + 1) |->
                      IF i <= l THEN g[i]
                      ELSE Cache!Instruction(g[l], b[l + 1])]
  <2>2. ASSUME NEW i \in 0..(l + 1)
        PROVE  h[i] = IF i = 0 THEN m ELSE Cache!Instruction(h[i - 1], b[i])
    <3>1. CASE i = 0
      BY <2>1, <3>1
    <3>2. CASE i \in 1..l
      BY <2>1, <3>2
    <3>3. CASE i = l + 1
      BY <3>3
    <3> QED BY <3>1, <3>2, <3>3
  <2>3. Def(h, l + 1)
    BY <2>2
  <2> HIDE DEF Def, h
  <2> QED BY <2>3
<1>3. Len(b) \in Nat /\ \E g : Def(g, Len(b))
  <2> HIDE DEF Def
  <2>1. \A l \in Nat : l \in T
    <3> HIDE DEF T
    <3> QED BY <1>1, <1>2, AllNumbers
  <2> QED BY <2>1
<1>4. Def(after, Len(b))
  <2> HIDE DEF Def
  <2> QED BY <1>3
<1>5. Cache!Run(b, m) = after[Len(b)]
  BY Zenon DEF Cache!Run
<1> HIDE DEF after
<1> DEFINE U == {i \in Nat : i <= Len(b) => StepOK(after[i])}
<1>6. 0 \in U
  BY <1>3, <1>4
<1>7. ASSUME NEW i \in Nat, i \in U PROVE i + 1 \in U
  <2>1. SUFFICES ASSUME i + 1 <= Len(b) PROVE StepOK(after[i + 1])
    OBVIOUS
  <2>2. after[i + 1] = Cache!Instruction(after[i], b[i + 1])
    BY <1>3, <1>4, <2>1
  <2>3. StepOK(after[i]) /\ b[i + 1] \in Nat
    BY <1>3, <1>7, <2>1
  <2> QED BY <2>2, <2>3, InstructionKeeps
<1>8. Len(b) \in U
  <2> HIDE DEF U
  <2> QED BY <1>3, <1>6, <1>7, AllNumbers
<1> QED BY <1>5, <1>8

(* The inductive invariant of the cache model. *)
CacheInv ==
    /\ LruTill(dcache, dlog)
    /\ CodeOK(icache, n, rec_lines, ilog)
    /\ \A t \in blocks : t.pc \in Seq(Nat)
    /\ Cache!Idle => n = Cache!Zero

(* The counters, the instruction cache and the history at their start. *)
LEMMA NothingMeasured ==
    ASSUME Cache!CacheAssumption
    PROVE  CodeOK(Cache!EmptyCache, Cache!Zero, {}, {})
<1>1. Cache!EmptyCache \in CacheType /\ Shelved(Cache!EmptyCache)
  BY DEF Cache!CacheAssumption, Cache!EmptyCache, Cache!EmptyWay, CacheType,
         WayType,
         Shelved
<1>2. Cache!Contents(Cache!EmptyCache) = {}
  <2>1. \A s \in 0..Sets - 1 : \A w \in 1..Ways :
            ~Cache!EmptyCache.way[s][w].valid
    BY DEF Cache!EmptyCache, Cache!EmptyWay
  <2> QED BY <2>1, ContentsAre
<1>3. Cache!Zero \in Counters /\ CodeCounted(Cache!Zero)
      /\ DataCounted(Cache!Zero)
      /\ Cache!Zero.rec_unique_lines = 0 /\ Cache!Zero.i_misses = 0
  BY DEF Cache!Zero, Counters, CodeCounted, DataCounted
<1> QED BY <1>1, <1>2, <1>3, FS_EmptySet DEF CodeOK

(* A load or store counts its lines in the data cache. *)
LEMMA AccessCounts ==
    ASSUME NEW k \in Counters, CodeCounted(k), DataCounted(k), NEW pc,
                                                           NEW touched,
           Len(touched) \in {1, 2}, NEW store
    PROVE  LET x == Cache!Counted(k, pc, touched, store)
           IN  /\ x \in Counters /\ CodeCounted(x) /\ DataCounted(x)
               /\ x.rec_unique_lines = k.rec_unique_lines
               /\ x.i_misses = k.i_misses
<1> DEFINE one == Cache!Hit(dcache, touched[1])
           two == \/ Len(touched) = 1
                  \/ Cache!Hit(Cache!Access(dcache, touched[1]), touched[2])
           missed == Cache!Bit(~one) + Cache!Bit(~two)
           r == Cache!Bit(Cache!IsRec(pc))
           p0 == k.d_accesses + 1
           p1 == k.stores + Cache!Bit(store)
           p2 == k.d_lines + Len(touched)
           p3 == k.d_misses + missed
           p4 == k.rec_d_accesses + r
           p5 == k.rec_d_lines + r * Len(touched)
           p6 == k.rec_d_misses + r * missed
           x == Cache!Counted(k, pc, touched, store)
<1>1. x =
          [k EXCEPT !.d_accesses = p0, !.stores = p1, !.d_lines =
              p2, !.d_misses = p3,
                    !.rec_d_accesses = p4, !.rec_d_lines = p5, !.rec_d_misses =
                        p6]
  BY DEF Cache!Counted
<1> DEFINE l == Len(touched)
           s == Cache!Bit(store)
<1>2. l \in {1, 2} /\ missed \in 0..l /\ r \in {0, 1} /\ s \in {0, 1}
  BY DEF Cache!Bit
<1> HIDE DEF missed, r, l, s
<1>3. r * l \in Nat /\ r * missed \in Nat /\ r * missed <= r * l /\ r * l <= l
  <2>1. CASE r = 0
    BY <1>2, <2>1
  <2>2. CASE r = 1
    BY <1>2, <2>2
  <2> QED BY <1>2, <2>1, <2>2
<1>4. /\ p0 = k.d_accesses + 1 /\ p1 = k.stores + s /\ p2 = k.d_lines + l
      /\ p3 = k.d_misses + missed /\ p4 = k.rec_d_accesses + r
      /\ p5 = k.rec_d_lines + r * l /\ p6 = k.rec_d_misses + r * missed
  BY DEF l, s
<1>5. /\ k.d_accesses \in Nat /\ k.stores \in Nat /\ k.d_lines \in Nat
      /\ k.d_misses \in Nat /\ k.rec_d_accesses \in Nat /\ k.rec_d_lines \in Nat
      /\ k.rec_d_misses \in Nat
  BY DEF Counters
<1> HIDE DEF p0, p1, p2, p3, p4, p5, p6
<1>6. p0 \in Nat /\ p1 \in Nat /\ p2 \in Nat /\ p3 \in Nat /\ p4 \in Nat
      /\ p5 \in Nat /\ p6 \in Nat
  BY <1>2, <1>3, <1>4, <1>5
<1>7. p6 <= p5 /\ p5 <= p2 /\ p0 <= p2 /\ p3 <= p2
  <2>1. /\ k.rec_d_misses <= k.rec_d_lines /\ k.rec_d_lines <= k.d_lines
        /\ k.d_accesses <= k.d_lines /\ k.d_misses <= k.d_lines
    BY DEF DataCounted
  <2> QED BY <1>2, <1>3, <1>4, <1>5, <2>1
<1> HIDE DEF x
<1>8. x \in Counters
  BY <1>1, <1>6 DEF Counters
<1>9. /\ x.d_accesses = p0 /\ x.d_lines = p2 /\ x.d_misses = p3
      /\ x.rec_d_lines = p5 /\ x.rec_d_misses = p6
  BY <1>1 DEF Counters
<1>10. /\ x.instructions = k.instructions /\ x.i_misses = k.i_misses
       /\ x.rec_i_accesses = k.rec_i_accesses /\ x.rec_i_misses = k.rec_i_misses
       /\ x.rec_unique_lines = k.rec_unique_lines
  BY <1>1 DEF Counters
<1>11. CodeCounted(x) /\ DataCounted(x)
  BY <1>7, <1>9, <1>10 DEF CodeCounted, DataCounted
<1> QED BY <1>8, <1>10, <1>11 DEF x

(* Every callback of the plugin keeps the invariant. *)
LEMMA CacheInductive ==
    ASSUME Cache!CacheAssumption, CacheInv, [Cache!Next]_(Cache!vars)
    PROVE  CacheInv'
<1>1. ASSUME NEW b \in Blocks, Cache!Translate(b) PROVE CacheInv'
  <2>1. UNCHANGED <<phaseRec, active, icache, dcache, n, rec_lines, ilog, dlog>>
    BY <1>1 DEF Cache!Translate, Cache!config
  <2>2. b \in Seq(Nat)
    <3>1. b \in Seq(Cache!Address) /\ Cache!Address \subseteq Nat
      BY DEF Cache!CacheAssumption
    <3>2. b \in [1..Len(b) -> Cache!Address] /\ Len(b) \in Nat
      BY <3>1
    <3>3. b \in [1..Len(b) -> Nat]
      BY <3>1, <3>2
    <3> QED BY <3>2, <3>3
  <2>3. \A t \in blocks' : t \in blocks \/ t.pc = b
    BY <1>1 DEF Cache!Translate
  <2>4. (LruTill(dcache, dlog) /\ CodeOK(icache, n, rec_lines, ilog))'
    BY <2>1 DEF CacheInv
  <2>5. (Cache!Idle => n = Cache!Zero)'
    BY <2>1 DEF CacheInv, Cache!Idle
  <2>6. (\A t \in blocks : t.pc \in Seq(Nat))'
    BY <2>2, <2>3 DEF CacheInv
  <2> QED BY <2>4, <2>5, <2>6 DEF CacheInv
<1>2. ASSUME NEW t \in blocks, Cache!Execute(t) PROVE CacheInv'
  <2> DEFINE m0 == Cache!StartOfPhase(Cache!Idle)
             m == Cache!Run(t.pc, m0)
             seen == Cache!Bit(m.n.rec_i_accesses > m0.n.rec_i_accesses)
  <2>1. StepOK(m0)
    <3>1. CASE Cache!Idle
      <4>1. m0.icache = Cache!EmptyCache /\ m0.n = Cache!Zero /\ m0.lines = {}
            /\ m0.ilog = {}
        BY <3>1 DEF Cache!StartOfPhase
      <4> HIDE DEF m0
      <4> QED BY <4>1, NothingMeasured DEF StepOK
    <3>2. CASE ~Cache!Idle
      <4>1. m0.icache = icache /\ m0.n = n /\ m0.lines = rec_lines
            /\ m0.ilog = ilog
        BY <3>2 DEF Cache!StartOfPhase
      <4> HIDE DEF m0
      <4> QED BY <4>1 DEF StepOK, CacheInv
    <3> QED BY <3>1, <3>2
  <2>2. StepOK(m)
    <3> HIDE DEF m0
    <3> QED BY <2>1, RunKeeps DEF CacheInv
  <2>3. /\ icache' = m.icache /\ rec_lines' = m.lines /\ ilog' = m.ilog
        /\ n' = [m.n EXCEPT !.rec_tb_execs = @ + seen]
    BY <1>2 DEF Cache!Execute
  <2>4. seen \in Nat
    BY DEF Cache!Bit
  <2>5. CodeOK(icache, n, rec_lines, ilog)'
    <3> HIDE DEF m, seen
    <3>1. m.n \in Counters /\ CodeCounted(m.n) /\ DataCounted(m.n)
      BY <2>2 DEF StepOK, CodeOK
    <3>2. n' \in Counters /\ CodeCounted(n') /\ DataCounted(n')
          /\ n'.i_misses = m.n.i_misses
          /\ n'.rec_unique_lines = m.n.rec_unique_lines
      BY <2>3, <2>4, <3>1 DEF Counters, CodeCounted, DataCounted
    <3> QED BY <2>2, <2>3, <3>2 DEF StepOK, CodeOK
  <2>6. /\ dcache' = (IF Cache!Idle THEN Cache!EmptyCache ELSE dcache)
        /\ dlog' = (IF Cache!Idle THEN <<>> ELSE dlog)
        /\ blocks' = blocks /\ phaseRec' = phaseRec
        /\ active' = (active \/ phaseRec)
    BY <1>2 DEF Cache!Execute, Cache!config
  <2>7. LruTill(dcache, dlog)'
    <3>1. CASE Cache!Idle
      BY <2>6, <3>1, LruTillStarts
    <3>2. CASE ~Cache!Idle
      BY <2>6, <3>2 DEF CacheInv
    <3> QED BY <3>1, <3>2
  <2>8. ~(Cache!Idle')
    BY <2>6 DEF Cache!Idle
  <2> QED BY <2>5, <2>6, <2>7, <2>8 DEF CacheInv
<1>3. ASSUME NEW pc \in Cache!Address, NEW a \in Cache!Address,
             NEW crosses \in BOOLEAN, NEW store \in BOOLEAN,
             Cache!Memory(pc, a, crosses, store)
      PROVE  CacheInv'
  <2> DEFINE touched == Cache!Touched(a, crosses)
             drop == store /\ Cache!IsRec(a)
  <2>1. /\ ~Cache!Idle /\ (crosses => a + 1 \in Cache!Address)
        /\ n' = Cache!Counted(n, pc, touched, store)
        /\ dcache' = Cache!Accessed(dcache, touched)
        /\ dlog' = dlog \o touched
        /\ icache' = Cache!Patched(touched, store)
        /\ ilog' = (IF drop THEN ilog \ Cache!ToSet(touched) ELSE ilog)
        /\ UNCHANGED <<phaseRec, active, rec_lines, blocks>>
    BY <1>3 DEF Cache!Memory, Cache!config
  <2>2. a \in Nat /\ a + 1 \in Nat
    BY DEF Cache!CacheAssumption
  <2>3. touched = <<a>> \/ touched = <<a, a + 1>>
    BY DEF Cache!Touched
  <2> HIDE DEF touched, drop
  <2>4. LruTill(dcache, dlog)'
    <3>1. LruTill(dcache, dlog) /\ dlog \in Seq(Nat)
      BY DEF CacheInv, LruTill
    <3>2. CASE touched = <<a>>
      <4>1. dcache' = Cache!Access(dcache, a)
        BY <2>1, <3>2 DEF Cache!Accessed
      <4>2. dlog' = Append(dlog, a)
        BY <2>1, <2>2, <3>1, <3>2
      <4> QED BY <2>2, <3>1, <4>1, <4>2, LruGoesOn
    <3>3. CASE touched = <<a, a + 1>>
      <4>1. dcache' = Cache!Access(Cache!Access(dcache, a), a + 1)
        BY <2>1, <3>3 DEF Cache!Accessed
      <4>2. dlog' = Append(Append(dlog, a), a + 1)
        BY <2>1, <2>2, <3>1, <3>3
      <4>3. LruTill(Cache!Access(dcache, a), Append(dlog, a))
        BY <2>2, <3>1, LruGoesOn
      <4> QED BY <2>2, <4>1, <4>2, <4>3, LruGoesOn
    <3> QED BY <2>3, <3>2, <3>3
  <2>5. /\ icache' \in CacheType /\ Shelved(icache')
        /\ Cache!Contents(icache') \subseteq ilog'
    <3>1. icache \in CacheType /\ Shelved(icache)
          /\ Cache!Contents(icache) \subseteq ilog
      BY DEF CacheInv, CodeOK
    <3>2. touched[1] = a
      BY <2>3
    <3>3. CASE ~drop
      BY <2>1, <3>1, <3>2, <3>3 DEF Cache!Patched, drop
    <3>4. CASE drop
      <4>1. CASE touched = <<a>>
        <5>1. icache' = Cache!Invalidate(icache, a)
          BY <2>1, <3>2, <3>4, <4>1 DEF Cache!Patched, drop
        <5>2. Cache!ToSet(touched) = {a}
          BY <4>1 DEF Cache!ToSet
        <5> QED BY <2>1, <2>2, <3>1, <3>4, <5>1, <5>2, DropRemoves
      <4>2. CASE touched = <<a, a + 1>>
        <5> DEFINE one == Cache!Invalidate(icache, a)
        <5>1. icache' = Cache!Invalidate(one, a + 1)
          BY <2>1, <3>2, <3>4, <4>2 DEF Cache!Patched, drop
        <5>2. Cache!ToSet(touched) = {a, a + 1}
          BY <4>2 DEF Cache!ToSet
        <5>3. one \in CacheType /\ Shelved(one)
              /\ Cache!Contents(one) \subseteq Cache!Contents(icache) \ {a}
          BY <2>2, <3>1, DropRemoves
        <5> HIDE DEF one
        <5>4. /\ icache' \in CacheType /\ Shelved(icache')
              /\ Cache!Contents(icache') \subseteq Cache!Contents(one) \ {a + 1}
          BY <2>2, <5>1, <5>3, DropRemoves
        <5> QED BY <2>1, <3>1, <3>4, <5>2, <5>3, <5>4
      <4> QED BY <2>3, <4>1, <4>2
    <3> QED BY <3>3, <3>4
  <2>6. CodeOK(icache, n, rec_lines, ilog)'
    <3>1. n \in Counters /\ CodeCounted(n) /\ DataCounted(n)
          /\ n.rec_unique_lines = Cardinality(rec_lines)
          /\ IsFiniteSet(rec_lines)
          /\ IsFiniteSet(ilog) /\ Cardinality(ilog) <= n.i_misses
      BY DEF CacheInv, CodeOK
    <3>2. Len(touched) \in {1, 2}
      BY <2>3
    <3>3. n' \in Counters /\ CodeCounted(n') /\ DataCounted(n')
          /\ n'.rec_unique_lines = n.rec_unique_lines
          /\ n'.i_misses = n.i_misses
      BY <2>1, <3>1, <3>2, AccessCounts
    <3>4. ilog' \in SUBSET ilog
      BY <2>1
    <3>5. IsFiniteSet(ilog') /\ Cardinality(ilog') <= Cardinality(ilog)
          /\ Cardinality(ilog) \in Nat /\ Cardinality(ilog') \in Nat
      BY <3>1, <3>4, FS_Subset, FS_CardinalityType
    <3>6. n.i_misses \in Nat
      BY <3>1 DEF Counters
    <3>7. Cardinality(ilog') <= n'.i_misses
      BY <3>1, <3>3, <3>5, <3>6
    <3> QED BY <2>1, <2>5, <3>1, <3>3, <3>5, <3>7 DEF CodeOK
  <2>7. ~(Cache!Idle')
    BY <2>1 DEF Cache!Idle
  <2> QED BY <2>1, <2>4, <2>6, <2>7 DEF CacheInv
<1>4. CASE Cache!FrameMarker
  <2>1. UNCHANGED <<phaseRec, active, icache, dcache, n, rec_lines, blocks,
        ilog,
                    dlog>>
    BY <1>4 DEF Cache!FrameMarker, Cache!config
  <2> QED BY <2>1 DEF CacheInv, Cache!Idle
<1>5. CASE UNCHANGED Cache!vars
  <2>1. UNCHANGED <<phaseRec, active, icache, dcache, n, rec_lines, blocks,
        ilog,
                    dlog>>
    BY <1>5 DEF Cache!vars, Cache!config
  <2> QED BY <2>1 DEF CacheInv, Cache!Idle
<1> QED BY <1>1, <1>2, <1>3, <1>4, <1>5 DEF Cache!Next

(* The invariant holds when the plugin is loaded. *)
LEMMA CacheStarts ==
    ASSUME Cache!CacheAssumption, Cache!Init
    PROVE  CacheInv
BY NothingMeasured, LruTillStarts DEF Cache!Init, CacheInv

(* The invariant says that the plugin counts truly. *)
LEMMA CacheInvGives ==
    ASSUME Cache!CacheAssumption, CacheInv
    PROVE  Cache!DataCacheIsLru /\ Cache!NoStaleCode /\ Cache!CountersAgree
<1>1. Cache!DataCacheIsLru
  BY LruIsRecent
     DEF CacheInv, LruTill, Cache!DataCacheIsLru, Cache!ExactLru
<1>2. Cache!NoStaleCode
  BY DEF CacheInv, CodeOK, Cache!NoStaleCode
<1>3. Cache!CountersAgree
  BY SameCardinality
     DEF CacheInv, CodeOK, CodeCounted, DataCounted, Cache!CountersAgree
<1> QED BY <1>1, <1>2, <1>3

CachePart == part = "cache" => CacheInv

(* For every number of sets and ways, every width of the ages and every    *)
(* program: until the ages wrap the data cache of the plugin holds exactly *)
(* the lines that were used last; its instruction cache holds, then and    *)
(* later, nothing that was not fetched since it was patched, and the       *)
(* counters that its callbacks keep describe one set of events.            *)
THEOREM PluginCountsTruly == Spec => []CacheCountsTruly
<1>1. Init => CachePart
  BY DeviceAssumption, PartStarts, CacheStarts DEF CachePart
<1>2. CachePart /\ [Next]_vars => CachePart'
  <2> SUFFICES ASSUME CachePart, [Next]_vars, part' = "cache" PROVE CacheInv'
    BY DEF CachePart
  <2>1. CacheInv /\ [Cache!Next]_(Cache!vars)
    BY PartSteps DEF CachePart
  <2> QED BY <2>1, DeviceAssumption, CacheInductive
<1>3. CachePart => CacheCountsTruly
  BY DeviceAssumption, CacheInvGives DEF CachePart, CacheCountsTruly
<1> QED BY <1>1, <1>2, <1>3, PTL DEF Spec

----------------------------------------------------------------------------
(* The console.                                                            *)

LineType == [id : Nat, text : Seq(Nat)]

(* The slot of the i-th retained line.                                     *)
SlotAt(at, i) == IF at + i < Scrollback THEN at + i ELSE at + i - Scrollback

ConsoleType ==
    /\ start \in 0..Scrollback - 1 /\ added \in Nat /\ offset \in Nat
    /\ got \in Nat /\ partial \in Seq(Nat)
    /\ count = IF added < Scrollback THEN added ELSE Scrollback
    /\ ring \in [0..Scrollback - 1 -> LineType]

(* The retained lines are the last ones, in order.                         *)
IdsOK == \A i \in 0..count - 1 : Text!LineAt(i).id = added - count + i + 1

(* f[i] characters came before the i-th retained line.                     *)
Story(f) ==
    /\ f \in [0..count -> Nat]
    /\ f[count] + Len(partial) = got
    /\ \A j \in 1..Len(partial) : partial[j] = f[count] + j
    /\ \A i \in 0..count - 1 :
           /\ Len(Text!LineAt(i).text) = f[i + 1] - f[i]
           /\ \A j \in 1..Len(Text!LineAt(i).text) :
                  Text!LineAt(i).text[j] = f[i] + j
    /\ added <= Scrollback => f[0] = 0

ConsoleInv == ConsoleType /\ IdsOK /\ \E f : Story(f)

(* The ring wraps once at most.                                            *)
LEMMA SlotIs ==
    ASSUME Text!ConsoleAssumption, NEW at \in 0..Scrollback - 1,
           NEW i \in 0..Scrollback
    PROVE  /\ (at + i) % Scrollback = SlotAt(at, i)
           /\ SlotAt(at, i) \in 0..Scrollback - 1
<1> DEFINE u == Scrollback
           x == at + i
<1>1. u \in Nat \ {0} /\ x \in Int /\ x \in 0..(2 * u) - 1
  BY DEF Text!ConsoleAssumption
<1>2. /\ x \in 0..u - 1 => x % u = x
      /\ x \in u..(2 * u) - 1 => x % u = x - u
  <2> HIDE DEF u, x
  <2> QED BY <1>1
<1> HIDE DEF u
<1>3. x % u = IF x < u THEN x ELSE x - u
  <2> HIDE DEF x
  <2> QED BY <1>1, <1>2
<1> QED BY <1>1, <1>3 DEF SlotAt, u

(* Where a retained line is.                                               *)
LEMMA LineIsAt ==
    ASSUME Text!ConsoleAssumption, ConsoleType, NEW i \in 0..Scrollback - 1
    PROVE  /\ Text!LineAt(i) = ring[SlotAt(start, i)]
           /\ SlotAt(start, i) \in 0..Scrollback - 1
<1>1. start \in 0..Scrollback - 1 /\ i \in 0..Scrollback
  BY DEF Text!ConsoleAssumption, ConsoleType
<1> QED BY <1>1, SlotIs DEF Text!LineAt

(* A new line is the last retained one, and the others stay as they are,   *)
(* except that the oldest leaves a full ring.                              *)
LEMMA LineJoins ==
    ASSUME Text!ConsoleAssumption, ConsoleType, NEW text \in Seq(Nat),
           Text!AddLine(text), got' \in Nat, partial' \in Seq(Nat)
    PROVE  LET out == IF count = Scrollback THEN 1 ELSE 0
           IN  /\ ConsoleType' /\ added' = added + 1
               /\ count' = count + 1 - out /\ count \in 0..Scrollback
               /\ Text!LineAt(count - 1)' = [id |-> added + 1, text |-> text]
               /\ \A i \in 0..count' - 2 :
                      Text!LineAt(i)' = Text!LineAt(i + out)
               /\ offset' =
                      Text!ClampView(IF offset # 0 THEN offset + 1 ELSE offset,
                                           count')
<1> DEFINE out == IF count = Scrollback THEN 1 ELSE 0
           S == Scrollback
           here == IF count = S THEN start ELSE SlotAt(start, count)
           new == [id |-> added + 1, text |-> text]
<1>1. /\ S \in Nat \ {0} /\ start \in 0..S - 1 /\ count \in 0..S
      /\ added \in Nat
      /\ offset \in Nat /\ Rows \in Nat
      /\ count = IF added < S THEN added ELSE S
      /\ ring \in [0..S - 1 -> LineType]
  BY DEF Text!ConsoleAssumption, ConsoleType
<1>2. /\ start % S = start
      /\ count < S => (start + count) % S = SlotAt(start, count)
      /\ (start + 1) % S = SlotAt(start, 1)
  <2>1. start + 0 = start /\ 0 \in 0..S /\ 1 \in 0..S /\ count \in 0..S
        /\ SlotAt(start, 0) = start
    BY <1>1 DEF SlotAt
  <2> QED BY <1>1, <2>1, SlotIs
<1>3. /\ ring' = [ring EXCEPT ![here] = new]
      /\ start' = IF count = S THEN SlotAt(start, 1) ELSE start
      /\ count' = count + 1 - out
      /\ added' = added + 1
      /\ offset' =
             Text!ClampView(IF offset # 0 THEN offset + 1 ELSE offset, count')
  <2>1. count >= S <=> count = S
    BY <1>1
  <2>2. count # S => count < S
    BY <1>1
  <2>3. /\ ring' =
               [ring EXCEPT ![(start + (IF count >= S THEN 0 ELSE count)) % S] =
                   new]
        /\ start' = IF count >= S THEN (start + 1) % S ELSE start
        /\ count' = IF count >= S THEN count ELSE count + 1
        /\ added' = added + 1
        /\ offset' =
               Text!ClampView(IF offset # 0 THEN offset + 1 ELSE offset, count')
    BY DEF Text!AddLine
  <2>4. (start + (IF count >= S THEN 0 ELSE count)) % S = here
    <3>1. CASE count = S
      <4>1. start + 0 = start
        BY <1>1
      <4> QED BY <1>2, <2>1, <3>1, <4>1
    <3>2. CASE count # S
      BY <1>2, <2>1, <2>2, <3>2
    <3> QED BY <3>1, <3>2
  <2>5. count' = count + 1 - out
    BY <1>1, <2>1, <2>3
  <2>6. start' = IF count = S THEN SlotAt(start, 1) ELSE start
    BY <1>2, <2>1, <2>3
  <2> HIDE DEF here, new, out
  <2> QED BY <2>3, <2>4, <2>5, <2>6
<1>4. here \in 0..S - 1 /\ start' \in 0..S - 1
  BY <1>1, <1>3 DEF SlotAt
<1>5. new \in LineType
  BY <1>1 DEF LineType
<1> HIDE DEF new
<1>6. ConsoleType'
  <2>1. ring' \in [0..S - 1 -> LineType]
    BY <1>1, <1>3, <1>4, <1>5
  <2>2. count' = IF added' < S THEN added' ELSE S
    BY <1>1, <1>3
  <2>3. offset' \in Nat
    BY <1>1, <1>3 DEF Text!ClampView, Text!MaxViewOffset, Text!VisibleLines
  <2> QED BY <1>1, <1>3, <1>4, <2>1, <2>2, <2>3 DEF ConsoleType
<1>7. \A i \in 0..S - 1 : Text!LineAt(i)' = ring'[SlotAt(start', i)]
                          /\ SlotAt(start', i) \in 0..S - 1
  <2>1. ASSUME NEW i \in 0..S - 1
        PROVE  Text!LineAt(i)' = ring'[SlotAt(start', i)]
               /\ SlotAt(start', i) \in 0..S - 1
    <3>2. start' \in 0..S - 1 /\ i \in 0..S
      BY <1>1, <1>4
    <3>3. (start' + i) % S = SlotAt(start', i) /\ SlotAt(start', i) \in 0..S - 1
      BY <3>2, SlotIs
    <3> QED BY <3>2, <3>3 DEF Text!LineAt
  <2> QED BY <2>1
<1>8. Text!LineAt(count - 1)' = new
  <2>1. count' - 1 \in 0..S - 1
    BY <1>1, <1>3
  <2>2. SlotAt(start', count' - 1) = here
    BY <1>1, <1>3 DEF SlotAt
  <2>3. Text!LineAt(count - 1)' = ring'[here]
    <3>1. Text!LineAt(count - 1)' = ring'[(start' + (count' - 1)) % S]
      BY DEF Text!LineAt
    <3>2. (start' + (count' - 1)) % S = SlotAt(start', count' - 1)
      <4>1. count' - 1 \in 0..S
        BY <1>1, <2>1
      <4> QED BY <1>4, <4>1, SlotIs
    <3> QED BY <2>2, <3>1, <3>2
  <2> QED BY <1>1, <1>3, <1>4, <2>3
<1>9. ASSUME NEW i \in 0..count' - 2
      PROVE Text!LineAt(i)' = Text!LineAt(i + out)
  <2>1. i \in 0..S - 1 /\ i + out \in 0..S - 1
    BY <1>1, <1>3
  <2>2. SlotAt(start', i) = SlotAt(start, i + out) /\ SlotAt(start', i) # here
    BY <1>1, <1>3, <1>9 DEF SlotAt
  <2>3. Text!LineAt(i)' = ring'[SlotAt(start', i)]
        /\ SlotAt(start', i) \in 0..S - 1
    BY <1>7, <2>1
  <2>4. ring'[SlotAt(start', i)] = ring[SlotAt(start', i)]
    BY <1>1, <1>3, <2>2, <2>3
  <2>5. Text!LineAt(i + out) = ring[SlotAt(start, i + out)]
    BY <2>1, LineIsAt
  <2> QED BY <2>2, <2>3, <2>4, <2>5
<1> QED BY <1>1, <1>3, <1>6, <1>8, <1>9 DEF new

(* Lines move together with their place in the text.                       *)
LEMMA StoryGoesOn ==
    ASSUME Text!ConsoleAssumption, ConsoleInv, NEW text \in Seq(Nat),
           Text!AddLine(text), got' \in Nat, partial' \in Seq(Nat),
           NEW from \in Nat, NEW to \in Nat,
           got = from + Len(partial), to = from + Len(text),
           got' = to + Len(partial'),
           \A j \in 1..Len(text) : text[j] = from + j,
           \A j \in 1..Len(partial') : partial'[j] = to + j
    PROVE  ConsoleInv'
<1> DEFINE out == IF count = Scrollback THEN 1 ELSE 0
           S == Scrollback
           Old(i) == ring[(start + i) % Scrollback]
           New(i) == ring'[(start' + i) % Scrollback]
           line == [id |-> added + 1, text |-> text]
<1>0. ConsoleType /\ IdsOK /\ \E f : Story(f)
  BY DEF ConsoleInv
<1>1. /\ S \in Nat \ {0} /\ count \in 0..S /\ added \in Nat /\ got \in Nat
      /\ partial \in Seq(Nat) /\ Len(partial) \in Nat /\ Len(text) \in Nat
      /\ count = IF added < S THEN added ELSE S
  BY <1>0 DEF Text!ConsoleAssumption, ConsoleType
<1>2. /\ ConsoleType' /\ added' = added + 1
      /\ count' = count + 1 - out /\ count \in 0..Scrollback
      /\ Text!LineAt(count - 1)' = line
      /\ \A i \in 0..count' - 2 : Text!LineAt(i)' = Text!LineAt(i + out)
  BY <1>0, LineJoins
<1>3. New(count' - 1) = line /\ \A i \in 0..count' - 2 : New(i) = Old(i + out)
  BY <1>2 DEF Text!LineAt
<1>4. line.id = added + 1 /\ line.text = text
  OBVIOUS
<1>5. \A i \in 0..count - 1 : Old(i).id = added - count + i + 1
  BY <1>0 DEF IdsOK, Text!LineAt
<1>6. PICK f : Story(f)
  BY <1>0
<1>7. /\ f \in [0..count -> Nat] /\ f[count] + Len(partial) = got
      /\ added <= S => f[0] = 0
  BY <1>6 DEF Story
<1>8. \A i \in 0..count - 1 :
          /\ Len(Old(i).text) = f[i + 1] - f[i]
          /\ \A j \in 1..Len(Old(i).text) : Old(i).text[j] = f[i] + j
  BY <1>6 DEF Story, Text!LineAt
<1>a. out \in {0, 1} /\ (count = S => out = 1) /\ (count # S => out = 0)
  OBVIOUS
<1>b. count' \in Nat /\ count' = count + 1 - out /\ added' = added + 1
      /\ count' \in 1..S
  BY <1>1, <1>2, <1>a
<1>c. f[count] = from
  BY <1>1, <1>7
<1> HIDE DEF line, Old, New, out
<1>9. ASSUME NEW i \in 0..count' - 1 PROVE New(i).id = added' - count' + i + 1
  <2>1. CASE i = count' - 1
    <3>1. New(i).id = added + 1
      BY <1>3, <1>4, <2>1
    <3> QED BY <1>1, <1>b, <2>1, <3>1
  <2>2. CASE i \in 0..count' - 2
    <3>1. i + out \in 0..count - 1 /\ New(i) = Old(i + out)
      BY <1>1, <1>3, <1>a, <1>b, <2>2
    <3>2. New(i).id = added - count + (i + out) + 1
      BY <1>5, <3>1
    <3> QED BY <1>1, <1>a, <1>b, <3>2
  <2>3. i = count' - 1 \/ i \in 0..count' - 2
    BY <1>b
  <2> QED BY <2>1, <2>2, <2>3
<1> DEFINE h == [i \in 0..count' |-> IF i = count' THEN to ELSE f[i + out]]
<1>d. /\ h \in [0..count' -> Nat] /\ h[count'] = to
      /\ \A i \in 0..count' - 1 : h[i] = f[i + out] /\ i + out \in 0..count
  <2>1. \A i \in 0..count' - 1 :
            i + out \in 0..count /\ i # count' /\ i \in 0..count'
    BY <1>1, <1>a, <1>b
  <2>2. count' \in 0..count'
        /\ \A i \in 0..count' : i = count' \/ i \in 0..count' - 1
    BY <1>b
  <2> QED BY <1>1, <1>7, <2>1, <2>2
<1> HIDE DEF h
<1>10. PICK g : /\ g \in [0..count' -> Nat] /\ g[count'] = to
                /\ \A i \in 0..count' - 1 :
                       g[i] = f[i + out] /\ i + out \in 0..count
  BY <1>d
<1>11. ASSUME NEW i \in 0..count' - 1
       PROVE  /\ Len(New(i).text) = g[i + 1] - g[i]
              /\ \A j \in 1..Len(New(i).text) : New(i).text[j] = g[i] + j
  <2>1. CASE i = count' - 1
    <3>1. New(i).text = text
      BY <1>3, <1>4, <2>1
    <3>2. i + 1 = count' /\ i + out = count
      BY <1>1, <1>a, <1>b, <2>1
    <3>3. g[i + 1] = to /\ g[i] = from
      BY <1>10, <1>c, <3>2
    <3>4. Len(text) = to - from
      BY <1>1
    <3>5. \A j \in 1..Len(text) : text[j] = from + j
      OBVIOUS
    <3>6. Len(New(i).text) = g[i + 1] - g[i]
      BY <3>1, <3>3, <3>4
    <3>7. \A j \in 1..Len(New(i).text) : New(i).text[j] = g[i] + j
      BY <3>1, <3>3, <3>5
    <3> QED BY <3>6, <3>7
  <2>2. CASE i \in 0..count' - 2
    <3>1. i + out \in 0..count - 1 /\ New(i) = Old(i + out)
      BY <1>1, <1>3, <1>a, <1>b, <2>2
    <3>2. g[i] = f[i + out] /\ g[i + 1] = f[(i + out) + 1]
      <4>1. i + 1 \in 0..count' - 1 /\ (i + 1) + out = (i + out) + 1
        BY <1>a, <1>b, <2>2
      <4> QED BY <1>10, <4>1
    <3> QED BY <1>8, <3>1, <3>2
  <2>3. i = count' - 1 \/ i \in 0..count' - 2
    BY <1>b
  <2> QED BY <2>1, <2>2, <2>3
<1>12. added' <= S => g[0] = 0
  <2>1. SUFFICES ASSUME added' <= S PROVE g[0] = 0
    OBVIOUS
  <2>2. out = 0 /\ 0 \in 0..count' - 1 /\ added <= S /\ 0 + out = 0
    BY <1>1, <1>a, <1>b, <2>1
  <2> QED BY <1>7, <1>10, <2>2
<1>13. Story(g)'
  <2>1. g[count'] + Len(partial') = got'
    BY <1>10
  <2>2. \A j \in 1..Len(partial') : partial'[j] = g[count'] + j
    BY <1>10
  <2>3. \A i \in 0..count' - 1 :
            /\ Len(ring'[(start' + i) % S].text) = g[i + 1] - g[i]
            /\ \A j \in 1..Len(ring'[(start' + i) % S].text) :
                   ring'[(start' + i) % S].text[j] = g[i] + j
    BY <1>11 DEF New
  <2> QED BY <1>10, <1>12, <2>1, <2>2, <2>3 DEF Story, Text!LineAt
<1>14. IdsOK'
  BY <1>9 DEF IdsOK, Text!LineAt, New
<1>15. (\E k : Story(k))'
  BY <1>13
<1> QED BY <1>2, <1>14, <1>15 DEF ConsoleInv

(* Without a new line the retained ones keep their place in the text.      *)
LEMMA StoryStays ==
    ASSUME Text!ConsoleAssumption, ConsoleInv,
           ring' = ring, count' = count, start' = start, added' = added,
           offset' \in Nat, got' \in Nat, partial' \in Seq(Nat),
           NEW from \in Nat, got = from + Len(partial),
           got' = from + Len(partial'),
           \A j \in 1..Len(partial') : partial'[j] = from + j
    PROVE  ConsoleInv'
<1>0. ConsoleType /\ IdsOK /\ \E f : Story(f)
  BY DEF ConsoleInv
<1>1. ConsoleType'
  BY <1>0 DEF ConsoleType
<1>2. IdsOK'
  BY <1>0 DEF IdsOK, Text!LineAt
<1>3. PICK f : Story(f)
  BY <1>0
<1>4. f[count] = from
  <2>1. /\ f \in [0..count -> Nat] /\ f[count] + Len(partial) = got
        /\ count \in 0..count /\ Len(partial) \in Nat
    BY <1>0, <1>3 DEF Story, ConsoleType, Text!ConsoleAssumption
  <2> QED BY <2>1
<1>5. Story(f)'
  BY <1>3, <1>4 DEF Story, Text!LineAt
<1>6. (\E k : Story(k))'
  BY <1>5
<1> QED BY <1>1, <1>2, <1>6 DEF ConsoleInv

(* Where the line that is being collected begins.                          *)
LEMMA PartialBegins ==
    ASSUME Text!ConsoleAssumption, ConsoleInv
    PROVE  \E from \in Nat :
               /\ got = from + Len(partial)
               /\ \A j \in 1..Len(partial) : partial[j] = from + j
<1>1. ConsoleType /\ \E f : Story(f)
  BY DEF ConsoleInv
<1>2. PICK f : Story(f)
  BY <1>1
<1>3. /\ f \in [0..count -> Nat] /\ f[count] + Len(partial) = got
      /\ \A j \in 1..Len(partial) : partial[j] = f[count] + j
  BY <1>2 DEF Story
<1>5. count \in 0..count
  BY <1>1 DEF ConsoleType, Text!ConsoleAssumption
<1>4. f[count] \in Nat
  BY <1>3, <1>5
<1> QED BY <1>3, <1>4

(* Scrolling keeps the view's offset a number.                             *)
LEMMA ScrollNat ==
    ASSUME Text!ConsoleAssumption, ConsoleType, NEW o \in Nat,
           NEW delta \in Int
    PROVE  Text!ScrollDelta(o, delta) \in Nat
<1> DEFINE at == Text!ClampView(o, count)
           most == Text!MaxViewOffset(count)
<1>1. at \in Nat /\ most \in Nat /\ at <= most
  BY DEF Text!ConsoleAssumption, ConsoleType, Text!ClampView,
         Text!MaxViewOffset, Text!VisibleLines
<1>2. Text!ScrollDelta(o, delta) =
          CASE delta > 0 -> IF delta > most - at THEN most ELSE at + delta
            [] delta < 0 -> IF -delta > at THEN 0 ELSE at + delta
            [] OTHER -> at
  BY DEF Text!ScrollDelta
<1> HIDE DEF at, most
<1> QED BY <1>1, <1>2

(* So do the four directions, one after the other.                         *)
LEMMA ButtonsNat ==
    ASSUME Text!ConsoleAssumption, ConsoleType, NEW o \in Nat, NEW buttons
    PROVE  Text!HandleButtons(o, buttons) \in Nat
<1> DEFINE page == Rows - 3
           Step(at, b, delta) ==
               IF b \in buttons THEN Text!ScrollDelta(at, delta) ELSE at
<1>1. page \in Int /\ -page \in Int /\ 1 \in Int /\ -1 \in Int
  BY DEF Text!ConsoleAssumption
<1>2. \A at \in Nat : \A delta \in Int : \A b : Step(at, b, delta) \in Nat
  BY ScrollNat
<1>3. Text!HandleButtons(o, buttons) =
          Step(Step(Step(Step(o, "up", 1), "down", -1), "left", page),
               "right", -page)
  BY DEF Text!HandleButtons
<1> HIDE DEF Step, page
<1>4. Step(o, "up", 1) \in Nat
  BY <1>1, <1>2
<1>5. Step(Step(o, "up", 1), "down", -1) \in Nat
  BY <1>1, <1>2, <1>4
<1>6. Step(Step(Step(o, "up", 1), "down", -1), "left", page) \in Nat
  BY <1>1, <1>2, <1>5
<1> QED BY <1>1, <1>2, <1>3, <1>6

(* A line ends, or a character is collected.                               *)
LEMMA CharKeeps ==
    ASSUME Text!ConsoleAssumption, ConsoleInv, NEW ch, Text!TextChar(ch)
    PROVE  ConsoleInv'
<1> DEFINE ends == ch # "return" /\ (ch = "newline" \/ Len(partial) >= Cols)
           rest == IF ends THEN <<>> ELSE partial
<1>1. /\ IF ends THEN Text!AddLine(partial) ELSE UNCHANGED <<Text!view, added>>
      /\ partial' = IF ch = "print" THEN Append(rest, got + 1) ELSE rest
      /\ got' = IF ch = "print" THEN got + 1 ELSE got
  BY DEF Text!TextChar
<1>2. PICK from \in Nat : /\ got = from + Len(partial)
                          /\ \A j \in 1..Len(partial) : partial[j] = from + j
  BY PartialBegins
<1>3. /\ partial \in Seq(Nat) /\ Len(partial) \in Nat /\ got \in Nat
      /\ offset \in Nat
  BY DEF ConsoleInv, ConsoleType
<1>4. CASE ends
  <2>1. rest = <<>> /\ Text!AddLine(partial)
    BY <1>1, <1>4
  <2>2. /\ partial' \in Seq(Nat) /\ got' = got + Len(partial')
        /\ \A j \in 1..Len(partial') : partial'[j] = got + j
    <3> HIDE DEF rest
    <3>1. CASE ch = "print"
      <4>1. partial' = <<got + 1>> /\ got' = got + 1
        BY <1>1, <2>1, <3>1
      <4> QED BY <1>3, <4>1
    <3>2. CASE ch # "print"
      <4>1. partial' = <<>> /\ got' = got
        BY <1>1, <2>1, <3>2
      <4> QED BY <1>3, <4>1
    <3> QED BY <3>1, <3>2
  <2>3. got' \in Nat
    BY <1>1, <1>3
  <2> HIDE DEF rest, ends
  <2> QED BY <1>2, <1>3, <2>1, <2>2, <2>3, StoryGoesOn
<1>5. CASE ~ends
  <2>1. /\ rest = partial /\ ring' = ring /\ count' = count /\ start' = start
        /\ offset' = offset /\ added' = added
    BY <1>1, <1>5 DEF Text!view
  <2>2. /\ partial' \in Seq(Nat) /\ got' = from + Len(partial')
        /\ \A j \in 1..Len(partial') : partial'[j] = from + j
    <3> HIDE DEF rest
    <3>1. CASE ch = "print"
      <4>1. partial' = Append(partial, got + 1) /\ got' = got + 1
        BY <1>1, <2>1, <3>1
      <4>2. /\ partial' \in Seq(Nat) /\ Len(partial') = Len(partial) + 1
            /\ \A j \in 1..Len(partial) : partial'[j] = partial[j]
            /\ partial'[Len(partial) + 1] = got + 1
        BY <1>3, <4>1
      <4>3. ASSUME NEW j \in 1..Len(partial') PROVE partial'[j] = from + j
        <5>1. j \in 1..Len(partial) \/ j = Len(partial) + 1
          BY <1>3, <4>2
        <5> QED BY <1>2, <1>3, <4>2, <5>1
      <4> QED BY <1>2, <1>3, <4>1, <4>2, <4>3
    <3>2. CASE ch # "print"
      BY <1>1, <1>2, <1>3, <2>1, <3>2
    <3> QED BY <3>1, <3>2
  <2>3. got' \in Nat
    BY <1>1, <1>3
  <2> HIDE DEF rest, ends
  <2> QED BY <1>2, <1>3, <2>1, <2>2, <2>3, StoryStays
<1> QED BY <1>4, <1>5

(* A notice of the console's own is an empty line.                         *)
LEMMA NoticeKeeps ==
    ASSUME Text!ConsoleAssumption, ConsoleInv, Text!AddLine(<<>>),
           partial' = partial, got' = got
    PROVE  ConsoleInv'
<1>1. PICK from \in Nat : /\ got = from + Len(partial)
                          /\ \A j \in 1..Len(partial) : partial[j] = from + j
  BY PartialBegins
<1>2. partial \in Seq(Nat) /\ got \in Nat
  BY DEF ConsoleInv, ConsoleType
<1> DEFINE empty == <<>>
<1>3. empty \in Seq(Nat) /\ Len(empty) = 0 /\ Text!AddLine(empty)
  OBVIOUS
<1> HIDE DEF empty
<1>4. from = from + Len(empty) /\ \A j \in 1..Len(empty) : empty[j] = from + j
  BY <1>3
<1> QED BY <1>1, <1>2, <1>3, <1>4, StoryGoesOn

(* ConsoleInv is inductive.                                                *)
LEMMA ConsoleInductive ==
    ASSUME Text!ConsoleAssumption, ConsoleInv, [Text!Next]_(Text!vars)
    PROVE  ConsoleInv'
<1>0. /\ partial \in Seq(Nat) /\ got \in Nat /\ offset \in Nat /\ ConsoleType
  BY DEF ConsoleInv, ConsoleType
<1>1. ASSUME ring' = ring, count' = count, start' = start, added' = added,
             offset' \in Nat, got' = got, partial' = partial
      PROVE  ConsoleInv'
  <2>1. PICK from \in Nat : /\ got = from + Len(partial)
                            /\ \A j \in 1..Len(partial) : partial[j] = from + j
    BY PartialBegins
  <2> QED BY <1>0, <1>1, <2>1, StoryStays
<1>2. ASSUME NEW ch, Text!Text(ch) PROVE ConsoleInv'
  BY <1>2, CharKeeps DEF Text!Text
<1>3. ASSUME NEW now, Text!Tick(now) PROVE ConsoleInv'
  <2>1. /\ ring' = ring /\ count' = count /\ start' = start /\ added' = added
        /\ got' = got /\ partial' = partial /\ Text!HandleHeld(now)
    BY <1>3 DEF Text!Tick
  <2> DEFINE pressed == now \ previous
             pressedTo == IF pressed = {} THEN offset
                          ELSE Text!HandleButtons(offset, pressed)
  <2>2. offset' = Text!HandleButtons(pressedTo, now) \/ offset' = pressedTo
    BY <2>1 DEF Text!HandleHeld
  <2>3. pressedTo \in Nat
    BY <1>0, ButtonsNat
  <2> HIDE DEF pressedTo
  <2>4. offset' \in Nat
    BY <1>0, <2>2, <2>3, ButtonsNat
  <2> QED BY <1>1, <2>1, <2>4
<1>4. CASE Text!OtherKey
  BY <1>4, NoticeKeeps DEF Text!OtherKey
<1>5. CASE Text!RefreshFds
  BY <1>5, NoticeKeeps DEF Text!RefreshFds
<1>6. CASE Text!DeviceGone
  BY <1>0, <1>1, <1>6 DEF Text!DeviceGone
<1>7. CASE UNCHANGED Text!vars
  BY <1>0, <1>1, <1>7 DEF Text!vars
<1> QED BY <1>2, <1>3, <1>4, <1>5, <1>6, <1>7 DEF Text!Next

(* console_clear: nothing is retained yet.                                 *)
LEMMA ConsoleStarts ==
    ASSUME Text!ConsoleAssumption, Text!Init
    PROVE  ConsoleInv
<1>1. /\ ring = [s \in Text!Slots |-> [id |-> 0, text |-> <<>>]]
      /\ count = 0 /\ start = 0 /\ offset = 0
      /\ partial = <<>> /\ got = 0 /\ added = 0 /\ Scrollback \in Nat \ {0}
  BY DEF Text!Init, Text!ConsoleAssumption
<1>2. ConsoleType
  <2>1. [id |-> 0, text |-> <<>>] \in LineType
    BY DEF LineType
  <2>2. ring \in [0..Scrollback - 1 -> LineType]
    BY <1>1, <2>1 DEF Text!Slots
  <2> QED BY <1>1, <2>2 DEF ConsoleType
<1>3. IdsOK
  BY <1>1 DEF IdsOK
<1>4. Story([i \in 0..count |-> 0])
  <2> DEFINE f == [i \in 0..count |-> 0]
  <2>1. f \in [0..count -> Nat] /\ f[0] = 0 /\ f[count] = 0
    BY <1>1
  <2> HIDE DEF f
  <2>2. Len(partial) = 0
    BY <1>1
  <2>3. Story(f)
    BY <1>1, <2>1, <2>2 DEF Story
  <2> QED BY <2>3 DEF f
<1> QED BY <1>2, <1>3, <1>4 DEF ConsoleInv

(* The lengths of the retained lines lead back to where each began.        *)
LEMMA BeginsIs ==
    ASSUME Text!ConsoleAssumption, ConsoleType, NEW f, Story(f)
    PROVE  \A k \in 0..count : Text!Begins[k] = f[count - k]
<1> DEFINE Part(k) == Len(Text!LineAt(count - k).text)
           Is(b) == b = [k \in 0..count |->
                            IF k = 0 THEN got - Len(partial)
                            ELSE b[k - 1] - Part(k)]
           w == [k \in 0..count |-> f[count - k]]
<1>1. count \in Nat /\ got \in Nat /\ Len(partial) \in Nat
  BY DEF Text!ConsoleAssumption, ConsoleType
<1>2. f \in [0..count -> Nat] /\ f[count] + Len(partial) = got
  BY DEF Story
<1>3. \A k \in 1..count : Part(k) = f[(count - k) + 1] - f[count - k]
  <2>1. \A i \in 0..count - 1 : Len(Text!LineAt(i).text) = f[i + 1] - f[i]
    BY DEF Story
  <2>2. \A k \in 1..count : count - k \in 0..count - 1
    BY <1>1
  <2> QED BY <2>1, <2>2
<1> HIDE DEF Part
<1>4. \A k \in 0..count :
          w[k] = IF k = 0 THEN got - Len(partial) ELSE w[k - 1] - Part(k)
  <2>1. ASSUME NEW k \in 0..count
        PROVE  w[k] = IF k = 0 THEN got - Len(partial) ELSE w[k - 1] - Part(k)
    <3>1. CASE k = 0
      <4>1. count - 0 = count /\ count \in 0..count
        BY <1>1
      <4>2. w[0] = f[count] /\ f[count] \in Nat
        BY <1>2, <4>1
      <4> QED BY <1>1, <1>2, <3>1, <4>2
    <3>2. CASE k # 0
      <4>1. /\ k \in 1..count /\ k - 1 \in 0..count
            /\ count - (k - 1) = (count - k) + 1
            /\ (count - k) + 1 \in 0..count /\ count - k \in 0..count
        BY <1>1, <3>2
      <4>2. w[k] = f[count - k] /\ w[k - 1] = f[(count - k) + 1]
        BY <4>1
      <4>3. f[count - k] \in Nat /\ f[(count - k) + 1] \in Nat
        BY <1>2, <4>1
      <4> QED BY <1>3, <3>2, <4>1, <4>2, <4>3
    <3> QED BY <3>1, <3>2
  <2> QED BY <2>1
<1>5. Is(w)
  <2>1. w = [k \in 0..count |-> w[k]]
    OBVIOUS
  <2> HIDE DEF w
  <2> QED BY <1>4, <2>1
<1> DEFINE b == Text!Begins
<1>6. b = CHOOSE c : Is(c)
  BY DEF Text!Begins, Part
<1>7. Is(b)
  <2> HIDE DEF Is, b, w
  <2> QED BY <1>5, <1>6
<1>8. \A k \in 0..count :
          b[k] = IF k = 0 THEN got - Len(partial) ELSE b[k - 1] - Part(k)
  <2> HIDE DEF b
  <2> QED BY <1>7
<1> HIDE DEF b, w, Is
<1> DEFINE T == {k \in Nat : k <= count => b[k] = w[k]}
<1>9. 0 \in T
  BY <1>1, <1>4, <1>8
<1>10. ASSUME NEW k \in Nat, k \in T PROVE k + 1 \in T
  <2>1. SUFFICES ASSUME k + 1 <= count PROVE b[k + 1] = w[k + 1]
    OBVIOUS
  <2>2. k + 1 \in 0..count /\ k + 1 # 0 /\ (k + 1) - 1 = k /\ k <= count
    BY <1>1, <2>1
  <2>3. b[k] = w[k]
    BY <1>10, <2>2
  <2> QED BY <1>4, <1>8, <2>2, <2>3
<1>11. \A k \in Nat : k \in T
  <2> HIDE DEF T
  <2> QED BY <1>9, <1>10, AllNumbers
<1>12. \A k \in 0..count : b[k] = w[k]
  BY <1>1, <1>11
<1> QED BY <1>12 DEF b, w

(* The first line on the panel.                                            *)
Top(c, o) == c - Text!VisibleLines(c) - Text!ClampView(o, c)

(* The view lies within the retained lines.                                *)
LEMMA TopIs ==
    ASSUME Text!ConsoleAssumption, NEW c \in Nat, NEW o \in Nat
    PROVE  /\ Text!VisibleLines(c) \in 0..c
           /\ Top(c, o) \in 0..c - Text!VisibleLines(c)
           /\ Text!ClampView(o, c) \in Nat
           /\ IF Text!ClampView(o, c) < c - Text!VisibleLines(c)
              THEN Top(c, o) =
                       (c - Text!VisibleLines(c)) - Text!ClampView(o, c)
              ELSE Top(c, o) = 0
           /\ Text!VisibleLines(c) = Rows =>
                  /\ o <= c - Rows => Top(c, o) = c - Rows - o
                  /\ o >= c - Rows => Top(c, o) = 0
           /\ Text!VisibleLines(c) = Rows <=> c >= Rows
BY DEF Top, Text!ConsoleAssumption, Text!VisibleLines, Text!ClampView,
       Text!MaxViewOffset

(* What the panel shows, by the first line on it.                          *)
LEMMA ShownIs ==
    ASSUME Text!ConsoleAssumption, ConsoleType
    PROVE  /\ Text!Shown = [row \in 1..Text!VisibleLines(count) |->
                               Text!LineAt(Top(count, offset) + row - 1)]
           /\ Len(Text!Shown) = Text!VisibleLines(count)
<1> DEFINE visible == Text!VisibleLines(count)
           o == Text!ClampView(offset, count)
           top == IF o < count - visible THEN (count - visible) - o ELSE 0
<1>1. count \in Nat /\ offset \in Nat
  BY DEF Text!ConsoleAssumption, ConsoleType
<1>2. visible \in Nat /\ top = Top(count, offset)
  <2>1. visible \in 0..count
    BY <1>1, TopIs
  <2>2. IF o < count - visible THEN Top(count, offset) = (count - visible) - o
        ELSE Top(count, offset) = 0
    BY <1>1, TopIs
  <2> HIDE DEF visible, o
  <2> QED BY <1>1, <2>1, <2>2
<1>3. Text!Shown = [row \in 1..visible |-> Text!LineAt(top + row - 1)]
  BY DEF Text!Shown
<1> HIDE DEF visible, top
<1>4. Text!Shown = [row \in 1..visible |->
                       Text!LineAt(Top(count, offset) + row - 1)]
  BY <1>2, <1>3
<1>5. Len([row \in 1..visible |-> Text!LineAt(top + row - 1)]) = visible
  BY <1>2
<1> QED BY <1>3, <1>4, <1>5 DEF visible

(* What ConsoleInv is for.                                                 *)
LEMMA ConsoleInvGives ==
    ASSUME Text!ConsoleAssumption, ConsoleInv
    PROVE  Text!TextIsKept /\ Text!ViewIsConsecutive
<1>0. ConsoleType /\ IdsOK /\ \E f : Story(f)
  BY DEF ConsoleInv
<1>1. PICK f : Story(f)
  BY <1>0
<1>2. count \in Nat /\ offset \in Nat /\ added \in Nat
  BY <1>0 DEF Text!ConsoleAssumption, ConsoleType
<1>3. \A k \in 0..count : Text!Begins[k] = f[count - k]
  BY <1>0, <1>1, BeginsIs
<1>4. Text!TextIsKept
  <2>1. \A j \in 1..Len(partial) : partial[j] = Text!Begins[0] + j
    <3>1. 0 \in 0..count /\ count - 0 = count
      BY <1>2
    <3> QED BY <1>1, <1>3, <3>1 DEF Story
  <2>2. ASSUME NEW k \in 1..count
        PROVE  \A j \in 1..Len(Text!LineAt(count - k).text) :
                   Text!LineAt(count - k).text[j] = Text!Begins[k] + j
    <3>1. k \in 0..count /\ count - k \in 0..count - 1
      BY <1>2
    <3>2. Text!Begins[k] = f[count - k]
      BY <1>3, <3>1
    <3> QED BY <1>1, <3>1, <3>2 DEF Story
  <2>3. added <= Scrollback => Text!Begins[count] = 0
    <3>1. count \in 0..count /\ count - count = 0
      BY <1>2
    <3> QED BY <1>1, <1>3, <3>1 DEF Story
  <2> QED BY <2>1, <2>2, <2>3 DEF Text!TextIsKept
<1>5. Text!ViewIsConsecutive
  <2> DEFINE visible == Text!VisibleLines(count)
             o == Text!ClampView(offset, count)
             top == Top(count, offset)
  <2>1. /\ Text!Shown = [row \in 1..visible |-> Text!LineAt(top + row - 1)]
        /\ Len(Text!Shown) = visible
    BY <1>0, ShownIs
  <2>2. visible \in 0..count /\ top \in 0..count - visible /\ o \in Nat
    BY <1>2, TopIs
  <2>3. top = count - visible - o
    BY DEF Top
  <2> HIDE DEF visible, o, top
  <2>4. ASSUME NEW row \in 1..visible
        PROVE  Text!Shown[row].id = added - o - visible + row
    <3>1. top + row - 1 \in 0..count - 1
      BY <1>2, <2>2
    <3>2. Text!LineAt(top + row - 1).id = added - count + (top + row - 1) + 1
      BY <1>0, <3>1 DEF IdsOK
    <3>3. Text!Shown[row] = Text!LineAt(top + row - 1)
      BY <2>1
    <3> QED BY <1>2, <2>2, <2>3, <3>2, <3>3
  <2>5. DOMAIN Text!Shown = 1..visible
    BY <2>1
  <2>6. ASSUME NEW row \in DOMAIN Text!Shown
        PROVE  Text!Shown[row].id = added - o - Len(Text!Shown) + row
    BY <2>1, <2>4, <2>5
  <2> QED BY <2>6 DEF Text!ViewIsConsecutive, o
<1> QED BY <1>4, <1>5

(* A new line moves the view along with the lines in it, unless the top one*)
(* was the oldest of a full ring.                                          *)
LEMMA PlaceIsKept ==
    ASSUME Text!ConsoleAssumption, ConsoleInv, NEW text \in Seq(Nat),
           Text!AddLine(text), got' \in Nat, partial' \in Seq(Nat)
    PROVE  Text!ReaderKeepsPlace
<1> DEFINE out == IF count = Scrollback THEN 1 ELSE 0
           S == Scrollback
           top == Top(count, offset)
           at == (IF offset # 0 THEN offset + 1 ELSE offset)
           now == Top(count', offset')
<1>1. SUFFICES ASSUME offset # 0, Len(Text!Shown) = Rows
               PROVE  (Text!Shown)'[1] = Text!Shown[1]
                      \/ Text!Shown[1].id <= added' - Scrollback
  BY DEF Text!ReaderKeepsPlace
<1>2. ConsoleType /\ IdsOK
  BY DEF ConsoleInv
<1>3. /\ S \in Nat \ {0} /\ Rows \in Nat \ {0} /\ count \in 0..S
      /\ added \in Nat /\ offset \in Nat /\ count \in Nat
      /\ count = IF added < S THEN added ELSE S
  BY <1>2 DEF Text!ConsoleAssumption, ConsoleType
<1>4. /\ ConsoleType' /\ added' = added + 1 /\ count' = count + 1 - out
      /\ \A i \in 0..count' - 2 : Text!LineAt(i)' = Text!LineAt(i + out)
      /\ offset' = Text!ClampView(at, count')
  BY <1>2, LineJoins
<1>5. out \in {0, 1} /\ (count = S => out = 1) /\ (count # S => out = 0)
      /\ at = offset + 1
  BY <1>1
<1>6. count' \in Nat /\ offset' \in Nat
  BY <1>3, <1>4, <1>5 DEF ConsoleType
<1> HIDE DEF out, at
<1>7. /\ Text!Shown = [row \in 1..Text!VisibleLines(count) |->
                          Text!LineAt(top + row - 1)]
      /\ Text!VisibleLines(count) = Rows
  BY <1>1, <1>2, ShownIs
<1>8. count >= Rows /\ top \in 0..count - Rows
      /\ (offset <= count - Rows => top = count - Rows - offset)
      /\ (offset >= count - Rows => top = 0)
  <2> HIDE DEF top
  <2> QED BY <1>3, <1>7, TopIs DEF top
<1>9. count' >= Rows
  BY <1>3, <1>4, <1>5, <1>8
<1>10. /\ Text!VisibleLines(count') = Rows
       /\ offset' <= count' - Rows => now = count' - Rows - offset'
       /\ offset' >= count' - Rows => now = 0
  <2> HIDE DEF now
  <2> QED BY <1>6, <1>9, TopIs DEF now
<1>11. offset' = IF offset + 1 > count' - Rows THEN count' - Rows
                 ELSE offset + 1
  BY <1>4, <1>5, <1>10 DEF Text!ClampView, Text!MaxViewOffset
<1>12. (Text!Shown)'[1] = ring'[(start' + now) % S]
  <2> DEFINE visible == Text!VisibleLines(count')
             o == Text!ClampView(offset', count')
             first1 == IF o < count' - visible THEN (count' - visible) - o
                       ELSE 0
  <2>1. first1 = now
    <3>1. IF o < count' - visible THEN now = (count' - visible) - o
          ELSE now = 0
      BY <1>6, TopIs
    <3> HIDE DEF visible, o, now
    <3> QED BY <3>1
  <2>2. (Text!Shown)' = [row \in 1..visible |->
                            ring'[(start' + (first1 + row - 1)) % S]]
    BY DEF Text!Shown, Text!LineAt
  <2>3. 1 \in 1..visible /\ first1 + 1 - 1 = first1
    <3>1. first1 \in Int
      <4>1. now \in Int
        <5>1. now \in 0..count' - Text!VisibleLines(count')
          BY <1>6, TopIs
        <5> HIDE DEF now
        <5> QED BY <5>1
      <4> HIDE DEF first1
      <4> QED BY <2>1, <4>1
    <3>2. visible = Rows
      BY <1>10
    <3> HIDE DEF first1, visible
    <3> QED BY <1>3, <3>1, <3>2
  <2> HIDE DEF first1, visible, now
  <2> QED BY <2>1, <2>2, <2>3
<1>13. Text!Shown[1] = Text!LineAt(top)
  <2>1. 1 \in 1..Text!VisibleLines(count) /\ top + 1 - 1 = top
    BY <1>3, <1>7, <1>8
  <2> HIDE DEF top
  <2> QED BY <1>7, <2>1
<1> HIDE DEF top, now
<1>14. CASE out = 1 /\ offset + 1 > count - Rows
  <2>1. top = 0 /\ 0 \in 0..count - 1 /\ count = S
    BY <1>3, <1>5, <1>8, <1>14
  <2>2. Text!LineAt(0).id = added - count + 0 + 1
    BY <1>2, <2>1 DEF IdsOK
  <2> QED BY <1>3, <1>4, <1>13, <2>1, <2>2
<1>15. CASE ~(out = 1 /\ offset + 1 > count - Rows)
  <2>0. count' = count + 1 - out
    BY <1>4
  <2>1. now + out = top /\ now \in 0..count' - 2
    <3>1. CASE out = 1
      <4>1. count' = count /\ offset' = offset + 1 /\ offset + 1 <= count - Rows
        BY <1>3, <1>11, <1>15, <2>0, <3>1
      <4>2. now = count - Rows - (offset + 1) /\ top = count - Rows - offset
        BY <1>3, <1>8, <1>10, <4>1
      <4> QED BY <1>3, <3>1, <4>1, <4>2
    <3>2. CASE out = 0
      <4>1. count' = count + 1
        BY <1>3, <2>0, <3>2
      <4>2. CASE offset <= count - Rows
        <5>1. offset' = offset + 1
          BY <1>3, <1>11, <4>1, <4>2
        <5>2. now = count + 1 - Rows - (offset + 1)
              /\ top = count - Rows - offset
          BY <1>3, <1>8, <1>10, <4>1, <4>2, <5>1
        <5> QED BY <1>3, <3>2, <4>1, <4>2, <5>2
      <4>3. CASE offset > count - Rows
        <5>1. offset' = count + 1 - Rows
          BY <1>3, <1>11, <4>1, <4>3
        <5>2. now = 0 /\ top = 0
          BY <1>3, <1>8, <1>10, <4>1, <4>3, <5>1
        <5> QED BY <1>3, <1>8, <3>2, <4>1, <5>2
      <4> QED BY <1>3, <4>2, <4>3
    <3> QED BY <1>5, <3>1, <3>2
  <2>2. \A i \in 0..count' - 2 :
            ring'[(start' + i) % S] = Text!LineAt(i + out)
    BY <1>4 DEF Text!LineAt
  <2> QED BY <1>12, <1>13, <2>1, <2>2
<1> QED BY <1>14, <1>15

(* Every step keeps the reader's place.                                    *)
LEMMA ReaderIsKept ==
    ASSUME Text!ConsoleAssumption, ConsoleInv, [Text!Next]_(Text!vars)
    PROVE  Text!ReaderKeepsPlace
<1>0. partial \in Seq(Nat) /\ got \in Nat /\ added \in Nat
  BY DEF ConsoleInv, ConsoleType
<1>1. ASSUME added' = added PROVE Text!ReaderKeepsPlace
  BY <1>0, <1>1 DEF Text!ReaderKeepsPlace
<1>2. got' \in Nat /\ partial' \in Seq(Nat)
  BY ConsoleInductive DEF ConsoleInv, ConsoleType
<1>3. ASSUME NEW text \in Seq(Nat), Text!AddLine(text)
      PROVE  Text!ReaderKeepsPlace
  BY <1>2, <1>3, PlaceIsKept
<1>4. ASSUME NEW ch, Text!Text(ch) PROVE Text!ReaderKeepsPlace
  <2>1. Text!AddLine(partial) \/ added' = added
    BY <1>4 DEF Text!Text, Text!TextChar
  <2> QED BY <1>0, <1>1, <1>3, <2>1
<1>5. <<>> \in Seq(Nat)
  OBVIOUS
<1>6. CASE Text!OtherKey \/ Text!RefreshFds
  <2>1. Text!AddLine(<<>>)
    BY <1>6 DEF Text!OtherKey, Text!RefreshFds
  <2> QED BY <1>3, <1>5, <2>1
<1>7. CASE Text!DeviceGone \/ (\E now : Text!Tick(now))
  BY <1>1, <1>7 DEF Text!DeviceGone, Text!Tick
<1>8. CASE UNCHANGED Text!vars
  BY <1>1, <1>8 DEF Text!vars
<1> QED BY <1>4, <1>6, <1>7, <1>8 DEF Text!Next

ConsolePart == part = "console" => ConsoleInv

(* For every size of scrollback and panel: cutting kernel messages into    *)
(* lines and the wrapping ring lose, double and reorder no character of    *)
(* the retained text, the panel shows consecutive lines, and a new line    *)
(* does not move the text of a reader who scrolled up.                     *)
THEOREM ConsoleKeepsText == Spec => ConsoleShowsText
<1>1. Init => ConsolePart
  BY DeviceAssumption, PartStarts, ConsoleStarts DEF ConsolePart
<1>2. ConsolePart /\ [Next]_vars => ConsolePart'
  <2> SUFFICES ASSUME ConsolePart, [Next]_vars, part' = "console"
               PROVE  ConsoleInv'
    BY DEF ConsolePart
  <2>1. ConsoleInv /\ [Text!Next]_(Text!vars)
    BY PartSteps DEF ConsolePart
  <2> QED BY <2>1, DeviceAssumption, ConsoleInductive
<1>3. ConsolePart =>
        (part = "console" => Text!TextIsKept /\ Text!ViewIsConsecutive)
  BY DeviceAssumption, ConsoleInvGives DEF ConsolePart
<1>4. ConsolePart /\ [Next]_vars =>
        [part = "console" => Text!ReaderKeepsPlace]_vars
  <2> SUFFICES ASSUME ConsolePart, [Next]_vars, part = "console"
               PROVE  Text!ReaderKeepsPlace
    OBVIOUS
  <2>1. ConsoleInv /\ [Text!Next]_(Text!vars)
    BY PartSteps DEF ConsolePart
  <2> QED BY <2>1, DeviceAssumption, ReaderIsKept
<1> QED BY <1>1, <1>2, <1>3, <1>4, PTL DEF Spec, ConsoleShowsText

----------------------------------------------------------------------------
(* The pure functions, for every input: clipping, and the synchroniser.    *)

(* Rectangles with pixels, clip regions and surfaces of any size.          *)
Rectangles == [x : Int, y : Int, w : Nat \ {0}, h : Nat \ {0}]
Regions == [x1 : Int, y1 : Int, x2 : Int, y2 : Int]
Surfaces == [w : Nat, h : Nat, phys : Nat, pitch : Nat, bytes : Nat]

(* Where one direction of a clipped rectangle starts and ends.             *)
From(x, x1) == Calls!Geo!Most(x, Calls!Geo!Most(x1, 0))
Until(x, w, x2, size) == Calls!Geo!Least(x + w, Calls!Geo!Least(x2 + 1, size))

(* The numbers that one direction of a clipping is about.                  *)
Extents(x, w, x1, x2, size) ==
    x \in Int /\ w \in Nat \ {0} /\ x1 \in Int /\ x2 \in Int /\ size \in Nat

(* One line of a clipped rectangle.                                        *)
LEMMA LineIsClipped ==
    ASSUME NEW x, NEW w, NEW x1, NEW x2, NEW size,
           Extents(x, w, x1, x2, size)
    PROVE  /\ From(x, x1) \in Int /\ Until(x, w, x2, size) \in Int
           /\ From(x, x1)..Until(x, w, x2, size) - 1
                  = (x..x + w - 1) \cap (x1..x2) \cap (0..size - 1)
<1> DEFINE at == From(x, x1)
           end1 == Until(x, w, x2, size)
<1>1. /\ at \in Int /\ end1 \in Int
      /\ at >= x /\ at >= x1 /\ at >= 0 /\ (at = x \/ at = x1 \/ at = 0)
      /\ end1 <= x + w /\ end1 <= x2 + 1 /\ end1 <= size
      /\ (end1 = x + w \/ end1 = x2 + 1 \/ end1 = size)
  BY DEF Extents, From, Until, Calls!Geo!Most, Calls!Geo!Least
<1> HIDE DEF at, end1
<1>2. ASSUME NEW i \in Int
      PROVE  i \in at..end1 - 1 <=>
                 i \in x..x + w - 1 /\ i \in x1..x2 /\ i \in 0..size - 1
  BY <1>1 DEF Extents
<1>3. at..end1 - 1 = (x..x + w - 1) \cap (x1..x2) \cap (0..size - 1)
  BY <1>1, <1>2 DEF Extents
<1> QED BY <1>1, <1>3 DEF at, end1

(* Quadwords.                                                              *)
LEMMA WidenedLine ==
    ASSUME NEW x \in Int, NEW w \in Int
    PROVE  LET wide == ((x + w + 3) \div 4) * 4 - x
           IN  wide \in Int /\ wide >= w /\ wide < w + 4
<1> DEFINE y == x + w + 3
           q == y \div 4
<1>1. y \in Int /\ q \in Int /\ 4 * q <= y /\ y < 4 * q + 4
  OBVIOUS
<1> HIDE DEF q
<1>2. q * 4 - x >= w /\ q * 4 - x < w + 4 /\ q * 4 - x \in Int
  BY <1>1
<1> QED BY <1>2 DEF q

(* For every rectangle, clip region and surface: hcge_clip_rect leaves     *)
(* exactly the pixels inside all three, refuses exactly when there is      *)
(* none, and the widening to quadwords adds at most three columns.         *)
THEOREM ClippingIsExact ==
    ASSUME NEW clip \in Regions, NEW s \in Surfaces, NEW r \in Rectangles
    PROVE  LET d == Calls!Geo!Clipped(clip, s, r)
           IN  /\ Calls!Geo!Pixels(d) = Calls!Geo!Pixels(r)
                      \cap ((clip.x1..clip.x2) \X (clip.y1..clip.y2))
                      \cap ((0..s.w - 1) \X (0..s.h - 1))
               /\ Calls!Geo!NotEmpty(d) <=> Calls!Geo!Pixels(d) # {}
               /\ Calls!Geo!Pixels(d)
                      \subseteq Calls!Geo!Pixels(Calls!Geo!ClipQw(d))
               /\ Calls!Geo!ClipQw(d).w < d.w + 4
<1> DEFINE d == Calls!Geo!Clipped(clip, s, r)
           x == From(r.x, clip.x1)
           y == From(r.y, clip.y1)
           w == Until(r.x, r.w, clip.x2, s.w) - x
           h == Until(r.y, r.h, clip.y2, s.h) - y
<1>1. /\ r.x \in Int /\ r.y \in Int /\ r.w \in Nat \ {0} /\ r.h \in Nat \ {0}
      /\ clip.x1 \in Int /\ clip.y1 \in Int /\ clip.x2 \in Int
      /\ clip.y2 \in Int
      /\ s.w \in Nat /\ s.h \in Nat
  BY DEF Rectangles, Regions, Surfaces
<1>2. d = [x |-> x, y |-> y, w |-> w, h |-> h]
  BY DEF Calls!Geo!Clipped, Calls!Geo!Intersect, From, Until
<1>3. /\ x \in Int /\ w \in Int /\ (w > 0 <=> x..x + w - 1 # {})
      /\ x..x + w - 1 =
             (r.x..r.x + r.w - 1) \cap (clip.x1..clip.x2) \cap (0..s.w - 1)
  <2> DEFINE u == Until(r.x, r.w, clip.x2, s.w)
  <2>0. Extents(r.x, r.w, clip.x1, clip.x2, s.w)
    BY <1>1 DEF Extents
  <2>1. /\ x \in Int /\ u \in Int
        /\ x..u - 1 =
               (r.x..r.x + r.w - 1) \cap (clip.x1..clip.x2) \cap (0..s.w - 1)
    BY <2>0, LineIsClipped
  <2> HIDE DEF x, u
  <2>2. x \in Int /\ u \in Int
    BY <2>1
  <2>3. x + (u - x) - 1 = u - 1 /\ u - x \in Int
        /\ (u - x > 0 <=> x..u - 1 # {})
    BY <2>2
  <2> QED BY <2>1, <2>3 DEF u
<1>4. /\ y \in Int /\ h \in Int /\ (h > 0 <=> y..y + h - 1 # {})
      /\ y..y + h - 1 =
             (r.y..r.y + r.h - 1) \cap (clip.y1..clip.y2) \cap (0..s.h - 1)
  <2> DEFINE u == Until(r.y, r.h, clip.y2, s.h)
  <2>0. Extents(r.y, r.h, clip.y1, clip.y2, s.h)
    BY <1>1 DEF Extents
  <2>1. /\ y \in Int /\ u \in Int
        /\ y..u - 1 =
               (r.y..r.y + r.h - 1) \cap (clip.y1..clip.y2) \cap (0..s.h - 1)
    BY <2>0, LineIsClipped
  <2> HIDE DEF y, u
  <2>2. y \in Int /\ u \in Int
    BY <2>1
  <2>3. y + (u - y) - 1 = u - 1 /\ u - y \in Int
        /\ (u - y > 0 <=> y..u - 1 # {})
    BY <2>2
  <2> QED BY <2>1, <2>3 DEF u
<1> HIDE DEF x, y, w, h
<1>5. Calls!Geo!Pixels(d) = (x..x + w - 1) \X (y..y + h - 1)
  BY <1>2 DEF Calls!Geo!Pixels
<1>6. Calls!Geo!Pixels(d) = Calls!Geo!Pixels(r)
          \cap ((clip.x1..clip.x2) \X (clip.y1..clip.y2))
          \cap ((0..s.w - 1) \X (0..s.h - 1))
  <2> DEFINE A == x..x + w - 1  A1 == r.x..r.x + r.w - 1  A2 == clip.x1..clip.x2
             A3 == 0..s.w - 1
             B == y..y + h - 1  B1 == r.y..r.y + r.h - 1  B2 == clip.y1..clip.y2
             B3 == 0..s.h - 1
  <2>1. A = A1 \cap A2 \cap A3 /\ B = B1 \cap B2 \cap B3
    BY <1>3, <1>4
  <2>2. Calls!Geo!Pixels(d) = A \X B /\ Calls!Geo!Pixels(r) = A1 \X B1
    BY <1>5 DEF Calls!Geo!Pixels
  <2> HIDE DEF A, A1, A2, A3, B, B1, B2, B3
  <2>3. A \X B = (A1 \X B1) \cap (A2 \X B2) \cap (A3 \X B3)
    BY <2>1
  <2> QED BY <2>2, <2>3 DEF A2, A3, B2, B3
<1>7. Calls!Geo!NotEmpty(d) <=> Calls!Geo!Pixels(d) # {}
  <2> DEFINE A == x..x + w - 1
             B == y..y + h - 1
  <2>1. Calls!Geo!NotEmpty(d) <=> w > 0 /\ h > 0
    BY <1>2 DEF Calls!Geo!NotEmpty
  <2>2. (w > 0 <=> A # {}) /\ (h > 0 <=> B # {}) /\ Calls!Geo!Pixels(d) = A \X B
    BY <1>3, <1>4, <1>5
  <2> HIDE DEF A, B
  <2>3. A \X B # {} <=> A # {} /\ B # {}
    <3>1. ASSUME NEW a \in A, NEW b \in B PROVE <<a, b>> \in A \X B
      OBVIOUS
    <3>2. ASSUME NEW p \in A \X B PROVE p[1] \in A /\ p[2] \in B
      OBVIOUS
    <3> QED BY <3>1, <3>2
  <2> QED BY <2>1, <2>2, <2>3
<1> DEFINE wide == ((x + w + 3) \div 4) * 4 - x
<1>8. wide \in Int /\ wide >= w /\ wide < w + 4
  BY <1>3, <1>4, WidenedLine
<1>9. Calls!Geo!ClipQw(d) = [x |-> x, y |-> y, w |-> wide, h |-> h]
  BY <1>2 DEF Calls!Geo!ClipQw
<1> HIDE DEF wide
<1>10. Calls!Geo!Pixels(d) \subseteq Calls!Geo!Pixels(Calls!Geo!ClipQw(d))
  <2>1. Calls!Geo!Pixels(Calls!Geo!ClipQw(d)) =
            (x..x + wide - 1) \X (y..y + h - 1)
    BY <1>9 DEF Calls!Geo!Pixels
  <2>2. x..x + w - 1 \subseteq x..x + wide - 1
    BY <1>3, <1>8
  <2> QED BY <1>5, <2>1, <2>2
<1>11. Calls!Geo!ClipQw(d).w < d.w + 4
  BY <1>2, <1>8, <1>9
<1> QED BY <1>6, <1>7, <1>10, <1>11
(* A part of a length, rounded down.                                       *)
Share(cut, of, len) == (cut * of) \div len

(* A part of a length is no less than nothing.                             *)
LEMMA ShareIsNat ==
    ASSUME NEW cut \in Nat, NEW of \in Nat, NEW len \in Nat \ {0}
    PROVE  Share(cut, of, len) \in Nat
<1> DEFINE p == cut * of
<1>1. p \in Nat
  OBVIOUS
<1> HIDE DEF p
<1>2. p \div len \in Nat
  BY <1>1
<1> QED BY <1>2 DEF p, Share

(* hcge_clip_stretch_blit reads only what the caller named, for every      *)
(* rectangle, clip region and surface and however the division rounds.     *)
THEOREM StretchReadsInside ==
    ASSUME NEW clip \in Regions, NEW s \in Surfaces, NEW dst \in Rectangles,
           NEW src \in Rectangles,
           Calls!Geo!NotEmpty(Calls!Geo!Clipped(clip, s, dst))
    PROVE  Calls!Geo!Pixels(Calls!Geo!ClipStretchSource(clip, s, src, dst))
               \subseteq Calls!Geo!Pixels(src)
<1> DEFINE d == Calls!Geo!Clipped(clip, s, dst)
           left == d.x - dst.x
           top == d.y - dst.y
           right == dst.x + dst.w - d.x - d.w
           bottom == dst.y + dst.h - d.y - d.h
           fl == Share(left, src.w, dst.w)
           fr == Share(right, src.w, dst.w)
           ft == Share(top, src.h, dst.h)
           fb == Share(bottom, src.h, dst.h)
           w == src.w - (fl + fr)
           h == src.h - (ft + fb)
           t == Calls!Geo!ClipStretchSource(clip, s, src, dst)
<1>1. left \in Nat /\ right \in Nat /\ top \in Nat /\ bottom \in Nat
  BY DEF Rectangles, Regions, Surfaces, Calls!Geo!NotEmpty, Calls!Geo!Clipped,
         Calls!Geo!Intersect, Calls!Geo!Most, Calls!Geo!Least
<1>2. /\ src.x \in Int /\ src.y \in Int /\ src.w \in Nat \ {0}
      /\ src.h \in Nat \ {0} /\ dst.w \in Nat \ {0} /\ dst.h \in Nat \ {0}
  BY DEF Rectangles
<1>3. t = [x |-> src.x + fl, y |-> src.y + ft,
           w |-> IF left + right # 0 /\ w > 0 THEN w - 1 ELSE w, h |-> h]
  BY DEF Calls!Geo!ClipStretchSource, Share
<1> HIDE DEF left, right, top, bottom, d
<1>4. fl \in Nat /\ fr \in Nat /\ ft \in Nat /\ fb \in Nat
  BY <1>1, <1>2, ShareIsNat
<1> HIDE DEF fl, fr, ft, fb, t
<1>5. /\ t.x >= src.x /\ t.x + t.w <= src.x + src.w
      /\ t.y >= src.y /\ t.y + t.h <= src.y + src.h
      /\ t.x \in Int /\ t.y \in Int /\ t.w \in Int /\ t.h \in Int
  BY <1>2, <1>3, <1>4
<1>6. /\ t.x..t.x + t.w - 1 \subseteq src.x..src.x + src.w - 1
      /\ t.y..t.y + t.h - 1 \subseteq src.y..src.y + src.h - 1
  BY <1>2, <1>5
<1>7. Calls!Geo!Pixels(t) \subseteq Calls!Geo!Pixels(src)
  BY <1>6 DEF Calls!Geo!Pixels
<1> QED BY <1>7 DEF t

(* Multiplication keeps the order.                                         *)
LEMMA TimesKeepsOrder ==
    ASSUME NEW a \in Nat, NEW b \in Nat, NEW c \in Nat, a <= b
    PROVE  a * c <= b * c /\ a * c \in Nat /\ b * c \in Nat
<1>1. PICK k \in Nat : b = a + k
  <2>1. b - a \in Nat /\ b = a + (b - a)
    OBVIOUS
  <2> QED BY <2>1
<1>2. k * c \in Nat /\ a * c \in Nat
  OBVIOUS
<1>3. b * c = a * c + k * c
  BY <1>1
<1> QED BY <1>2, <1>3

(* For every rectangle, clip region and surface whose pitch holds a line:  *)
(* no byte of what hcge_clip_rect leaves is outside the surface's memory.  *)
THEOREM BytesStayInside ==
    ASSUME NEW clip \in Regions, NEW s \in Surfaces, NEW r \in Rectangles,
           s.pitch >= s.w * s.bytes,
           Calls!Geo!NotEmpty(Calls!Geo!Clipped(clip, s, r))
    PROVE  LET d == Calls!Geo!Clipped(clip, s, r)
           IN  Calls!Geo!RectBytes(
                   Calls!Geo!SurfaceOffset(s, d.x, d.y), s, d.w, d.h)
                   \subseteq Calls!Geo!SurfaceBytes(s)
<1> DEFINE d == Calls!Geo!Clipped(clip, s, r)
           x == d.x  y == d.y  w == d.w  h == d.h
           p == s.pitch  b == s.bytes  W == s.w  H == s.h  base == s.phys
<1>1. /\ x \in Nat /\ y \in Nat /\ w \in Nat /\ h \in Nat
      /\ x + w <= W /\ y + h <= H
  BY DEF Rectangles, Regions, Surfaces, Calls!Geo!NotEmpty, Calls!Geo!Clipped,
         Calls!Geo!Intersect, Calls!Geo!Most, Calls!Geo!Least
<1>2. p \in Nat /\ b \in Nat /\ W \in Nat /\ H \in Nat /\ base \in Nat
      /\ W * b <= p
  BY DEF Surfaces
<1>3. Calls!Geo!RectBytes(Calls!Geo!SurfaceOffset(s, d.x, d.y), s, d.w, d.h) =
        UNION {(base + y * p + x * b) + j * p
                  .. (base + y * p + x * b) + j * p + w * b - 1 :
                      j \in 0..h - 1}
  BY DEF Calls!Geo!RectBytes, Calls!Geo!SurfaceOffset
<1>4. Calls!Geo!SurfaceBytes(s) = base..base + H * p - 1
  BY DEF Calls!Geo!SurfaceBytes
<1> HIDE DEF d, x, y, w, h, p, b, W, H, base
<1>5. ASSUME NEW j \in 0..h - 1,
             NEW i \in (base + y * p + x * b) + j * p
                          .. (base + y * p + x * b) + j * p + w * b - 1
      PROVE  i \in base..base + H * p - 1
  <2>1. y + j + 1 \in Nat /\ y + j + 1 <= H /\ x + w \in Nat
    BY <1>1, <1>2
  <2>2. (y + j + 1) * p <= H * p /\ H * p \in Nat
    BY <1>2, <2>1, TimesKeepsOrder
  <2>3. (x + w) * b <= W * b
    BY <1>1, <1>2, <2>1, TimesKeepsOrder
  <2>4. y * p \in Nat /\ j * p \in Nat /\ x * b \in Nat /\ w * b \in Nat
    BY <1>1, <1>2
  <2>5. (y + j + 1) * p = y * p + j * p + p /\ (x + w) * b = x * b + w * b
    BY <1>1, <1>2
  <2> DEFINE yp == y * p  jp == j * p  xb == x * b  wb == w * b  Hp == H * p
             Wb == W * b
  <2>6. i \in (base + yp + xb) + jp..(base + yp + xb) + jp + wb - 1
    OBVIOUS
  <2>7. yp + jp + p <= Hp /\ xb + wb <= Wb /\ Wb <= p
    BY <1>2, <2>2, <2>3, <2>5
  <2>8. Wb \in Int
    BY <1>2
  <2> HIDE DEF yp, jp, xb, wb, Hp, Wb
  <2>9. yp \in Nat /\ jp \in Nat /\ xb \in Nat /\ wb \in Nat /\ Hp \in Nat
    BY <2>2, <2>4 DEF yp, jp, xb, wb, Hp
  <2>10. i \in base..base + Hp - 1
    BY <1>2, <2>6, <2>7, <2>8, <2>9
  <2> QED BY <2>10 DEF Hp
<1>6. Calls!Geo!RectBytes(Calls!Geo!SurfaceOffset(s, d.x, d.y), s, d.w, d.h)
          \subseteq Calls!Geo!SurfaceBytes(s)
  BY <1>3, <1>4, <1>5
<1> QED BY <1>6 DEF d

(* For every counter, stamp, delay and threshold:                          *)
(* hc15xx_avsync_audio_check drops only sound whose time has passed and    *)
(* holds only sound whose time has not come, both beyond the threshold and *)
(* within the range a stamp is believed in, and the updates leave the      *)
(* counter within the threshold of the stamp.                              *)
THEOREM SyncIsRight ==
    ASSUME NEW stc \in Nat, NEW tick \in Nat, NEW delay \in Nat,
           NEW sync \in Nat, NEW valid \in Nat, NEW hold \in BOOLEAN,
           NEW modulus \in Nat \ {0}, NEW threshold \in Nat \ {0}
    PROVE  LET now == (stc + delay) % modulus
               verdict == Calls!Sync!AudioCheck(stc, tick, delay, sync, valid,
                                           hold, modulus)
               stamp == Calls!Sync!Delayed(tick, delay)
           IN  /\ verdict = "DROP" <=> tick + sync < now /\ now <= tick + valid
               /\ verdict = "HOLD"
                      <=> hold /\ now + sync < tick /\ tick <= now + valid
               /\ Calls!Sync!TickDistance(
                      Calls!Sync!AudioUpdate(stc, tick, delay, threshold),
                      stamp)
                          < threshold
               /\ Calls!Sync!TickDistance(
                      Calls!Sync!VideoUpdate(stc, tick, threshold), tick)
                          < threshold
<1> DEFINE now == (stc + delay) % modulus
           stamp == Calls!Sync!Delayed(tick, delay)
           verdict == Calls!Sync!AudioCheck(stc, tick, delay, sync, valid,
                                       hold, modulus)
<1>1. now \in Nat /\ stamp \in Nat
  BY DEF Calls!Sync!Delayed
<1>2. verdict = IF Calls!Sync!TickDistance(now, tick) > valid THEN "INVALID"
                ELSE IF now > tick /\ now - tick > sync THEN "DROP"
                ELSE IF tick > now /\ tick - now > sync
                     THEN (IF hold THEN "HOLD" ELSE "NORMAL")
                ELSE "NORMAL"
  BY DEF Calls!Sync!AudioCheck
<1> HIDE DEF now, verdict
<1>3. verdict = "DROP" <=> tick + sync < now /\ now <= tick + valid
  BY <1>1, <1>2 DEF Calls!Sync!TickDistance
<1>4. verdict = "HOLD" <=> hold /\ now + sync < tick /\ tick <= now + valid
  BY <1>1, <1>2 DEF Calls!Sync!TickDistance
<1>5. Calls!Sync!TickDistance(
          Calls!Sync!AudioUpdate(stc, tick, delay, threshold), stamp)
          < threshold
  <2>1. Calls!Sync!AudioUpdate(stc, tick, delay, threshold) =
            IF Calls!Sync!TickDistance(stc, stamp) >= threshold THEN stamp
            ELSE stc
    BY DEF Calls!Sync!AudioUpdate
  <2> HIDE DEF stamp
  <2> QED BY <1>1, <2>1 DEF Calls!Sync!TickDistance
<1>6. Calls!Sync!TickDistance(
          Calls!Sync!VideoUpdate(stc, tick, threshold), tick) < threshold
  BY DEF Calls!Sync!TickDistance, Calls!Sync!VideoUpdate
<1> QED BY <1>3, <1>4, <1>5, <1>6 DEF now, verdict


----------------------------------------------------------------------------
(* The two controller boards.                                              *)

(* The two tables name the same stock bit where the positions agree, and   *)
(* only there.                                                             *)
LEMMA TablesAgree ==
    ASSUME NEW p \in 0..13, NEW b \in 0..11
    PROVE  Calls!Pads!StockBitForShift[p + 2] =
               Calls!Pads!StockBitForButton[b + 1] <=> p = b
<1> DEFINE S(i) == Calls!Pads!StockBitForShift[i + 2]
           B(i) == Calls!Pads!StockBitForButton[i + 1]
<1>1. /\ B(0) = 11 /\ B(1) = 10 /\ B(2) = 12 /\ B(3) = 13 /\ B(4) = 14
      /\ B(5) = 0
      /\ B(6) = 3 /\ B(7) = 4 /\ B(8) = 6 /\ B(9) = 7 /\ B(10) = 5 /\ B(11) = 1
  BY DEF Calls!Pads!StockBitForButton
<1>2. /\ S(0) = 11 /\ S(1) = 10 /\ S(2) = 12 /\ S(3) = 13 /\ S(4) = 14
      /\ S(5) = 0
      /\ S(6) = 3 /\ S(7) = 4 /\ S(8) = 6 /\ S(9) = 7 /\ S(10) = 5 /\ S(11) = 1
      /\ S(12) = 2 /\ S(13) = 8
  BY DEF Calls!Pads!StockBitForShift
<1> HIDE DEF S, B
<1>3. p \in {0, 1, 2, 3, 4, 5, 6, 7, 8, 9, 10, 11, 12, 13}
      /\ b \in {0, 1, 2, 3, 4, 5, 6, 7, 8, 9, 10, 11}
  OBVIOUS
<1>4. S(p) = B(b) <=> p = b
  BY <1>1, <1>2, <1>3
<1> QED BY <1>4 DEF S, B

(* The shift register and the stock bits give the same buttons.            *)
LEMMA BoardsScanAlike ==
    ASSUME NEW levels \in SUBSET (0..13)
    PROVE  Calls!Pads!ScanButtons("stock-bits", {p + 1 : p \in levels})
               = Calls!Pads!ScanButtons("sf2000", levels)
<1> DEFINE raw1 ==
               {Calls!Pads!StockBitForShift[i + 1] :
                   i \in {p + 1 : p \in levels}}
<1>1. Calls!Pads!ScanButtons("stock-bits", {p + 1 : p \in levels})
          = {b \in 0..11 : Calls!Pads!StockBitForButton[b + 1] \in raw1}
  BY DEF Calls!Pads!ScanButtons, Calls!Pads!NormalizeStockBits,
         Calls!Pads!ScanStockBits
<1>2. Calls!Pads!ScanButtons("sf2000", levels) = levels \cap 0..11
  BY DEF Calls!Pads!ScanButtons, Calls!Pads!ScanSf2000
<1>3. \A v : v \in raw1 <=>
          \E p \in levels : v = Calls!Pads!StockBitForShift[p + 2]
  <2>1. \A p \in levels : (p + 1) + 1 = p + 2
    OBVIOUS
  <2> QED BY <2>1
<1> HIDE DEF raw1
<1>4. ASSUME NEW b \in 0..11
      PROVE  Calls!Pads!StockBitForButton[b + 1] \in raw1 <=> b \in levels
  <2>1. \A p \in levels : p \in 0..13
    OBVIOUS
  <2>2. \A p \in levels : Calls!Pads!StockBitForShift[p + 2]
                              = Calls!Pads!StockBitForButton[b + 1] <=> p = b
    BY <2>1, TablesAgree
  <2> QED BY <1>3, <2>2
<1> QED BY <1>1, <1>2, <1>4

(* What the inputs of the two controller calls are.                        *)
CallOK ==
    /\ call.f = "scan" => call.low \in SUBSET (0..13)
    /\ call.f = "detect" =>
           \E gb300 \in BOOLEAN, wrong \in {"none", "bus", "l27", "r07"} :
               call = [f |-> "detect", gb300 |-> gb300,
                       bus |-> IF wrong = "bus" THEN Calls!Touched
                               ELSE IF gb300 THEN Calls!Quiet ELSE Calls!Open,
                       l27 |-> IF wrong = "l27" THEN ~gb300 ELSE gb300,
                       r07 |-> IF wrong = "r07" THEN gb300 ELSE ~gb300]

(* A call is made once.                                                    *)
LEMMA CallSteps ==
    ASSUME [Calls!Next]_call, CallOK
    PROVE  CallOK'
<1>1. CASE Calls!CallScan
  BY <1>1 DEF Calls!CallScan, CallOK
<1>2. CASE Calls!CallDetect
  BY <1>2 DEF Calls!CallDetect, CallOK
<1>3. CASE UNCHANGED call
  BY <1>3 DEF CallOK
<1>4. ASSUME call'.f # "scan", call'.f # "detect" PROVE CallOK'
  BY <1>4 DEF CallOK
<1>5. CASE Calls!CallClip
  BY <1>4, <1>5 DEF Calls!CallClip
<1>6. CASE Calls!CallStretch
  BY <1>4, <1>6 DEF Calls!CallStretch
<1>7. CASE Calls!CallBounds
  BY <1>4, <1>7 DEF Calls!CallBounds
<1>8. CASE Calls!CallBorder
  BY <1>4, <1>8 DEF Calls!CallBorder
<1>9. CASE Calls!CallClean
  BY <1>4, <1>9 DEF Calls!CallClean
<1>10. CASE Calls!CallDraw
  BY <1>4, <1>10 DEF Calls!CallDraw
<1>11. CASE Calls!CallResample
  BY <1>4, <1>11 DEF Calls!CallResample
<1>12. CASE Calls!CallSample
  BY <1>4, <1>12 DEF Calls!CallSample
<1>13. CASE Calls!CallSync
  BY <1>4, <1>13 DEF Calls!CallSync
<1>14. CASE Calls!CallDivisor
  BY <1>4, <1>14 DEF Calls!CallDivisor
<1> QED BY <1>1, <1>2, <1>3, <1>5, <1>6, <1>7, <1>8, <1>9, <1>10, <1>11, <1>12,
           <1>13, <1>14 DEF Calls!Next

(* Two signs of the bus and one level outweigh the other level, and two    *)
(* levels the bus.                                                         *)
LEMMA SignsDecide ==
    ASSUME CallOK PROVE Calls!OneWrongSignIsForgiven
<1> SUFFICES ASSUME call.f = "detect"
             PROVE  Calls!Pads!DetectBoardProfile(call.bus.and, call.bus.or,
                                                  call.l27, call.r07)
                        = IF call.gb300 THEN "stock-bits" ELSE "sf2000"
  BY DEF Calls!OneWrongSignIsForgiven, Calls!Calls
<1>1. PICK gb300 \in BOOLEAN, wrong \in {"none", "bus", "l27", "r07"} :
               call = [f |-> "detect", gb300 |-> gb300,
                       bus |-> IF wrong = "bus" THEN Calls!Touched
                               ELSE IF gb300 THEN Calls!Quiet ELSE Calls!Open,
                       l27 |-> IF wrong = "l27" THEN ~gb300 ELSE gb300,
                       r07 |-> IF wrong = "r07" THEN gb300 ELSE ~gb300]
  BY DEF CallOK
<1> DEFINE bus == IF wrong = "bus" THEN Calls!Touched
                  ELSE IF gb300 THEN Calls!Quiet ELSE Calls!Open
           l27 == (IF wrong = "l27" THEN ~gb300 ELSE gb300)
           r07 == (IF wrong = "r07" THEN gb300 ELSE ~gb300)
           open == bus.and = Calls!Pads!Full /\ bus.or = Calls!Pads!Full
           quiet == bus.and = {} /\ bus.or = {}
           one(c) == IF c THEN 1 ELSE 0
           sf == 2 * one(open) + one(~l27) + one(r07)
           gb == 2 * one(quiet)
                 + one(~open /\ ~quiet /\ bus.or # Calls!Pads!Full)
                 + one(l27) + one(~r07)
<1>2. call.bus = bus /\ call.l27 = l27 /\ call.r07 = r07 /\ call.gb300 = gb300
  BY <1>1
<1>3. Calls!Pads!DetectBoardProfile(bus.and, bus.or, l27, r07) =
          Calls!Pads!Decided(sf, gb)
  BY DEF Calls!Pads!DetectBoardProfile
<1>4. /\ wrong # "bus" /\ gb300 => quiet /\ ~open
      /\ wrong # "bus" /\ ~gb300 => open /\ ~quiet
      /\ wrong = "bus" => ~open /\ ~quiet /\ bus.or # Calls!Pads!Full
  BY DEF Calls!Touched, Calls!Quiet, Calls!Open, Calls!Pads!Full
<1> HIDE DEF bus, open, quiet
<1>5. Calls!Pads!Decided(sf, gb) = IF gb300 THEN "stock-bits" ELSE "sf2000"
  BY <1>4 DEF Calls!Pads!Decided
<1> QED BY <1>2, <1>3, <1>5

CallsPart == part = "calls" => CallOK

(* Every state of the shift register and the stock bits leads to the same  *)
(* buttons on either board, and detect_board_profile decides right when    *)
(* one sign is wrong.                                                      *)
THEOREM BoardsAreRecognised == Spec => []ControllerMatchesReference
<1>1. Init => CallsPart
  <2>1. Calls!Init => CallOK
    BY DEF Calls!Init, Calls!Idle, CallOK
  <2> QED BY <2>1, PartStarts DEF CallsPart
<1>2. CallsPart /\ [Next]_vars => CallsPart'
  <2> SUFFICES ASSUME CallsPart, [Next]_vars, part' = "calls" PROVE CallOK'
    BY DEF CallsPart
  <2>1. CallOK /\ [Calls!Next]_call
    BY PartSteps DEF CallsPart
  <2> QED BY <2>1, CallSteps
<1>3. CallsPart => ControllerMatchesReference
  <2> SUFFICES ASSUME CallsPart, part = "calls"
               PROVE  Calls!BoardsAgree /\ Calls!OneWrongSignIsForgiven
    BY DEF ControllerMatchesReference
  <2>1. CallOK
    BY DEF CallsPart
  <2>2. Calls!BoardsAgree
    BY <2>1, BoardsScanAlike DEF CallOK, Calls!BoardsAgree, Calls!Calls
  <2> QED BY <2>1, <2>2, SignsDecide
<1> QED BY <1>1, <1>2, <1>3, PTL DEF Spec
=============================================================================
