-------------------------------- MODULE Pad --------------------------------
(***************************************************************************)
(* The controller service.  A turn of its loop shifts the buttons out of   *)
(* the pad's register, confirms an edge by scanning once more, and sends   *)
(* key events for what changed.  While the display is in standby it scans  *)
(* at a low rate and believes a single scan.  A set of buttons stands for  *)
(* the bit mask of the code.                                               *)
(***************************************************************************)
EXTENDS Integers, Sequences, FiniteSets

CONSTANTS Buttons,       \* buttons that are pressed in the model
          NormalMs,      \* scan periods a configuration file may set (2..20)
          StandbyMs,     \* scan periods of standby (100..10000)
          CheckScans     \* normal scans between two looks at the marker

VARIABLES state,         \* buttons reported as pressed
          raw_prev, raw_count,
          poll_ms, normal_poll_ms, standby_check, user_config_loaded,
          held,          \* what a reader of the events believes
          standby,       \* the standby marker: 0, or the period it holds
          storage,       \* the card is mounted
          stopping,
          run,           \* equal scans in a row (at most 2), and the last one
          last,
          slept          \* the marker was there at the last look

vars == <<state, raw_prev, raw_count, poll_ms, normal_poll_ms, standby_check,
          user_config_loaded, held, standby, storage, stopping, run, last, slept>>

DebounceScans == 1

Init ==
    /\ state = {} /\ raw_prev = {} /\ raw_count = 0
    /\ normal_poll_ms \in NormalMs
    /\ poll_ms = normal_poll_ms
    /\ standby_check = 0
    /\ user_config_loaded = FALSE
    /\ held = {}
    /\ standby = 0
    /\ storage = FALSE
    /\ stopping = FALSE
    /\ run = 0 /\ last = {}
    /\ slept = FALSE
-----------------------------------------------------------------------------
Cap(n, m) == IF n < m THEN n ELSE m

(* What a turn makes of its scan and, at an edge in normal operation, of the
   second one. *)
Sampled(raw, second) ==
    IF raw = raw_prev THEN [raw |-> raw, count |-> Cap(raw_count + 1, 3)]
    ELSE IF poll_ms # normal_poll_ms THEN [raw |-> raw, count |-> 0]
    ELSE IF second = raw THEN [raw |-> raw, count |-> DebounceScans]
    ELSE [raw |-> second, count |-> 0]

Reports(s) ==
    /\ s.count >= (IF poll_ms = normal_poll_ms THEN DebounceScans ELSE 0)
    /\ s.raw # state

(* Slip: only presses are sent. *)
EmitPresses(from, to) == held \cup (to \ from)

(* emit_changes: one key event for every button that differs. *)
EmitChanges(from, to) == (held \ (from \ to)) \cup (to \ from)

(* poll_interval_ms: a marker out of range means the default period. *)
PollInterval(normal) == IF standby = 0 THEN normal ELSE standby

(* Slip: the running period is not replaced with the normal one. *)
NewPeriodKept(polled, old, new) == polled

NewPeriod(polled, old, new) == IF polled = old THEN new ELSE polled

(* The low-rate part of a turn: the marker, and the user's configuration once
   the card is mounted. *)
LookUp ==
    /\ standby_check' = 0
    /\ slept' = (standby # 0)
    /\ \E configured \in {normal_poll_ms} \cup NormalMs :
           IF ~user_config_loaded /\ storage
           THEN /\ user_config_loaded' = TRUE
                /\ normal_poll_ms' = configured
                /\ poll_ms' = NewPeriod(PollInterval(normal_poll_ms),
                                        normal_poll_ms, configured)
           ELSE /\ poll_ms' = PollInterval(normal_poll_ms)
                /\ UNCHANGED <<user_config_loaded, normal_poll_ms>>

(* One turn of the loop. *)
Turn ==
    /\ ~stopping
    /\ \E raw, second \in SUBSET Buttons :
           LET s == Sampled(raw, second)
               edge == raw # raw_prev /\ poll_ms = normal_poll_ms
               after == IF raw = last THEN Cap(run + 1, 2) ELSE 1
           IN  /\ ~edge => second = raw
               /\ raw_prev' = s.raw
               /\ raw_count' = s.count
               /\ IF Reports(s)
                  THEN held' = EmitChanges(state, s.raw) /\ state' = s.raw
                  ELSE UNCHANGED <<held, state>>
               /\ last' = second
               /\ run' = IF ~edge THEN after
                         ELSE IF second = raw THEN 2 ELSE 1
    /\ IF poll_ms # normal_poll_ms \/ standby_check + 1 >= CheckScans
       THEN LookUp
       ELSE /\ standby_check' = standby_check + 1
            /\ UNCHANGED <<slept, poll_ms, normal_poll_ms, user_config_loaded>>
    /\ UNCHANGED <<standby, storage, stopping>>

(* The other services *)
Standby ==
    /\ standby' \in ({0} \cup StandbyMs) \ {standby}
    /\ UNCHANGED <<state, raw_prev, raw_count, poll_ms, normal_poll_ms,
                   standby_check, user_config_loaded, held, storage, stopping,
                   run, last, slept>>

Mounted ==
    /\ ~storage
    /\ storage' = TRUE
    /\ UNCHANGED <<state, raw_prev, raw_count, poll_ms, normal_poll_ms,
                   standby_check, user_config_loaded, held, standby, stopping,
                   run, last, slept>>

HandleSignal ==
    /\ ~stopping
    /\ stopping' = TRUE
    /\ UNCHANGED <<state, raw_prev, raw_count, poll_ms, normal_poll_ms,
                   standby_check, user_config_loaded, held, standby, storage,
                   run, last, slept>>

Next == Turn \/ Standby \/ Mounted \/ HandleSignal

Spec == Init /\ [][Next]_vars
-----------------------------------------------------------------------------
(* Scanning and board detection *)

StockBitForButton == <<11, 10, 12, 13, 14, 0, 3, 4, 6, 7, 5, 1>>
StockBitForShift == <<15, 11, 10, 12, 13, 14, 0, 3, 4, 6, 7, 5, 1, 2, 8, 9>>

(* Slip: the table of the shift register without its leading dummy. *)
ScanStockBitsShifted(low) ==
    {StockBitForShift[((i + 1) % 16) + 1] : i \in low}

(* scan_stock_bits_raw: positions of the register that read low. *)
ScanStockBits(low) == {StockBitForShift[i + 1] : i \in low}

NormalizeStockBits(raw) ==
    {b \in 0..11 : StockBitForButton[b + 1] \in raw}

(* scan_sf2000: twelve positions, one per button in the table's order. *)
ScanSf2000(low) == low \cap 0..11

ScanButtons(profile, low) ==
    IF profile = "stock-bits" THEN NormalizeStockBits(ScanStockBits(low))
    ELSE ScanSf2000(low)

Full == 0..15

(* Slip: three signs more are asked for. *)
DecidedStrictly(sf, gb) ==
    IF gb >= 2 /\ gb >= sf + 3 THEN "stock-bits" ELSE "sf2000"

Decided(sf, gb) ==
    IF gb >= 2 /\ gb >= sf + 2 THEN "stock-bits" ELSE "sf2000"

(* detect_board_profile, for the bits all scans of the stock bus, and any of
   them, read as pressed and the levels of L27 and R07. *)
DetectBoardProfile(and, or, l27, r07) ==
    LET one(c) == IF c THEN 1 ELSE 0
        open == and = Full /\ or = Full
        quiet == and = {} /\ or = {}
        sf == 2 * one(open) + one(~l27) + one(r07)
        gb == 2 * one(quiet) + one(~open /\ ~quiet /\ or # Full)
              + one(l27) + one(~r07)
    IN  Decided(sf, gb)
-----------------------------------------------------------------------------
(* Once two scans in a row agree, the buttons they saw are the ones reported,
   and a reader of the events holds exactly those: no press is lost and no
   button stays down, across edges, standby and a changed scan period. *)
StableIsReported == /\ run = 2 => state = last
                    /\ held = state

(* Outside standby no single noisy scan changes what is reported. *)
ChangesAreConfirmed ==
    [][state' # state /\ ~slept => run' = 2 /\ last' = state']_vars
=============================================================================
