------------------------------- MODULE Efuse -------------------------------
(***************************************************************************)
(* One-time programmable fuses.  A write reads the fuses first and pulses  *)
(* only those that are asked for and not yet blown.  The controller blows  *)
(* the requested fuses one by one and may stop with an error, or be busy   *)
(* for longer than a call polls; what is blown stays blown.  A register    *)
(* access is a step, so the controller works between any two of them.      *)
(***************************************************************************)
EXTENDS Naturals, FiniteSets

CONSTANTS Bits,       \* number of fuses, HC15XX_EFUSE_DATA_BYTES * 8
          MaxCalls    \* bound on the calls of a behaviour

VARIABLES fuses,      \* blown fuses
          mode,       \* EFUSE_CTRL mode
          loading,    \* fuses the controller is still to blow
          error,      \* EFUSE_STATUS error bits
          pc,         \* the call: idle mode read clear ready load poll
          data,       \* fuses the call asks for
          current,    \* fuses it has read
          asked,      \* everything ever asked for (history)
          pulsed,     \* fuses that were pulsed when already blown (history)
          calls

controller == <<fuses, mode, loading, error, pulsed>>
vars == <<controller, pc, data, current, asked, calls>>

Fuse == 0..Bits - 1
Busy == loading # {}

Init ==
    /\ fuses \in SUBSET {0} /\ mode = "none" /\ loading = {} /\ error = FALSE
    /\ pc = "idle" /\ data = {} /\ current = {}
    /\ asked = {} /\ pulsed = {} /\ calls = 0

(* Slip: the offset is lost, the bits land at the bottom. *)
PlacedAtZero(offset, bits) == bits

(* hc15xx_efuse_bits_write: where the bits of the argument land. *)
Placed(offset, bits) == {offset + b : b \in bits}

(* hc15xx_efuse_bits_write; hc15xx_efuse_write is the call with offset 0.  The
   first bit is a fuse, so the sum is far below 2^32, where the code's unsigned
   addition would wrap. *)
Call(offset, count) ==
    /\ pc = "idle" /\ calls < MaxCalls
    /\ offset + count <= Bits
    /\ \E bits \in SUBSET (0..count - 1) :
          /\ data' = Placed(offset, bits)
          /\ asked' = asked \cup {offset + b : b \in bits}
    /\ pc' = "mode" /\ calls' = calls + 1
    /\ UNCHANGED <<controller, current>>

(* efuse_setup_read *)
SetMode ==
    /\ pc = "mode"
    /\ mode' = "read" /\ pc' = "poll_read"
    /\ UNCHANGED <<fuses, loading, error, pulsed, data, current, asked, calls>>

(* efuse_poll_ready: ready, or -16 after its limit. *)
Ready(at, next) ==
    /\ pc = at
    /\ pc' = IF Busy THEN "idle" ELSE next
    /\ UNCHANGED <<controller, data, current, asked, calls>>

ReadWords ==
    /\ pc = "read"
    /\ current' = fuses
    /\ pc' = "clear"
    /\ UNCHANGED <<controller, data, asked, calls>>

(* Slip: every requested fuse is pulsed. *)
MissingAll == data

(* new_word & ~cur_word *)
Missing == data \ current

(* efuse_clear_status, then the comparison of hc15xx_efuse_write. *)
ClearStatus ==
    /\ pc = "clear"
    /\ error' = FALSE
    /\ pc' = IF Missing = {} THEN "idle" ELSE "ready"
    /\ UNCHANGED <<fuses, mode, loading, pulsed, data, current, asked, calls>>

(* efuse_raw_write: data words, timing, then the write mode starts it. *)
Load ==
    /\ pc = "load"
    /\ mode' = "write" /\ loading' = Missing
    /\ pc' = "poll"
    /\ UNCHANGED <<fuses, error, pulsed, data, current, asked, calls>>

(* Slip: busy is looked at before the error bits. *)
PollResultBusyFirst == IF Busy THEN "timeout" ELSE "ok"

(* The result of a poll: the error bits are tested first. *)
PollResult == IF error THEN "error" ELSE IF Busy THEN "timeout" ELSE "ok"

Poll ==
    /\ pc = "poll"
    /\ pc' = IF PollResult = "ok" THEN "done" ELSE "idle"
    /\ UNCHANGED <<controller, data, current, asked, calls>>

(* The write has returned 0. *)
Return ==
    /\ pc = "done"
    /\ pc' = "idle"
    /\ UNCHANGED <<controller, data, current, asked, calls>>

Blow ==
    /\ Busy
    /\ \E f \in loading :
          /\ fuses' = fuses \cup {f}
          /\ pulsed' = IF f \in fuses THEN pulsed \cup {f} ELSE pulsed
          /\ loading' = loading \ {f}
    /\ UNCHANGED <<mode, error, pc, data, current, asked, calls>>

Fails ==
    /\ Busy
    /\ loading' = {} /\ error' = TRUE
    /\ UNCHANGED <<fuses, mode, pulsed, pc, data, current, asked, calls>>

Next ==
    \/ \E offset \in Fuse, count \in 0..Bits : Call(offset, count)
    \/ SetMode \/ Ready("poll_read", "read") \/ ReadWords \/ ClearStatus
    \/ Ready("ready", "load") \/ Load \/ Poll \/ Return
    \/ Blow \/ Fails

Spec == Init /\ [][Next]_vars
-----------------------------------------------------------------------------
(* No fuse is blown that nobody asked for, whatever failed or timed out. *)
OnlyAskedIsBlown == fuses \ asked \subseteq {0}

(* A blown fuse is never pulsed again: a retry after an error or a time-out
   reads what the earlier attempt has done. *)
NeverPulsedTwice == pulsed = {}

(* A call that returns 0 has blown everything it was asked for. *)
SuccessIsComplete == pc = "done" => data \subseteq fuses

(* The three together, over any sequence of calls. *)
EfuseDoesWhatWasAsked ==
    OnlyAskedIsBlown /\ NeverPulsedTwice /\ SuccessIsComplete
=============================================================================
