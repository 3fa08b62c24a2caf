------------------------------- MODULE AvSync -------------------------------
(***************************************************************************)
(* System time counters and the decisions taken on them.  Ticks are        *)
(* unsigned numbers below Modulus (2^32), PerMs ticks make a millisecond.  *)
(***************************************************************************)
EXTENDS Integers

(* hc15xx_audio_ms_to_stc_tick and back; the largest tick is "not running". *)
MsToTick(ms, PerMs, Modulus) == (ms * PerMs) % Modulus
TickToMs(tick, PerMs, Modulus) == IF tick = Modulus - 1 THEN 0 ELSE tick \div PerMs

TickDistance(a, b) == IF a >= b THEN a - b ELSE b - a

(* hc15xx_avsync_audio_update: the counter after an audio time stamp. *)
Delayed(tick, delay) == IF tick > delay THEN tick - delay ELSE 0

AudioUpdate(stc, tick, delay, threshold) ==
    IF TickDistance(stc, Delayed(tick, delay)) >= threshold
    THEN Delayed(tick, delay) ELSE stc

VideoUpdate(stc, tick, threshold) ==
    IF TickDistance(stc, tick) >= threshold THEN tick ELSE stc

(* Slip: the two directions exchanged. *)
AudioCheckExchanged(stc, tick, delay, sync, valid, hold, Modulus) ==
    LET now == (stc + delay) % Modulus
    IN  IF TickDistance(now, tick) > valid THEN "INVALID"
        ELSE IF tick > now /\ tick - now > sync THEN "DROP"
        ELSE IF now > tick /\ now - tick > sync THEN (IF hold THEN "HOLD" ELSE "NORMAL")
        ELSE "NORMAL"

(* hc15xx_avsync_audio_check *)
AudioCheck(stc, tick, delay, sync, valid, hold, Modulus) ==
    LET now == (stc + delay) % Modulus
    IN  IF TickDistance(now, tick) > valid THEN "INVALID"
        ELSE IF now > tick /\ now - tick > sync THEN "DROP"
        ELSE IF tick > now /\ tick - now > sync THEN (IF hold THEN "HOLD" ELSE "NORMAL")
        ELSE "NORMAL"
-----------------------------------------------------------------------------
(* The counters' registers.  Both pause bits and the first divisor share one
   word, so every change is a read-modify-write of it: [run, div0, div1] with
   run the counters whose bit is set. *)

(* Slip: the divisor is written without the upper half of the word. *)
SetDivisorWhole(r, id, divisor) ==
    IF id = 1 THEN [r EXCEPT !.div1 = divisor]
    ELSE [r EXCEPT !.div0 = divisor, !.run = {}]

SetDivisor(r, id, divisor) ==
    IF id = 1 THEN [r EXCEPT !.div1 = divisor] ELSE [r EXCEPT !.div0 = divisor]

PauseStc(r, id, resume) ==
    [r EXCEPT !.run = IF resume THEN @ \cup {id} ELSE @ \ {id}]
=============================================================================
