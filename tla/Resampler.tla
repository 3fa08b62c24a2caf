----------------------------- MODULE Resampler -----------------------------
(***************************************************************************)
(* Conversion of interleaved stereo to mono at another rate by linear      *)
(* interpolation.  A state is [in, out, phase, prev, have]; a frame is     *)
(* <<left, right>>.  Narrow is the largest rate of the 32-bit code         *)
(* (UINT16_MAX) and Word its modulus (2^32), so that a small instance has  *)
(* the same relation between samples, rates and overflow.                  *)
(***************************************************************************)
EXTENDS Integers, Sequences, SequencesExt

(* C division rounds towards zero. *)
Quotient(a, b) == IF a < 0 THEN -((-a) \div b) ELSE a \div b

Mono(frame) == Quotient(frame[1] + frame[2], 2)

NewState(in, out) == [in |-> in, out |-> out, phase |-> 0, prev |-> 0, have |-> FALSE]

SetOutputRate(st, out) == [st EXCEPT !.out = out]

(* Samples between st.prev and current in the overflow-safe code. *)
WideSample(st, current, i) ==
    st.prev + Quotient((current - st.prev) * (st.in - st.phase + i * st.in), st.out)

(* Slip: the sign is not taken off before the multiplication. *)
NarrowSampleUnsigned(st, current, i, Word) ==
    LET fraction == (st.in - st.phase + i * st.in) % Word
        product == ((current - st.prev) * fraction) % Word
    IN  st.prev + product \div st.out

(* The same in 32-bit arithmetic: magnitude times fraction wraps. *)
NarrowSample(st, current, i, Word) ==
    LET delta == current - st.prev
        magnitude == IF delta < 0 THEN -delta ELSE delta
        fraction == (st.in - st.phase + i * st.in) % Word
        step == ((magnitude * fraction) % Word) \div st.out
    IN  st.prev + IF delta < 0 THEN -step ELSE step

(* Slip: the quotient is always 0 or 1. *)
OutputsAtMostOne(st) == IF st.phase + st.out >= st.in THEN 1 ELSE 0

(* How many outputs end before the next input. *)
Outputs(st) ==
    IF st.out <= st.in THEN (IF st.phase + st.out >= st.in THEN 1 ELSE 0)
    ELSE (st.phase + st.out) \div st.in

Advanced(st, current) ==
    [st EXCEPT !.phase = st.phase + st.out - Outputs(st) * st.in, !.prev = current]

(* One turn of the loop; r is [st, made, full].  A frame whose outputs do not
   fit ends the loop and is not consumed. *)
Turn(r, current, capacity, wide, Word) ==
    IF r.full THEN r
    ELSE IF ~r.st.have
    THEN IF Len(r.made) >= capacity THEN [r EXCEPT !.full = TRUE]
         ELSE [r EXCEPT !.st.prev = current, !.st.have = TRUE,
                        !.made = Append(r.made, current)]
    ELSE IF Outputs(r.st) > capacity - Len(r.made) THEN [r EXCEPT !.full = TRUE]
    ELSE [r EXCEPT !.st = Advanced(r.st, current),
                   !.made = @ \o [i \in 1..Outputs(r.st) |->
                         IF wide THEN WideSample(r.st, current, i - 1)
                         ELSE NarrowSample(r.st, current, i - 1, Word)]]

Loop(st, frames, capacity, wide, Word) ==
    FoldLeft(LAMBDA r, f : Turn(r, Mono(f), capacity, wide, Word),
             [st |-> st, made |-> <<>>, full |-> FALSE], frames)

(* Equal rates and no carried phase: copy. *)
CopyPath(st, frames, capacity) ==
    LET count == IF Len(frames) < capacity THEN Len(frames) ELSE capacity
        made == [i \in 1..count |-> Mono(frames[i])]
    IN  [st |-> IF count = 0 THEN st
                ELSE [st EXCEPT !.prev = made[count], !.have = TRUE],
         made |-> made, full |-> count < Len(frames)]

Process(st, frames, capacity, Narrow, Word) ==
    IF capacity = 0 THEN [st |-> st, made |-> <<>>, full |-> frames # <<>>]
    ELSE IF st.in = st.out /\ st.phase = 0 THEN CopyPath(st, frames, capacity)
    ELSE Loop(st, frames, capacity, st.in > Narrow \/ st.out > Narrow, Word)

Push(st, left, right, Narrow, Word) == Process(st, <<<<left, right>>>>, 1, Narrow, Word)
=============================================================================
