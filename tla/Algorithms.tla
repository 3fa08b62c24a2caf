----------------------------- MODULE Algorithms -----------------------------
(***************************************************************************)
(* Calls of the pure functions of the libraries over small inputs: what    *)
(* the graphics engine library makes of rectangles and effects, the        *)
(* resampler, the audio/video synchroniser and the two decoders of the     *)
(* controller service.  `call` holds the inputs of the call under way; the *)
(* properties compare the result with a reference definition.              *)
(***************************************************************************)
EXTENDS Integers, Sequences, FiniteSets, SequencesExt

VARIABLE call

Geo == INSTANCE GeGeometry
Nodes == INSTANCE GeNode
Rs == INSTANCE Resampler
Sync == INSTANCE AvSync
Pads == INSTANCE Pad WITH
    Buttons <- {}, NormalMs <- {}, StandbyMs <- {}, CheckScans <- 1,
    state <- {}, raw_prev <- {}, raw_count <- 0, poll_ms <- 0,
    normal_poll_ms <- 0, standby_check <- 0, user_config_loaded <- FALSE,
    held <- {}, standby <- 0, storage <- FALSE, stopping <- FALSE, run <- 0,
    last <- {}, slept <- FALSE

Calls(f) == call.f = f

----------------------------------------------------------------------------
(* Inputs *)

Rect(x, y, w, h) == [x |-> x, y |-> y, w |-> w, h |-> h]
Clip(x1, y1, x2, y2) == [x1 |-> x1, y1 |-> y1, x2 |-> x2, y2 |-> y2]
Surface == [w |-> 4, h |-> 3, phys |-> 16, pitch |-> 10, bytes |-> 2]
Clips == {Clip(0, 0, 3, 2), Clip(1, 1, 2, 1), Clip(2, 0, 2, 2), Clip(-1, -1, 5, 5)}
Field == 15

CallClip ==
    \E x \in -2 .. 4, y \in -1 .. 3, w \in 1 .. 4, h \in 1 .. 3, c \in Clips :
        call' = [f |-> "clip", r |-> Rect(x, y, w, h), clip |-> c]

CallStretch ==
    \E x \in -2 .. 3, w \in 1 .. 5, sx \in 0 .. 1, sw \in 1 .. 5, c \in Clips :
        call' = [f |-> "stretch", dst |-> Rect(x, x, w, w),
                 src |-> Rect(sx, sx, sw, sw), clip |-> c]

\* Matrices in halves: identity, moves, halving, doubling, a quarter turn, shear.
Matrices == {<<2, 0, 0, 0, 2, 0>>, <<2, 0, 3, 0, 2, -1>>, <<1, 0, 1, 0, 1, 1>>,
             <<4, 0, -2, 0, 4, -2>>, <<0, -2, 4, 2, 0, 0>>, <<2, 1, 0, 0, 2, 0>>,
             <<-2, 0, 7, 0, -2, 5>>}
CallBounds ==
    \E m \in Matrices, x, y \in 0 .. 2, w, h \in 1 .. 3 :
        call' = [f |-> "bounds", m |-> m, r |-> Rect(x, y, w, h)]

CallBorder ==
    \E w, h \in 1 .. 5 : call' = [f |-> "border", r |-> Rect(1, 2, w, h)]

CallClean ==
    \E x \in -1 .. 3, y \in 0 .. 2, w \in 0 .. 3, h \in 0 .. 2, bpp \in 1 .. 2 :
        call' = [f |-> "clean", r |-> Rect(x, y, w, h), bpp |-> bpp]

\* Effects that change a node's words, two that do not, and one no operation has.
Effects == {"SRC_MASK_ALPHA", "SRC_COLORKEY", "DST_COLORKEY", "CUST_DST_COLORKEY",
            "ROTATE90", "ROTATE180", "BLEND_ALPHACHANNEL", "XOR", "UNKNOWN"}
\* What a state or a call can have wrong: at most two things at once.
Flaws == {"blend", "mask", "keyOp", "plain", "srcFormat", "dstFormat",
          "srcMemory", "dstMemory", "inside", "maskInside"}
State(flags, wrong) ==
    [x \in Flaws \cup {"flags"} |-> IF x = "flags" THEN flags ELSE x \notin wrong]
CallDraw ==
    \E op \in {"fill", "blit", "stretch"}, flags \in SUBSET Effects,
       a, b \in Flaws \cup {"none"}, same \in BOOLEAN :
        call' = [f |-> "draw", op |-> op, same |-> same,
                 st |-> State(flags, {a, b})]

Frames == {<<-8, -8>>, <<7, 6>>, <<0, 1>>}
CallResample ==
    \E frames \in [1 .. 4 -> Frames], in, out \in {1, 2, 3, 5}, cut \in 0 .. 4 :
        call' = [f |-> "resample", frames |-> frames, in |-> in, out |-> out,
                 cut |-> cut]

CallSample ==
    \E prev, current \in {-8, -1, 0, 7}, in, out \in {1, 2, 7, 14, 15},
       phase \in 0 .. 14, i \in 0 .. 2 :
        /\ phase < in
        /\ call' = [f |-> "sample", prev |-> prev, current |-> current, in |-> in,
                    out |-> out, phase |-> phase, i |-> i]

CallSync ==
    \E stc, tick \in 0 .. 15, delay \in {0, 3}, hold \in BOOLEAN :
        call' = [f |-> "sync", stc |-> stc, tick |-> tick, delay |-> delay,
                 hold |-> hold]

CallDivisor ==
    \E id \in 0 .. 1, running \in SUBSET {0, 1} :
        call' = [f |-> "divisor", id |-> id, running |-> running]

CallScan == \E low \in SUBSET (0 .. 13) : call' = [f |-> "scan", low |-> low]

\* What the stock bus reads in all and in any of the scans: nothing drives it on
\* the one board, nothing is pressed on the other, or a button is touched.
Open == [and |-> 0 .. 15, or |-> 0 .. 15]
Quiet == [and |-> {}, or |-> {}]
Touched == [and |-> {}, or |-> {3}]
CallDetect ==
    \E gb300 \in BOOLEAN, wrong \in {"none", "bus", "l27", "r07"} :
        call' = [f |-> "detect", gb300 |-> gb300,
                 bus |-> IF wrong = "bus" THEN Touched
                         ELSE IF gb300 THEN Quiet ELSE Open,
                 l27 |-> IF wrong = "l27" THEN ~gb300 ELSE gb300,
                 r07 |-> IF wrong = "r07" THEN gb300 ELSE ~gb300]

Idle == [f |-> "none"]
Init == call = Idle
Next ==
    /\ call = Idle
    /\ \/ CallClip \/ CallStretch \/ CallBounds \/ CallBorder \/ CallClean
       \/ CallDraw \/ CallResample \/ CallSample \/ CallSync \/ CallDivisor
       \/ CallScan \/ CallDetect

Spec == Init /\ [][Next]_call

----------------------------------------------------------------------------
(* Graphics *)

ClipPixels(c) == (c.x1 .. c.x2) \X (c.y1 .. c.y2)
SurfacePixels == (0 .. Surface.w - 1) \X (0 .. Surface.h - 1)

\* hcge_clip_rect gives exactly the pixels of the rectangle that are inside both
\* the clip region and the surface, and hcge_clip_blit moves the source by the
\* same amount: every drawn pixel comes from the place it would have come from.
\* The bytes of what is left never leave the surface's memory, and the widening
\* to quadwords (hcge_clip_qw) only adds pixels on the right.
ClipIsIntersection ==
    Calls("clip") /\ Geo!SurfaceValid(Surface, Field) =>
        LET d == Geo!Clipped(call.clip, Surface, call.r)
            src == Rect(3, 5, call.r.w, call.r.h)
            s == Geo!ClipBlitSource(call.clip, Surface, src, call.r.x, call.r.y)
            want == Geo!Pixels(call.r) \cap ClipPixels(call.clip) \cap SurfacePixels
        IN  /\ Geo!NotEmpty(d) = (want # {})
            /\ Geo!NotEmpty(d) =>
                   /\ Geo!Pixels(d) = want
                   /\ <<s.x - d.x, s.y - d.y>> = <<3 - call.r.x, 5 - call.r.y>>
                   /\ Geo!RectangleInSurface(d, Surface, Field)
                   /\ Geo!RectBytes(Geo!SurfaceOffset(Surface, d.x, d.y),
                                    Surface, d.w, d.h)
                          \subseteq Geo!SurfaceBytes(Surface)
                   /\ Geo!Pixels(d) \subseteq Geo!Pixels(Geo!ClipQw(d))
                   /\ Geo!ClipQw(d).w < d.w + 4

\* The source of a clipped hcge_clip_stretch_blit never reaches outside the
\* source the caller named, however the division of the cut-off parts rounds.
StretchStaysInSource ==
    Calls("stretch") =>
        LET d == Geo!Clipped(call.clip, Surface, call.dst)
            s == Geo!ClipStretchSource(call.clip, Surface, call.src, call.dst)
        IN  Geo!NotEmpty(d) /\ Geo!NotEmpty(s)
                => Geo!Pixels(s) \subseteq Geo!Pixels(call.src)

\* hcge_get_bounding_rect returns a box inside the surface that has every
\* visible corner of the transformed rectangle.
BoundsHoldCorners ==
    Calls("bounds") /\ Geo!BoundsVisible(call.m, Surface, call.r) =>
        LET b == Geo!BoundingRect(call.m, Surface, call.r)
        IN  /\ Geo!Pixels(b) \subseteq SurfacePixels
            /\ \A i \in 1 .. 4 :
                   LET p == Geo!Moved(call.m, Geo!Corners(call.r)[i])
                       at == <<p[1] \div 2, p[2] \div 2>>
                   IN  at \in SurfacePixels => at \in Geo!Pixels(b)

\* hcge_draw_rect fills every border pixel once: with XOR or blending a pixel
\* filled twice would show.
BorderIsDrawnOnce ==
    Calls("border") =>
        LET e == Geo!Edges(call.r)
        IN  /\ UNION {Geo!Pixels(e[i]) : i \in DOMAIN e} = Geo!Border(call.r)
            /\ \A i, j \in DOMAIN e :
                   i # j => Geo!Pixels(e[i]) \cap Geo!Pixels(e[j]) = {}

\* hcge_linux_cache_clean_rect writes back every byte of the rectangle, and
\* nothing behind its last pixel.
CleanCoversRectangle ==
    Calls("clean") /\ Geo!CleanAccepted(call.r, Surface.pitch, call.bpp) =>
        LET c == Geo!CleanRange(call.r, Surface.pitch, call.bpp)
            bytes == UNION {(call.r.y + j) * Surface.pitch + call.r.x * call.bpp ..
                            (call.r.y + j) * Surface.pitch
                                + (call.r.x + call.r.w) * call.bpp - 1 :
                                j \in 0 .. call.r.h - 1}
        IN  /\ bytes \subseteq c.offset .. c.offset + c.bytes - 1
            /\ c.offset \in bytes /\ c.offset + c.bytes - 1 \in bytes

\* Every command that fill, blit and stretch write word by word is the one
\* hcge_node_build makes of the groups in its header, and fits the array it is
\* written to: one word too many or too few and the engine reads the rest of
\* the ring shifted.
NodeIsDecodable ==
    Calls("draw") /\ Nodes!OperationAccepts(call.op, call.st) =>
        LET node == Nodes!Node(call.op, call.st.flags, call.same)
        IN  Nodes!BuildNode(node.groups, {}, Nodes!ArraySize(call.op))
                = <<"HEADER">> \o node.words

\* hcge_check_state and the drawing calls agree: on surfaces and rectangles that
\* hcge_surface_valid and the rectangle checks let pass, what it grants is then
\* drawn, so a caller that asked first never loses a drawing silently, and what
\* would be drawn is granted, render options aside, which only it looks at.
Drawable(op, st) ==
    /\ st.inside /\ Nodes!DestinationValid(st)
    /\ op # "fill" => Nodes!SourceValid(st) /\ Nodes!MaskCovers(st)
GrantedIsAccepted ==
    Calls("draw") /\ Drawable(call.op, call.st) =>
        (Nodes!CheckState(call.op, call.st)
            <=> call.st.plain /\ Nodes!OperationAccepts(call.op, call.st))

----------------------------------------------------------------------------
(* Sound *)

Narrow == 15
Word == 256
Resampled(st, frames) == Rs!Process(st, frames, 30, Narrow, Word)

\* The resampler's output does not depend on how the input was cut into calls
\* of hc15xx_resampler_process_stereo_s16, and has the length the rates ask for.
ChunksDoNotMatter ==
    Calls("resample") =>
        LET st == Rs!NewState(call.in, call.out)
            whole == Resampled(st, call.frames)
            a == Resampled(st, SubSeq(call.frames, 1, call.cut))
            b == Resampled(a.st, SubSeq(call.frames, call.cut + 1, 4))
        IN  /\ a.made \o b.made = whole.made
            /\ b.st.phase = whole.st.phase
            /\ Len(whole.made) = 1 + (3 * call.out) \div call.in

\* The 32-bit path gives the samples of the wide one for every rate it is used
\* for: nothing wraps, and every output lies between its neighbours.
NarrowIsExact ==
    Calls("sample") =>
        LET st == [in |-> call.in, out |-> call.out, phase |-> call.phase,
                   prev |-> call.prev, have |-> TRUE]
            wide == Rs!WideSample(st, call.current, call.i)
        IN  call.i < Rs!Outputs(st) =>
                /\ Rs!NarrowSample(st, call.current, call.i, Word) = wide
                /\ \/ wide \in call.prev .. call.current
                   \/ wide \in call.current .. call.prev

\* hc15xx_avsync_audio_update and _video_update leave the counter within the
\* threshold of the stamp, and a time in milliseconds is read back as it was set;
\* hc15xx_avsync_audio_check drops only late sound and holds only
\* early sound, and believes no stamp that is far away.
SyncFollowsSound ==
    Calls("sync") =>
        LET stamp == Sync!Delayed(call.tick, call.delay)
            now == (call.stc + call.delay) % 16
            verdict == Sync!AudioCheck(call.stc, call.tick, call.delay, 2, 6,
                                       call.hold, 16)
        IN  /\ Sync!TickDistance(
                   Sync!AudioUpdate(call.stc, call.tick, call.delay, 3), stamp) < 3
            /\ Sync!TickDistance(
                   Sync!VideoUpdate(call.stc, call.tick, 3), call.tick) < 3
            /\ call.tick < 8 =>
                   Sync!TickToMs(Sync!MsToTick(call.tick, 2, 16), 2, 16) = call.tick
            /\ verdict = "DROP" => call.tick < now - 2 /\ call.tick >= now - 6
            /\ verdict = "HOLD" => call.tick > now + 2 /\ call.hold
            /\ now = call.tick => verdict = "NORMAL"

\* Both counters' run bits share the first divisor's word: setting a divisor
\* neither starts nor stops a counter, and resuming one counter only that one.
DivisorKeepsRunning ==
    Calls("divisor") =>
        LET r == [run |-> call.running, div0 |-> 1, div1 |-> 1]
            resumed == Sync!PauseStc(r, call.id, TRUE)
        IN  \A id \in 0 .. 1 :
                /\ Sync!SetDivisor(r, id, 5).run = call.running
                /\ Sync!SetDivisor(resumed, id, 5).run = call.running \cup {call.id}

----------------------------------------------------------------------------
(* Controller *)

\* The shift register of one board and the stock bits of the other lead to the
\* same button numbers: the first board's positions follow the second's dummy.
BoardsAgree ==
    Calls("scan") =>
        Pads!ScanButtons("stock-bits", {p + 1 : p \in call.low})
            = Pads!ScanButtons("sf2000", call.low)

\* detect_board_profile recognises either board although one of the two levels
\* is wrong or a button is held or released during its scans.
OneWrongSignIsForgiven ==
    Calls("detect") =>
        Pads!DetectBoardProfile(call.bus.and, call.bus.or, call.l27, call.r07)
            = IF call.gb300 THEN "stock-bits" ELSE "sf2000"
=============================================================================
