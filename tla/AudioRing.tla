----------------------------- MODULE AudioRing -----------------------------
(***************************************************************************)
(* The playback ring of SND0.  Software publishes a producer cursor in the *)
(* low half of a register, the hardware moves the consumer cursor in the   *)
(* high half; equal cursors mean empty, so a full ring is published short  *)
(* of a guard and its tail later.  Cursors are in 16-byte units.  The      *)
(* hardware is external: it plays up to the published cursor, and an empty *)
(* ring clears the run bit, a decision new data may be too late to stop.   *)
(* The library runs in a writer and in an interrupt or timer handler, which*)
(* preempts the writer between any two register accesses.                  *)
(***************************************************************************)
EXTENDS Integers

CONSTANTS Units,    \* ring_bytes / 16
          Guard,    \* HC15XX_AUDIO_RING_GUARD / 16
          Speed     \* units played at most while set_target runs

VARIABLES ready,              \* configure_ring has been called since the last stop
          started,
          target, published,  \* fields of struct hc15xx_audio
          low, consumer,      \* SND(0x38)
          run, dry,           \* SND(0x04) bit 16; the hardware has seen empty
          fill,               \* units written and not yet played (history)
          wpc, wread, wpub, appl,   \* the writer in set_target
          moved,              \* units played since it read the consumer
          ipc, iread,         \* the handler in service_ring
          wback, iback,       \* the high half each has read and will write back
          stale               \* the last write of the register stored another
                              \* cursor than the published one (history)

library == <<ready, started, target, published>>
hardware == <<low, consumer, run, dry>>
writer == <<wpc, wread, wpub, appl, wback>>
handler == <<ipc, iread, iback>>
vars == <<library, hardware, fill, moved, stale, writer, handler>>

(* The ring is larger than the guard, and no call of set_target lasts so long
   that the hardware plays all the rest of it. *)
AudioAssumption ==
    Units \in Nat /\ Guard \in 1..Units - 1 /\ Speed \in 0..Units - Guard

Cursor == 0..Units - 1

Init ==
    /\ ready = FALSE /\ started = FALSE
    /\ target = 0 /\ published = 0 /\ low = 0 /\ consumer = 0
    /\ run = FALSE /\ dry = FALSE /\ fill = 0
    /\ wpc = "idle" /\ wread = 0 /\ wpub = 0 /\ appl = 0 /\ moved = 0
    /\ ipc = "idle" /\ iread = 0
    /\ wback = 0 /\ iback = 0 /\ stale = FALSE

(* The writer has the processor. *)
WriterRuns(at) == wpc = at /\ ipc = "idle"

(* hc15xx_audio_configure_ring and _configure_output *)
Configure ==
    /\ WriterRuns("idle") /\ ~started /\ ~ready
    /\ ready' = TRUE
    /\ target' = 0 /\ published' = 0 /\ low' = 0 /\ consumer' = 0
    /\ appl' = 0 /\ fill' = 0 /\ stale' = FALSE
    /\ UNCHANGED <<moved, started, run, dry, wpc, wread, wpub, wback, handler>>

(* hc15xx_audio_stop: the cursors are cleared, target and published are not;
   a stream is configured again before it is started. *)
Stop ==
    /\ WriterRuns("idle") /\ started
    /\ started' = FALSE /\ ready' = FALSE
    /\ run' = FALSE /\ dry' = FALSE /\ low' = 0 /\ consumer' = 0
    /\ appl' = 0 /\ fill' = 0 /\ stale' = FALSE
    /\ UNCHANGED <<moved, target, published, wpc, wread, wpub, wback, handler>>
-----------------------------------------------------------------------------
(* hc15xx_audio_service_ring with the consumer c it has read: the deferred tail
   is published once the consumer has moved, then the run bit is set. *)

(* Slip: the tail is published whether or not the consumer has moved. *)
PublishesTailEagerly(c) == published # target

PublishesTail(c) == published # target /\ c # target

(* Slip: the end of the data is compared, which a full ring has where it began. *)
ArmsByTarget(c) == target # c

Arms(c) == published # c

(* update(SND(0x38), 0xffff, x) ends with one write of both halves.  The
   consumer read before it goes back to the register with the cursor x; either
   the hardware takes it, and plays again what it played since, or its own
   cursor stands. *)
Behind(back) == (consumer - back) % Units

WriteBack(x, back) ==
    /\ low' = x
    /\ stale' = (x # published)
    /\ \/ UNCHANGED <<consumer, fill, moved>>
       \/ /\ consumer' = back /\ fill' = fill + Behind(back)
          /\ moved' = IF moved >= Behind(back) THEN moved - Behind(back) ELSE 0
    /\ UNCHANGED <<ready, started, target, published, run, dry>>

Arm(c) ==
    /\ run' = (run \/ Arms(c))
    /\ UNCHANGED <<library, low, consumer, dry, fill, stale>>

(* hc15xx_audio_start ends with a service of the ring. *)
Start ==
    /\ WriterRuns("idle") /\ ready /\ ~started
    /\ started' = TRUE
    /\ wpc' = "service"
    /\ UNCHANGED <<moved, ready, target, published, hardware, fill, stale, wread,
                   wpub, appl, wback, handler>>
-----------------------------------------------------------------------------
(* hc15xx_audio_set_target after n units were written to the ring. *)

Write(n) ==
    /\ WriterRuns("idle") /\ ready /\ fill + n <= Units
    /\ fill' = fill + n
    /\ appl' = (appl + n) % Units
    /\ wpc' = "read"
    /\ UNCHANGED <<moved, library, hardware, stale, wread, wpub, wback, handler>>

(* Slip: one unit too many. *)
PublishedBeyond(c) == (appl + 1) % Units

(* What is published for a consumer at c; there is always data pending. *)
Published(c) == IF appl = c THEN (appl + Units - Guard) % Units ELSE appl

ReadConsumer ==
    /\ WriterRuns("read")
    /\ wpub' = Published(consumer)
    /\ moved' = 0
    /\ wpc' = "store"
    /\ UNCHANGED <<library, hardware, fill, stale, wread, appl, wback, handler>>

StoreTarget ==
    /\ WriterRuns("store")
    /\ target' = appl
    /\ wpc' = "publish"
    /\ UNCHANGED <<moved, ready, started, published, hardware, fill, stale, wread,
                   wpub, appl, wback, handler>>

StorePublished ==
    /\ WriterRuns("publish")
    /\ published' = wpub
    /\ wpc' = "fetch"
    /\ UNCHANGED <<moved, ready, started, target, hardware, fill, stale, wread,
                   wpub, appl, wback, handler>>

(* update() has the cursor as its argument and reads the register. *)
FetchRegister ==
    /\ WriterRuns("fetch")
    /\ wpub' = published /\ wback' = consumer
    /\ wpc' = "register"
    /\ UNCHANGED <<moved, library, hardware, fill, stale, wread, appl, handler>>

WriteRegister ==
    /\ WriterRuns("register")
    /\ WriteBack(wpub, wback)
    /\ wpc' = "service"
    /\ UNCHANGED <<wread, wpub, appl, wback, handler>>

WriterReads ==
    /\ WriterRuns("service")
    /\ wread' = consumer
    /\ wpc' = "apply"
    /\ UNCHANGED <<moved, library, hardware, fill, stale, wpub, appl, wback, handler>>

WriterPublishes ==
    /\ WriterRuns("apply")
    /\ IF PublishesTail(wread)
       THEN published' = target /\ wback' = consumer /\ wpc' = "tail"
       ELSE wpc' = "arm" /\ UNCHANGED <<published, wback>>
    /\ UNCHANGED <<moved, ready, started, target, hardware, fill, stale, wread,
                   wpub, appl, handler>>

WriterWritesTail ==
    /\ WriterRuns("tail")
    /\ WriteBack(published, wback)
    /\ wpc' = "arm"
    /\ UNCHANGED <<wread, wpub, appl, wback, handler>>

WriterArms ==
    /\ WriterRuns("arm")
    /\ Arm(wread)
    /\ wpc' = "idle" /\ wread' = 0 /\ wpub' = 0 /\ wback' = 0 /\ moved' = 0
    /\ UNCHANGED <<appl, handler>>
-----------------------------------------------------------------------------
(* The interrupt or poll timer: ack_irq, then service_ring. *)

HandlerReads ==
    /\ ipc = "idle" /\ started
    /\ iread' = consumer
    /\ ipc' = "apply"
    /\ UNCHANGED <<moved, library, hardware, fill, stale, writer, iback>>

HandlerPublishes ==
    /\ ipc = "apply"
    /\ IF PublishesTail(iread)
       THEN published' = target /\ iback' = consumer /\ ipc' = "tail"
       ELSE ipc' = "arm" /\ UNCHANGED <<published, iback>>
    /\ UNCHANGED <<moved, ready, started, target, hardware, fill, stale, writer, iread>>

HandlerWritesTail ==
    /\ ipc = "tail"
    /\ WriteBack(published, iback)
    /\ ipc' = "arm"
    /\ UNCHANGED <<writer, iread, iback>>

HandlerArms ==
    /\ ipc = "arm"
    /\ Arm(iread)
    /\ ipc' = "idle" /\ iread' = 0 /\ iback' = 0
    /\ UNCHANGED <<moved, writer>>

HandlerServices == HandlerPublishes \/ HandlerWritesTail \/ HandlerArms
-----------------------------------------------------------------------------
(* The hardware *)

Play ==
    /\ started /\ run /\ ~dry /\ consumer # low
    /\ IF wpc \in {"store", "publish", "fetch", "register"}
       THEN moved < Speed /\ moved' = moved + 1
       ELSE UNCHANGED moved
    /\ consumer' = (consumer + 1) % Units
    /\ fill' = fill - 1
    /\ UNCHANGED <<library, low, run, dry, stale, writer, handler>>

SeesEmpty ==
    /\ started /\ run /\ ~dry /\ consumer = low
    /\ dry' = TRUE
    /\ UNCHANGED <<moved, library, low, consumer, run, fill, stale, writer, handler>>

RunsDry ==
    /\ dry
    /\ dry' = FALSE /\ run' = FALSE
    /\ UNCHANGED <<moved, library, low, consumer, fill, stale, writer, handler>>

SetTarget ==
    \/ ReadConsumer \/ StoreTarget \/ StorePublished
    \/ FetchRegister \/ WriteRegister
    \/ WriterReads \/ WriterPublishes \/ WriterWritesTail \/ WriterArms

Writer ==
    \/ Configure \/ Start \/ Stop
    \/ \E n \in 1..Units : Write(n)
    \/ SetTarget

Handler == HandlerReads \/ HandlerServices

Hardware == Play \/ SeesEmpty \/ RunsDry

Next == Writer \/ Handler \/ Hardware

(* The hardware plays while it may, and the poll timer fires again and again;
   set_target runs to its end.  Nothing is assumed of the application. *)
Fairness ==
    /\ WF_vars(Hardware)
    /\ WF_vars(HandlerReads) /\ WF_vars(HandlerServices)
    /\ SF_vars(SetTarget)

Spec == Init /\ [][Next]_vars /\ Fairness
-----------------------------------------------------------------------------
Ahead == (low - consumer) % Units

(* The hardware never plays what was not written: the units between its cursor
   and the published one are written ones, at every step of set_target, with
   the handler and the hardware anywhere in between. *)
PlaysOnlyWritten == Ahead <= fill

(* A full ring is not taken for an empty one: when a call of set_target is over,
   written data is never hidden from the hardware, except for a tail that the
   next service will publish. *)
NothingHidden ==
    wpc = "idle" /\ ipc = "idle" /\ started /\ fill > 0
        => Ahead > 0 \/ PublishesTail(consumer)

(* The same, for an adapter whose handler has not published a tail between the
   two halves of the writer's update of the register. *)
NothingElseHidden == ~stale => NothingHidden

(* Playback does not stall with data in the ring: a tail is not left behind the
   guard for ever, and a run bit the hardware clears just after a publication
   is set again. *)
PlaybackGoesOn ==
    <>[](started /\ fill > 0 /\ ~stale) => []<><<fill' < fill>>_vars
=============================================================================
