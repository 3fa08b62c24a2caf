---------------------------- MODULE RetainedRing ----------------------------
(***************************************************************************)
(* The retained progress ring: a header and N entries in uncached RAM that *)
(* survive a watchdog reset or a quick power cycle.  The loader, the       *)
(* kernel, a platform library, init and the screen write marks into it,    *)
(* each with its own copy of the code, and the loader of the next boot     *)
(* dumps what it finds.  The machine may stop between any two stores.      *)
(*                                                                         *)
(* The copies follow three disciplines:                                    *)
(*   "kernel"   loader and kernel: stamp the entry's sequence number, fill *)
(*              the payload, wrap the index eagerly, publish;              *)
(*   "library"  hc15xx_retained_mark: the same, payload first, stamp last; *)
(*   "lazy"     init, screen and reset-fastprobe: stamp first; the index   *)
(*              may rest at N and wraps at the next mark; a damaged header *)
(*              is wiped instead of the mark being dropped.                *)
(*                                                                         *)
(* A mark is its sequence number; the payload of mark s is the number s.   *)
(***************************************************************************)
EXTENDS Naturals

CONSTANTS
    N,              \* PROGRESS_ENTRIES
    Contexts,       \* marks that can be in progress at the same time
    MaxMarks        \* bound: marks since the ring was emptied

RingAssumption ==
    /\ N \in Nat \ {0}
    /\ Contexts # {}

VARIABLES
    magic,          \* "ok", "zero", or "junk" (also: wrong version)
    seq,            \* header: sequence number of the newest mark
    writeIndex,     \* header: slot of the next mark
    wrapped,        \* header: all slots are in use
    entries,        \* slot -> sequence number and payload (0: none or torn)
    boot,           \* "up", or where the loader is on its way there
    pc,             \* context -> next store of its mark
    style,          \* context -> discipline of the code that marks
    index,          \* context -> local variable index
    mySeq,          \* context -> local variable seq
    done,           \* history: marks completed since the ring was emptied
    spoilt          \* history: since then a mark began inside another one, or
                    \* an eager mark met an index that rested at N

header == <<magic, seq, writeIndex, wrapped>>
locals == <<pc, style, index, mySeq>>
vars == <<header, entries, boot, locals, done, spoilt>>

Slots == 0..(N - 1)
Everywhere(x) == [c \in Contexts |-> x]
Styles == {"kernel", "library", "lazy"}
Steps == {"idle", "adopt", "read", "stamp", "tear", "fill", "wrap",
           "publish", "seal"}
Filling == {"stamp", "tear", "fill", "wrap"}
Empty == [seq |-> 0, body |-> 0]

(* A copy about to store an entry has a slot of the ring to store it in. *)
StoresInRing == \A c \in Contexts : pc[c] \in Filling => index[c] \in Slots

(* Types; the index stays within the ring, N included, in the header and in
   the local variable of every copy of progress_mark, and no copy stores into
   a slot the ring does not have, however many of them run at once. *)
TypeOK ==
    /\ magic \in {"ok", "zero", "junk"}
    /\ seq \in Nat
    /\ writeIndex \in 0..N
    /\ wrapped \in {0, 1}
    /\ entries \in [Slots -> [seq : Nat, body : Nat]]
    /\ boot \in {"up", "header", "entries"}
    /\ pc \in [Contexts -> Steps]
    /\ style \in [Contexts -> Styles]
    /\ index \in [Contexts -> 0..N]
    /\ mySeq \in [Contexts -> Nat]
    /\ StoresInRing
    /\ done \in Nat
    /\ spoilt \in BOOLEAN

(* The state progress_reset leaves, with no mark in progress. *)
Init ==
    /\ magic = "ok"
    /\ seq = 0
    /\ writeIndex = 0
    /\ wrapped = 0
    /\ entries = [i \in Slots |-> Empty]
    /\ boot = "up"
    /\ pc = Everywhere("idle")
    /\ style = Everywhere("kernel")
    /\ index = Everywhere(0)
    /\ mySeq = Everywhere(0)
    /\ done = 0
    /\ spoilt = FALSE

Goto(c, step) == pc' = [pc EXCEPT ![c] = step]
-----------------------------------------------------------------------------
(* Making a mark *)

FullUnwrapped == writeIndex = N /\ wrapped = 0
Overlaps(c) == \E d \in Contexts \ {c} : pc[d] # "idle"

(* An eager mark on a damaged header returns without a store: no step. *)
MarkEager(c, k) ==
    /\ boot = "up" /\ pc[c] = "idle"
    /\ magic = "ok"
    /\ style' = [style EXCEPT ![c] = k]
    /\ spoilt' = (spoilt \/ Overlaps(c) \/ FullUnwrapped)
    /\ Goto(c, "read")
    /\ UNCHANGED <<header, entries, boot, index, mySeq, done>>

MarkLazy(c) ==
    /\ boot = "up" /\ pc[c] = "idle"
    /\ magic = "ok"
    /\ style' = [style EXCEPT ![c] = "lazy"]
    /\ spoilt' = (spoilt \/ Overlaps(c))
    /\ Goto(c, "read")
    /\ UNCHANGED <<header, entries, boot, index, mySeq, done>>

(* A lazy mark on a damaged header clears the whole log ... *)
MarkWipes(c) ==
    /\ boot = "up" /\ pc[c] = "idle"
    /\ magic # "ok"
    /\ magic' = "junk"
    /\ seq' = 0 /\ writeIndex' = 0 /\ wrapped' = 0
    /\ entries' = [i \in Slots |-> Empty]
    /\ done' = 0
    /\ spoilt' = Overlaps(c)
    /\ style' = [style EXCEPT ![c] = "lazy"]
    /\ Goto(c, "adopt")
    /\ UNCHANGED <<boot, index, mySeq>>

(* ... and makes it valid again. *)
MarkAdopts(c) ==
    /\ pc[c] = "adopt"
    /\ magic' = "ok"
    /\ Goto(c, "read")
    /\ UNCHANGED <<seq, writeIndex, wrapped, entries, boot, style, index,
                   mySeq, done, spoilt>>

(* Slip: the index is used as it is found. *)
FirstSlotUnchecked == writeIndex

FirstSlot == IF writeIndex >= N THEN 0 ELSE writeIndex

(* Slip: the lazy writers start over without saying so. *)
WrappedAtReadSilent(k) == wrapped

(* The bound of the instances. *)
Bounded == done < MaxMarks /\ seq < MaxMarks

(* Only the lazy writers set wrapped when they find the index at N. *)
WrappedAtRead(k) == IF k = "lazy" /\ writeIndex >= N THEN 1 ELSE wrapped

AfterRead(k) == IF k = "library" THEN "tear" ELSE "stamp"

Read(c) ==
    /\ pc[c] = "read" /\ Bounded
    /\ index' = [index EXCEPT ![c] = FirstSlot]
    /\ mySeq' = [mySeq EXCEPT ![c] = seq + 1]
    /\ wrapped' = WrappedAtRead(style[c])
    /\ Goto(c, AfterRead(style[c]))
    /\ UNCHANGED <<magic, seq, writeIndex, entries, boot, style, done, spoilt>>

AfterStamp(k) == IF k = "library" THEN "wrap" ELSE "tear"

Stamp(c) ==
    /\ pc[c] = "stamp"
    /\ entries' = [entries EXCEPT ![index[c]].seq = mySeq[c]]
    /\ Goto(c, AfterStamp(style[c]))
    /\ UNCHANGED <<header, boot, style, index, mySeq, done, spoilt>>

(* kind, value, pointer and name are several stores: torn until the last. *)
Tear(c) ==
    /\ pc[c] = "tear"
    /\ entries' = [entries EXCEPT ![index[c]].body = 0]
    /\ Goto(c, "fill")
    /\ UNCHANGED <<header, boot, style, index, mySeq, done, spoilt>>

AfterFill(k) == IF k = "library" THEN "stamp" ELSE "wrap"

Fill(c) ==
    /\ pc[c] = "fill"
    /\ entries' = [entries EXCEPT ![index[c]].body = mySeq[c]]
    /\ Goto(c, AfterFill(style[c]))
    /\ UNCHANGED <<header, boot, style, index, mySeq, done, spoilt>>

NextIndex(k, i) == IF k # "lazy" /\ i + 1 >= N THEN 0 ELSE i + 1

(* Slip: wrapped is set one slot before the last. *)
WrappedAfterEarly(k, i) == IF k # "lazy" /\ i + 2 >= N THEN 1 ELSE wrapped

WrappedAfter(k, i) == IF k # "lazy" /\ i + 1 >= N THEN 1 ELSE wrapped

Wrap(c) ==
    /\ pc[c] = "wrap"
    /\ wrapped' = WrappedAfter(style[c], index[c])
    /\ index' = [index EXCEPT ![c] = NextIndex(style[c], index[c])]
    /\ Goto(c, "publish")
    /\ UNCHANGED <<magic, seq, writeIndex, entries, boot, style, mySeq, done,
                   spoilt>>

Publish(c) ==
    /\ pc[c] = "publish"
    /\ writeIndex' = index[c]
    /\ Goto(c, "seal")
    /\ UNCHANGED <<magic, seq, wrapped, entries, boot, style, index, mySeq,
                   done, spoilt>>

(* The local variables end with the mark. *)
Seal(c) ==
    /\ pc[c] = "seal"
    /\ seq' = mySeq[c]
    /\ done' = done + 1
    /\ Goto(c, "idle")
    /\ style' = [style EXCEPT ![c] = "kernel"]
    /\ index' = [index EXCEPT ![c] = 0]
    /\ mySeq' = [mySeq EXCEPT ![c] = 0]
    /\ UNCHANGED <<magic, writeIndex, wrapped, entries, boot, spoilt>>
-----------------------------------------------------------------------------
(* Resets and damage *)

(* The machine stops, at any store, and the loader starts. *)
PowerCycle ==
    /\ boot' = "header"
    /\ pc' = Everywhere("idle")
    /\ style' = Everywhere("kernel")
    /\ index' = Everywhere(0)
    /\ mySeq' = Everywhere(0)
    /\ UNCHANGED <<header, entries, done, spoilt>>

(* The loader has dumped the ring and empties it, header first. *)
ResetHeader ==
    /\ boot = "header"
    /\ magic' = "ok"
    /\ seq' = 0 /\ writeIndex' = 0 /\ wrapped' = 0
    /\ done' = 0 /\ spoilt' = FALSE
    /\ boot' = "entries"
    /\ UNCHANGED <<entries, locals>>

ResetEntries ==
    /\ boot = "entries"
    /\ entries' = [i \in Slots |-> Empty]
    /\ boot' = "up"
    /\ UNCHANGED <<header, locals, done, spoilt>>

(* The first word of the ring is lost: cleared, or overwritten. *)
Damage ==
    /\ magic = "ok"
    /\ magic' \in {"zero", "junk"}
    /\ UNCHANGED <<seq, writeIndex, wrapped, entries, boot, locals, done,
                   spoilt>>

Mark(c) ==
    \/ \E k \in {"kernel", "library"} : MarkEager(c, k)
    \/ MarkLazy(c)
    \/ MarkWipes(c)
    \/ MarkAdopts(c)
    \/ Read(c)
    \/ Stamp(c)
    \/ Tear(c)
    \/ Fill(c)
    \/ Wrap(c)
    \/ Publish(c)
    \/ Seal(c)

Next ==
    \/ \E c \in Contexts : Mark(c)
    \/ PowerCycle
    \/ ResetHeader
    \/ ResetEntries
    \/ Damage

Spec == Init /\ [][Next]_vars
-----------------------------------------------------------------------------
(* The dump of the next boot, if the machine stopped here *)

HeaderUsable ==
    /\ seq # 0
    /\ writeIndex <= N
    /\ wrapped <= 1
    /\ magic \in {"ok", "zero"}

DumpEntries == N

InUse == IF wrapped = 1 THEN N ELSE writeIndex

Oldest == IF wrapped = 1 /\ writeIndex < N THEN writeIndex ELSE 0

Count == IF InUse > DumpEntries THEN DumpEntries ELSE InUse
Start == (Oldest + (InUse - Count)) % N

(* Line i of the dump.  Entries with sequence number 0 print nothing. *)
Line(i) == entries[(Start + i) % N]

Lines == {i \in 0..(Count - 1) : Line(i).seq # 0}
-----------------------------------------------------------------------------
(* Properties *)

(* The marks of this boot that no mark in progress can have overwritten. *)
Recent == {s \in 1..done : s + (N - 1) > done}

(* Wherever the machine stops, the next boot's dump shows each of the last
   N - 1 completed marks once, whole, and oldest first, whichever copies of
   the code wrote them (bootlog_dump_previous_progress against the store
   order of every progress_mark). *)
CrashKeepsRecentMarks ==
    (done > 0 /\ magic # "junk") =>
        /\ HeaderUsable
        /\ \A s \in Recent : \E i \in Lines : Line(i) = [seq |-> s, body |-> s]
        /\ \A i, j \in Lines :
               (i < j /\ {Line(i).seq, Line(j).seq} \subseteq Recent)
                   => Line(i).seq < Line(j).seq

(* With no mark in progress the dump is the newest marks and nothing else: as
   many as there are or fit, consecutive, whole, ending with the newest.  In
   particular nothing of an earlier boot, or from before a wipe, shows up. *)
RestingDumpIsExact ==
    (boot = "up" /\ magic = "ok" /\ \A c \in Contexts : pc[c] = "idle") =>
        /\ Count = IF done < N THEN done ELSE N
        /\ \A i \in 0..(Count - 1) :
               LET s == (done - Count) + i + 1
               IN  Line(i) = [seq |-> s, body |-> s]

(* The ring does what it is for, it carries the marks over a reset, as long as
   the writers kept out of each other's way since it was emptied; and even when
   they did not, nothing is stored or dumped outside of it. *)
RingSurvivesReset ==
    /\ TypeOK
    /\ ~spoilt => CrashKeepsRecentMarks /\ RestingDumpIsExact
=============================================================================
