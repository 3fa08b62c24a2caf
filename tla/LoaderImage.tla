---------------------------- MODULE LoaderImage ----------------------------
(***************************************************************************)
(* The relocation of the embedded kernel by the boot loader: the ELF image *)
(* and the device tree lie in the loader's payload, the records of the ELF *)
(* are moved to their load addresses with cached stores, flushed, compared *)
(* with the payload through the uncached alias, repaired, and entered.     *)
(*                                                                         *)
(* A cell of memory stands for one word and one cache line; the content a  *)
(* cell has when the loader starts is named by its own address, 0 is the   *)
(* zero word and Stale what an earlier image left in the caches.  ram is   *)
(* what an uncached (KSEG1) access sees, dirty the lines of the data cache *)
(* that differ from it.  A record is [off, file, mem, addr], off counted   *)
(* from the start of the payload.                                          *)
(***************************************************************************)
EXTENDS Integers, Sequences, FiniteSetsExt

CONSTANTS Top,      \* first address above the RAM (RAM_TOP)
          Blob,     \* address of the payload (linux_vmlinux_start)
          BlobSize, \* length of the ELF image in it
          DtbSize,  \* length of the device tree that follows it
          Images    \* program headers to try: sequences of records

VARIABLES pc,      \* the next call of linux_loader_main_impl
          image,   \* program headers of the embedded ELF
          at,      \* index of the record being copied or compared
          ram, dirty,
          icache   \* addresses whose instruction line is an old one

(* The payload lies in the RAM, with room above it.  As copy_linux_elf says,
   the embedded ELF starts below its load addresses, and its LOAD records are
   in ascending address order: so are their parts of the file. *)
Records == [off : Nat, file : Nat, mem : Nat, addr : Nat]
LoaderAssumption ==
    /\ Top \in Nat /\ Blob \in Nat \ {0} /\ BlobSize \in Nat /\ DtbSize \in Nat
    /\ Blob + BlobSize + DtbSize < Top
    /\ \A img \in Images :
           /\ img \in Seq(Records)
           /\ \A k \in DOMAIN img : Blob + img[k].off <= img[k].addr
           /\ \A j, k \in DOMAIN img : j < k =>
                  /\ img[j].off + img[j].file <= img[k].off
                  /\ img[j].addr + img[j].mem <= img[k].addr

vars == <<pc, image, at, ram, dirty, icache>>

Addresses == 1..Top - 1
Stale == -1

Dtb == Blob + BlobSize
PayloadEnd == Dtb + DtbSize

-----------------------------------------------------------------------------
(* scan_linux_elf *)

BlobRangeValid(off, len) == off <= BlobSize /\ len <= BlobSize - off

RecordValid(r) ==
    /\ r.file <= r.mem
    /\ BlobRangeValid(r.off, r.file)
    /\ r.addr + r.mem <= Top

(* valid_elf and scan_linux_elf: the header cell comes first, and there is at
   least one LOAD record. *)
ScanAccepts == image # <<>> /\ \A i \in DOMAIN image : RecordValid(image[i])

LoadMin == Min({image[i].addr : i \in DOMAIN image} \cup {Top})

LoadMax == Max({image[i].addr + image[i].mem : i \in DOMAIN image} \cup {0})

(* Behind the kernel and behind the payload. *)
DtbDest == IF LoadMax > PayloadEnd THEN LoadMax ELSE PayloadEnd

(* Slip: the last word is left out. *)
LoadRangeShort == LoadMin .. LoadMax - 2

LoadRange == LoadMin .. LoadMax - 1
DtbRange == DtbDest .. DtbDest + DtbSize - 1
-----------------------------------------------------------------------------
(* Memory *)

(* What a cached (KSEG0) load sees, and all cells after cached stores. *)
Cached == [a \in Addresses |-> IF a \in DOMAIN dirty THEN dirty[a] ELSE ram[a]]
Only(f, S) == [a \in DOMAIN f \cap S |-> f[a]]
Stored(new) ==
    LET changed == DOMAIN dirty \cup {a \in Addresses : new[a] # Cached[a]}
    IN  [a \in changed |-> new[a]]

(* The words of a copy, one after the other in the order given: step n moves
   word order[n] within what the steps before it left. *)
Up(len) == [n \in 1..len |-> n - 1]
Down(len) == [n \in 1..len |-> len - n]
Move(m, dst, src, order, len) ==
    LET moved[n \in 0..len] ==
            IF n = 0 THEN m
            ELSE LET f == moved[n - 1]
                 IN  [f EXCEPT ![dst + order[n]] = f[src + order[n]]]
    IN  moved[len]

CopyForward(m, dst, src, len) == Move(m, dst, src, Up(len), len)

CopyOverlap(m, dst, src, len) ==
    IF dst <= src \/ dst >= src + len THEN CopyForward(m, dst, src, len)
    ELSE Move(m, dst, src, Down(len), len)

ZeroBytes(m, dst, len) ==
    [a \in DOMAIN m |-> IF a \in dst .. dst + len - 1 THEN 0 ELSE m[a]]

(* One record of copy_linux_elf, through the cached alias. *)
CopyRecord(m, r) ==
    ZeroBytes(CopyOverlap(m, r.addr, Blob + r.off, r.file),
              r.addr + r.file, r.mem - r.file)

(* verify_repair_range writes the source word wherever the two differ, from
   low to high, and so is a forward copy through the uncached alias. *)
VerifyRepairRange(m, dst, src, len) == Move(m, dst, src, Up(len), len)

VerifyRecord(m, r) ==
    ZeroBytes(VerifyRepairRange(m, r.addr, Blob + r.off, r.file),
              r.addr + r.file, r.mem - r.file)
-----------------------------------------------------------------------------
Init ==
    /\ pc = "scan"
    /\ image \in Images
    /\ at = 0
    /\ ram = [a \in Addresses |-> a]
    (* lines of the previous image, not of the loader that now runs *)
    /\ \E old \in {{}, PayloadEnd .. Top - 1, {PayloadEnd, Top - 1}} :
           /\ dirty = [a \in old |-> Stale]
           /\ icache = old

Goto(label) == pc' = label

(* loader_panic: the watchdog is left to reset the machine. *)
Refuse ==
    /\ pc = "scan"
    /\ ~ScanAccepts \/ DtbDest + DtbSize > Top
    /\ Goto("panic")
    /\ UNCHANGED <<image, at, ram, dirty, icache>>

Scan ==
    /\ pc = "scan"
    /\ ScanAccepts
    /\ DtbDest + DtbSize <= Top
    /\ Goto("sweep")
    /\ UNCHANGED <<image, at, ram, dirty, icache>>

(* cache_writeback_dcache_indices.  Whether the index operations reach every
   way is up to the hardware: any lines may stay. *)
Sweep ==
    /\ pc = "sweep"
    /\ \E stay \in {{}, DOMAIN dirty} :
           /\ ram' = [a \in Addresses |-> IF a \in stay THEN ram[a] ELSE Cached[a]]
           /\ dirty' = Only(dirty, stay)
    /\ Goto("copy_dtb")
    /\ UNCHANGED <<image, at, icache>>

CopyDtb ==
    /\ pc = "copy_dtb"
    /\ dirty' = Stored(CopyForward(Cached, DtbDest, Dtb, DtbSize))
    /\ Goto("copy")
    /\ at' = Len(image)
    /\ UNCHANGED <<image, ram, icache>>

(* Slip: the records are moved in ascending order. *)
NextToCopyAscending == Len(image) + 1 - at

(* copy_linux_elf walks the records backwards. *)
NextToCopy == at

CopyElf ==
    /\ pc = "copy"
    /\ dirty' = Stored(CopyRecord(Cached, image[NextToCopy]))
    /\ at' = at - 1
    /\ Goto(IF at = 1 THEN "flush" ELSE "copy")
    /\ UNCHANGED <<image, ram, icache>>

(* cache_flush_range over both ranges. *)
Flush ==
    /\ pc = "flush"
    /\ LET lines == LoadRange \cup DtbRange
       IN  /\ ram' = [a \in Addresses |-> IF a \in lines THEN Cached[a] ELSE ram[a]]
           /\ dirty' = Only(dirty, Addresses \ lines)
           /\ icache' = icache \ lines
    /\ Goto("verify")
    /\ at' = 1
    /\ UNCHANGED image

VerifyElf ==
    /\ pc = "verify"
    /\ ram' = VerifyRecord(ram, image[at])
    /\ at' = at + 1
    /\ Goto(IF at = Len(image) THEN "verify_dtb" ELSE "verify")
    /\ UNCHANGED <<image, dirty, icache>>

VerifyDtb ==
    /\ pc = "verify_dtb"
    /\ ram' = VerifyRepairRange(ram, DtbDest, Dtb, DtbSize)
    /\ Goto("invalidate")
    /\ UNCHANGED <<image, at, dirty, icache>>

(* cache_invalidate_dcache_range, the index sweep of the instruction cache and
   cache_invalidate_icache_range. *)
Invalidate ==
    /\ pc = "invalidate"
    /\ dirty' = Only(dirty, Addresses \ (LoadRange \cup DtbRange))
    /\ icache' = {}
    /\ Goto("jump")
    /\ UNCHANGED <<image, at, ram>>

(* The cache may write a line back whenever it needs the place. *)
Evict ==
    /\ pc \notin {"scan", "panic", "jump"}
    /\ \E a \in DOMAIN dirty :
           /\ ram' = [ram EXCEPT ![a] = dirty[a]]
           /\ dirty' = Only(dirty, Addresses \ {a})
    /\ UNCHANGED <<pc, image, at, icache>>

Next ==
    \/ Refuse \/ Scan \/ Sweep \/ CopyDtb \/ CopyElf \/ Flush
    \/ VerifyElf \/ VerifyDtb \/ Invalidate \/ Evict

Spec == Init /\ [][Next]_vars
-----------------------------------------------------------------------------
(* The embedded kernel and device tree, cell by cell, as a view of memory. *)
KernelIn(view) ==
    \A k \in DOMAIN image : \A i \in 0..image[k].mem - 1 :
        view[image[k].addr + i] =
            IF i < image[k].file THEN Blob + image[k].off + i ELSE 0
DtbIn(view) == \A i \in 0..DtbSize - 1 : view[DtbDest + i] = Dtb + i

Loaded == DtbRange \cup UNION {image[k].addr .. image[k].addr + image[k].mem - 1 :
                                   k \in DOMAIN image}

(* The payload reaches into the window the kernel is loaded to. *)
Overlaps == LoadRange \cap (Blob .. PayloadEnd - 1) # {}

(* After copy_linux_elf the processor sees the whole kernel and the whole
   device tree, even when the payload reaches into the load window: no record,
   no .bss and no device tree has overwritten what was still to be moved. *)
CopyIsWhole == pc = "flush" => KernelIn(Cached) /\ DtbIn(Cached)

(* At jump_to_kernel the RAM, the data cache and the instruction cache agree
   on the embedded kernel and device tree, whatever lines an earlier image had
   left in the caches and however few of them the index sweep wrote back. *)
JumpFindsImage ==
    pc = "jump" => /\ KernelIn(ram) /\ DtbIn(ram)
                   /\ Loaded \cap (DOMAIN dirty \cup icache) = {}

(* JumpFindsImage for a payload that ends below the load window. *)
ApartJumpFindsImage == ~Overlaps => JumpFindsImage
=============================================================================
