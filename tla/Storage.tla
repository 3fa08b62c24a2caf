------------------------------ MODULE Storage ------------------------------
(***************************************************************************)
(* The programs that touch the card and the memory before and below the    *)
(* services: the loader's relocation of the kernel, its log, the retained  *)
(* progress ring, the FAT test of the storage probe and the mount service. *)
(* They run at different times and share no state, so a behaviour is one   *)
(* of `part`, chosen at the start; the variables of the others stay Off.   *)
(***************************************************************************)
EXTENDS Integers, Sequences, FiniteSets, TLC

CONSTANTS
    Parts,                      \* the programs a behaviour may be about
    Off,
    RamTop, Blob, BlobSize, DtbSize, Images,              \* LoaderImage
    SectorSize, ClusterSize, FatEntries, FatLength, Fats,
    LogStart, Limit,                                      \* BootLog
    N, Contexts, MaxMarks,                                \* RetainedRing
    DataClusters, RootChain, Used, MaxRuns,               \* FatProbe
    Cards, Hasty, MaxSessions,                            \* StorageMount
    MaxFaults                   \* of the boot log's reads, of the mount's calls

VARIABLES
    part,
    loader_pc, image, at, ram, dirty, icache,
    fat, sectors, log_ready, log_tried, log_pos, log_sector,
    log_sector_index, log_fat_lba, log_fat_sector, log_faults, missed, torn,
    magic, seq, writeIndex, wrapped, entries, ring_boot, mark_pc, style,
    index, mySeq, done, spoilt,
    fat1, fat2, root, data, step, cluster, slot, runs, blind,
    card, session, identities, mount_pc, mounted, identity,
    last_identity, candidates, whole_disk, vols, next_move, probes,
    public, marker, generation, faults

----------------------------------------------------------------------------
(* Instances, of the proof module where a component has one, so that what  *)
(* is proved of the component can be cited for its part.                   *)

Loader == INSTANCE LoaderImage WITH pc <- loader_pc, Top <- RamTop

Log == INSTANCE BootLog WITH
    card <- sectors, faults <- log_faults, Start <- LogStart

Ring == INSTANCE RetainedRingProofs WITH pc <- mark_pc, boot <- ring_boot

Fat == INSTANCE FatProbeProofs WITH Clusters <- DataClusters

Mount == INSTANCE StorageMount WITH pc <- mount_pc

ASSUME StorageAssumption ==
    /\ Loader!LoaderAssumption
    /\ Log!LogAssumption
    /\ Ring!RingAssumption
    /\ Fat!VolumeAssumption
    /\ Mount!CardsAssumption

----------------------------------------------------------------------------

loaderVars == <<loader_pc, image, at, ram, dirty, icache>>
logVars == <<fat, sectors, log_ready, log_tried, log_pos, log_sector,
             log_sector_index, log_fat_lba, log_fat_sector, log_faults, missed,
             torn>>
ringVars == <<magic, seq, writeIndex, wrapped, entries, ring_boot, mark_pc,
              style, index, mySeq, done, spoilt>>
fatVars == <<fat1, fat2, root, data, step, cluster, slot, runs, blind>>
mountVars == <<card, session, identities, mount_pc, mounted, identity,
               last_identity, candidates, whole_disk, vols, next_move, probes,
               public, marker, generation, faults>>
vars == <<part, loaderVars, logVars, ringVars, fatVars, mountVars>>

LoaderIdle ==
    /\ loader_pc = Off /\ image = Off /\ at = Off /\ ram = Off
    /\ dirty = Off /\ icache = Off
LogIdle ==
    /\ fat = Off /\ sectors = Off /\ log_ready = Off
    /\ log_tried = Off /\ log_pos = Off /\ log_sector = Off
    /\ log_sector_index = Off /\ log_fat_lba = Off /\ log_fat_sector = Off
    /\ log_faults = Off /\ missed = Off /\ torn = Off
RingIdle ==
    /\ magic = Off /\ seq = Off /\ writeIndex = Off
    /\ wrapped = Off /\ entries = Off /\ ring_boot = Off /\ mark_pc = Off
    /\ style = Off /\ index = Off /\ mySeq = Off /\ done = Off
    /\ spoilt = Off
FatIdle ==
    /\ fat1 = Off /\ fat2 = Off /\ root = Off /\ data = Off
    /\ step = Off /\ cluster = Off /\ slot = Off /\ runs = Off /\ blind = Off
MountIdle ==
    /\ card = Off /\ session = Off /\ identities = Off
    /\ mount_pc = Off /\ mounted = Off /\ identity = Off
    /\ last_identity = Off /\ candidates = Off /\ whole_disk = Off
    /\ vols = Off /\ next_move = Off /\ probes = Off /\ public = Off
    /\ marker = Off /\ generation = Off /\ faults = Off

LoaderInit ==
    /\ part = "loader" /\ Loader!Init /\ LogIdle /\ RingIdle
    /\ FatIdle /\ MountIdle
LogInit ==
    /\ part = "bootlog" /\ Log!Init /\ LoaderIdle /\ RingIdle
    /\ FatIdle /\ MountIdle
RingInit ==
    /\ part = "ring" /\ Ring!Init /\ LoaderIdle /\ LogIdle
    /\ FatIdle /\ MountIdle
FatInit ==
    /\ part = "fatprobe" /\ Fat!Init /\ LoaderIdle /\ LogIdle
    /\ RingIdle /\ MountIdle
MountInit ==
    /\ part = "mount" /\ Mount!Init /\ LoaderIdle /\ LogIdle
    /\ RingIdle /\ FatIdle

LoaderStep(Action) ==
    /\ part = "loader" /\ Action
    /\ UNCHANGED <<part, logVars, ringVars, fatVars, mountVars>>
LogStep(Action) ==
    /\ part = "bootlog" /\ Action
    /\ UNCHANGED <<part, loaderVars, ringVars, fatVars, mountVars>>
RingStep(Action) ==
    /\ part = "ring" /\ Action
    /\ UNCHANGED <<part, loaderVars, logVars, fatVars, mountVars>>
FatStep(Action) ==
    /\ part = "fatprobe" /\ Action
    /\ UNCHANGED <<part, loaderVars, logVars, ringVars, mountVars>>
MountStep(Action) ==
    /\ part = "mount" /\ Action
    /\ UNCHANGED <<part, loaderVars, logVars, ringVars, fatVars>>

Init ==
    /\ part \in Parts
    /\ LoaderInit \/ LogInit \/ RingInit \/ FatInit \/ MountInit
Next ==
    \/ LoaderStep(Loader!Next)
    \/ LogStep(Log!Next)
    \/ RingStep(Ring!Next)
    \/ FatStep(Fat!Next)
    \/ MountStep(Mount!Next)

\* The mount service's loop never stops.
Spec == Init /\ [][Next]_vars /\ WF_vars(MountStep(Mount!Service))

----------------------------------------------------------------------------

\* After copy_linux_elf the processor sees the whole kernel and device tree,
\* even when the payload reaches into the load window; and a kernel whose window
\* lies behind the payload is entered with RAM and caches agreeing on it,
\* whatever lines an earlier image left (the order of copy, flush, compare,
\* repair and invalidate in linux_loader_main_impl).
LoaderKeepsImage ==
    part = "loader" => Loader!CopyIsWhole /\ Loader!ApartJumpFindsImage

\* The kernel is entered whole for every payload, also one that reaches into the
\* load window.
LoaderJumpFindsImage == part = "loader" => Loader!JumpFindsImage

\* bootlog_flush_current writes only sectors that belong to log.txt, whatever
\* the allocation table holds and whichever reads fail; and text behind the
\* write position is on the card, except where the last flush of its sector
\* failed.  Both hold until a read of the table that failed half-way mixes two
\* of its sectors in log_fat_sector.
BootLogIsFaithful == part = "bootlog" => Log!LogIsFaithfulUntorn

\* Whatever copies of progress_mark overlap, header and stores stay in the ring,
\* also after damage.  As long as none overlapped, and no eager copy met an index
\* that rests on N, a reset at any store loses at most the mark under way, and
\* between marks the dump of the next boot shows exactly the newest ones.
RingSurvivesReset == part = "ring" => Ring!RingSurvivesReset

\* The storage probe stopped after any of its sector writes leaves the volume
\* consistent: no directory entry points to a free or foreign cluster, and
\* repeated tests never put a second entry of the same name into the root.
FatStaysConsistent == part = "fatprobe" => Fat!FatStaysConsistent

\* Every root in the published map shows the volume it names, and no volume
\* stays on a temporary mountpoint between two polls, whatever failed in
\* publish, move or second mount.
MountPublishesWhatIsThere ==
    part = "mount" => Mount!PublishedIsMounted /\ Mount!NoProbeLeft

\* A different card that stays in the slot ends up at /mnt/sd.
MountServesSwappedCard ==
    \A c \in Cards : <>[](part = "mount" /\ card = c)
                     => <>[](part = "mount" /\ Mount!Serves(c))

\* A card that stays in the slot is mounted, also the same card put back.
MountServesReinsertedCard ==
    <>[](part = "mount" /\ Mount!Inserted)
    => <>[](part = "mount" /\ Mount!ServesSession)
=============================================================================
