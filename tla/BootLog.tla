------------------------------ MODULE BootLog ------------------------------
(***************************************************************************)
(* The loader's log: text is collected in one sector buffer and written    *)
(* straight to the card's sectors of the existing file log.txt, whose      *)
(* clusters are found by walking the FAT through a one-sector cache.  The  *)
(* n-th character of the text is the number n, 0 is NUL, Old a byte that   *)
(* was on the card before.  FAT16 and FAT32 differ in the width of an      *)
(* entry only.                                                             *)
(***************************************************************************)
EXTENDS Integers

CONSTANTS SectorSize, \* characters of a sector
          ClusterSize,\* sectors of a cluster (csize)
          FatEntries, \* entries of one sector of the FAT
          FatLength,  \* first cluster number out of range (n_fatent)
          Fats,       \* file allocation tables to try
          Start,      \* first cluster of log.txt
          Limit,      \* characters log.txt has room for
          MaxFaults   \* failing disk calls in a behaviour

VARIABLES fat,                \* the table on the card
          card,               \* data sectors of the card
          log_ready, log_tried,
          log_pos, log_sector, log_sector_index,
          log_fat_lba, log_fat_sector, \* the cached sector of the FAT
          faults,
          missed,  \* sectors of the file whose last flush met a disk error
          torn     \* history: a read that failed half-way left a cached sector
                   \* that is not the one log_fat_lba names

(* Sectors hold at least two characters, and the table numbers to the end of
   each of its sectors. *)
LogAssumption ==
    /\ SectorSize \in Nat \ {0, 1}
    /\ ClusterSize \in Nat \ {0}
    /\ FatEntries \in Nat \ {0}
    /\ FatLength \in Nat
    /\ Start \in Nat
    /\ Limit \in Nat
    /\ \A f \in Fats, c \in 2..FatLength - 1, i \in 0..FatEntries - 1 :
           f[(c \div FatEntries) * FatEntries + i] \in Nat

vars == <<fat, card, log_ready, log_tried, log_pos, log_sector,
          log_sector_index, log_fat_lba, log_fat_sector, faults, missed, torn>>

None == -1
Old == -2
Eoc == FatLength + 8   \* an end-of-chain value

Clusters == 2..FatLength - 1
DataSectors == 0..(FatLength - 2) * ClusterSize - 1
Blank == [i \in 0..SectorSize - 1 |-> 0]
-----------------------------------------------------------------------------
(* log_fat_next.  A walk is [cluster, ok, tag, buf]; the domain of bad are the
   FAT sectors whose read fails, its values how many entries were transferred
   into the cached sector by then. *)

FatSectorOf(c) == c \div FatEntries
ReadFat(k) == [i \in 0..FatEntries - 1 |-> fat[k * FatEntries + i]]

Failures == UNION {[K -> 0..FatEntries] :
                       K \in {{}} \cup {{FatSectorOf(c)} : c \in Clusters}}

(* The buffer after a read of sector k that ended after n entries. *)
Transferred(buf, k, n) ==
    [i \in 0..FatEntries - 1 |-> IF i < n THEN ReadFat(k)[i] ELSE buf[i]]

(* Slip: the cache remembers the sector it was asked for, read or not. *)
LoadedEarly(w, k, bad) ==
    IF w.tag = k THEN w
    ELSE IF k \in DOMAIN bad
    THEN [w EXCEPT !.ok = FALSE, !.tag = k, !.buf = Transferred(@, k, bad[k])]
    ELSE [w EXCEPT !.tag = k, !.buf = ReadFat(k)]

(* A read that fails leaves the old tag. *)
Loaded(w, k, bad) ==
    IF w.tag = k THEN w
    ELSE IF k \in DOMAIN bad
    THEN [w EXCEPT !.ok = FALSE, !.buf = Transferred(@, k, bad[k])]
    ELSE [w EXCEPT !.tag = k, !.buf = ReadFat(k)]

FatNext(w, bad) ==
    LET v == Loaded(w, FatSectorOf(w.cluster), bad)
        value == v.buf[w.cluster % FatEntries]
    IN  IF ~w.ok THEN w
        ELSE IF w.cluster \notin Clusters THEN [w EXCEPT !.ok = FALSE]
        ELSE IF ~v.ok THEN v
        ELSE IF value >= Eoc THEN [v EXCEPT !.ok = FALSE]
        ELSE [v EXCEPT !.cluster = value]

(* log_file_lba: as many links as whole clusters precede the sector. *)
Links(bad) ==
    LET link[i \in Nat] ==
            IF i = 0 THEN [cluster |-> Start, ok |-> TRUE, tag |-> log_fat_lba,
                           buf |-> log_fat_sector]
            ELSE FatNext(link[i - 1], bad)
    IN  link

Walk(sector, bad) ==
    LET w == Links(bad)[sector \div ClusterSize]
    IN  [w EXCEPT !.ok = w.ok /\ w.cluster \in Clusters]

(* Slip: the sector's number in the file taken for its number in the cluster. *)
LogFileLbaUnwrapped(w, sector) == (w.cluster - 2) * ClusterSize + sector

LogFileLba(w, sector) == (w.cluster - 2) * ClusterSize + (sector % ClusterSize)
-----------------------------------------------------------------------------
Init ==
    /\ fat \in Fats
    /\ card = [s \in DataSectors |-> [i \in 0..SectorSize - 1 |-> Old]]
    /\ log_ready = FALSE
    /\ log_tried = FALSE
    /\ log_pos = 0
    /\ log_sector = Blank
    /\ log_sector_index = None
    /\ log_fat_lba = None
    /\ log_fat_sector = [i \in 0..FatEntries - 1 |-> 0]
    /\ faults = 0
    /\ missed = {}
    /\ torn = FALSE

(* bootlog_init, called by every reporting function: it tries once.  The ROM
   calls must be there, the volume mount, the file open and have a cluster and
   at least a sector. *)
BootlogInit(usable) ==
    /\ ~log_tried
    /\ log_tried' = TRUE
    /\ log_ready' = (usable /\ Start >= 2 /\ Limit >= SectorSize)
    /\ log_pos' = 0
    /\ log_fat_lba' = None
    /\ log_sector_index' = None
    /\ UNCHANGED <<fat, card, log_sector, log_fat_sector, faults, missed,
                   torn>>

(* The cached sector is the one its tag names, if it names one. *)
CacheIsTrue(tag, buf) == tag = None \/ buf = ReadFat(tag)

Partial(bad) == \E k \in DOMAIN bad : bad[k] > 0

(* bootlog_flush_current for a buffer: the sector is written if the walk finds
   it; the result of the write is not looked at. *)
FlushCurrent(buffer) ==
    \E bad \in Failures, fails \in BOOLEAN :
        LET w == Walk(log_sector_index, bad)
            wrong == DOMAIN bad # {} \/ fails
        IN  /\ wrong => faults < MaxFaults
            /\ faults' = IF wrong THEN faults + 1 ELSE faults
            /\ log_fat_lba' = w.tag
            /\ log_fat_sector' = w.buf
            /\ card' = IF w.ok /\ ~fails
                       THEN [card EXCEPT
                                ![LogFileLba(w, log_sector_index)] = buffer]
                       ELSE card
            /\ missed' = IF wrong THEN missed \cup {log_sector_index}
                         ELSE missed \ {log_sector_index}
            /\ torn' = (torn \/ (Partial(bad) /\ ~CacheIsTrue(w.tag, w.buf)))

NoFlush ==
    UNCHANGED <<card, log_fat_lba, log_fat_sector, faults, missed, torn>>

(* The buffer bootlog_putc stores into: zero_sector when a new one is opened. *)
Fresh(off) == IF log_sector_index = None THEN Blank ELSE log_sector

(* bootlog_putc.  A sector that is full is written and closed at once, so
   opening another never finds one to write. *)
BootlogPutc ==
    /\ log_ready
    /\ log_pos < Limit
    /\ LET off == log_pos % SectorSize
           put == [Fresh(off) EXCEPT ![off] = log_pos + 1]
           full == off = SectorSize - 1
       IN  /\ log_pos' = log_pos + 1
           /\ log_sector' = IF full THEN put ELSE [put EXCEPT ![off + 1] = 0]
           /\ \/ ~full /\ log_sector_index' = log_pos \div SectorSize /\ NoFlush
              \/ full /\ log_sector_index # None
                 /\ log_sector_index' = None /\ FlushCurrent(put)
    /\ UNCHANGED <<fat, log_ready, log_tried>>

(* bootlog_flush terminates the text and writes the open sector. *)
BootlogFlush ==
    /\ log_ready
    /\ log_sector_index # None
    /\ log_sector' = [log_sector EXCEPT ![log_pos % SectorSize] = 0]
    /\ FlushCurrent(log_sector')
    /\ UNCHANGED <<fat, log_ready, log_tried, log_pos, log_sector_index>>

Next ==
    \/ \E usable \in BOOLEAN : BootlogInit(usable)
    \/ BootlogPutc
    \/ BootlogFlush

Spec == Init /\ [][Next]_vars
-----------------------------------------------------------------------------
(* The n-th cluster of log.txt by the table on the card, None past its end. *)
NthCluster[n \in Nat] ==
    IF n = 0 THEN Start
    ELSE LET c == NthCluster[n - 1]
         IN  IF c \in Clusters /\ fat[c] \in Clusters THEN fat[c] ELSE None

FileSector(k) ==
    (NthCluster[k \div ClusterSize] - 2) * ClusterSize + (k % ClusterSize)
FileHas(k) == NthCluster[k \div ClusterSize] \in Clusters
SectorsUsed == 0..(Limit - 1) \div SectorSize
OneToOne ==
    \A j, k \in SectorsUsed :
        FileHas(j) /\ FileHas(k) /\ FileSector(j) = FileSector(k) => j = k

(* Only sectors that the allocation table gives to log.txt are ever written,
   whatever the table holds and whichever reads fail: the loader bypasses the
   file system and every other file of the card stays as it was. *)
OnlyLogSectors ==
    \A s \in DataSectors :
        (\A k \in SectorsUsed : FileHas(k) => FileSector(k) # s)
            => \A i \in 0..SectorSize - 1 : card[s][i] = Old

(* A sector that is behind the write position and whose last flush met no disk
   error holds its part of the text on the card, however often it was flushed
   before it was full and though the walk uses a cached sector of the table: an
   error of one flush does not spoil the next one. *)
FlushedTextIsOnCard ==
    OneToOne =>
        \A k \in 0..log_pos \div SectorSize - 1 :
            k \notin missed /\ FileHas(k) =>
                \A i \in 0..SectorSize - 1 :
                    card[FileSector(k)][i] = k * SectorSize + i + 1

(* Both, unless a read that failed half-way has mixed two sectors of the table
   in the cache; a read that fails before it transfers anything does no harm,
   nor does one that fails while the cache is empty. *)
LogIsFaithfulUntorn == ~torn => OnlyLogSectors /\ FlushedTextIsOnCard
=============================================================================
