----------------------------- MODULE LogJournal -----------------------------
(***************************************************************************)
(* sf2000-logd (userspace/sf2000-logd.c): the RAM buffer, its flushes, the *)
(* deferred journal of a performance session, forced checkpoints and the   *)
(* binding to a card that comes and goes.                                  *)
(*                                                                         *)
(* The log is a stream of numbered cells (a cell stands for a fixed number *)
(* of bytes); a record is a run of consecutive cells. A step is one call   *)
(* of the code that other processes can tell from its neighbours: the      *)
(* marker checks and the card operations of one pass through the main loop *)
(* are steps of their own.                                                 *)
(***************************************************************************)
EXTENDS Naturals, Sequences, FiniteSets

CONSTANTS
    MaxCards,      \* insertions of a card per behaviour
    RootFs,        \* what /mnt/sd is while nothing is mounted on it
    None,          \* no descriptor, no card
    BufferSize,    \* LOG_BUFFER_SIZE, in cells
    FlushBytes,    \* LOG_FLUSH_BYTES, in cells
    Lengths,       \* lengths of appended records, in cells
    MaxEvents,     \* outside events of a behaviour
    MaxFailures    \* failed calls on a present card, per behaviour

ASSUME LogJournalAssumption ==
    /\ MaxCards \in Nat
    /\ RootFs \notin 1..MaxCards /\ None \notin (1..MaxCards) \cup {RootFs}
    /\ BufferSize \in Nat /\ FlushBytes \in 1..BufferSize
    /\ Lengths \subseteq 1..BufferSize /\ 1 \in Lengths
    /\ MaxEvents \in Nat /\ MaxFailures \in Nat

(* A card is known by its insertion: one that is put back is another card. *)
(* (sf2000-mount cannot tell a card that was put back between two polls.)  *)
Cards == 1..MaxCards

VARIABLES
    lpc,         \* where logd's main is
    then,        \* where it goes once a fresh log file has its first record
    buffer,      \* log_buffer[0 .. log_used): the cells in it
    dropped,     \* log_dropped
    fd,          \* what log_fd is open on, or None
    gen,         \* mount_generation
    genSeen,     \* local `gen' of refresh_storage_binding
    deferred,    \* storage_deferred
    active,      \* local `active' of the main loop
    file,        \* the cells in each card's loglinux.txt, page cache included
    durable,     \* how many of them survive losing the card or the power
    run,         \* marker files in /run
    flushDone,   \* contents of LOG_FLUSH_DONE
    slot,        \* the card in the slot, or None
    inserted,    \* the last card that was put in
    fs,          \* what is mounted on /mnt/sd
    mpc,         \* where sf2000-mount is
    volume,      \* its last_identity
    storageGen,  \* contents of GEN_PATH
    emitted,     \* history: cells produced so far
    shed,        \* history: cells discarded from the full buffer
    lost,        \* history: cells written to a card that is gone, or to RootFs
    asked,       \* history: emitted when the last flush was requested
    events,      \* history: outside events so far
    failures,    \* history: failed calls so far
    hasty        \* history: a generation was written between open() of the log
                 \* and the read of the generation

streamVars == <<buffer, dropped, emitted, shed>>
cardVars == <<file, durable, lost, failures>>
bindVars == <<fd, gen, genSeen, then>>
modeVars == <<deferred, active>>
mountVars == <<fs, mpc, volume, storageGen, hasty>>
envVars == <<slot, inserted, mountVars, asked, events>>
vars == <<lpc, streamVars, cardVars, bindVars, modeVars, run, flushDone, envVars>>

Markers == {"MOUNT", "STANDBY", "PERFORMANCE", "PERFORMANCE_READY", "STOP",
            "FLUSH_REQUEST"}

LogdPCs == {"start", "premount", "open", "openGen", "hello", "helloSync",
            "top", "bind", "reopen", "mode", "begin", "beginMark", "end",
            "endFlush", "work", "force", "forceRequest", "tail",
            "exit", "exitSync", "done", "failed"}

Init ==
    /\ lpc = "start" /\ then = "top"
    /\ buffer = <<>> /\ dropped = 0 /\ emitted = 0 /\ shed = {} /\ lost = {}
    /\ file = [c \in Cards |-> <<>>] /\ durable = [c \in Cards |-> 0]
    /\ failures = 0
    /\ fd = None /\ gen = 0 /\ genSeen = 0
    /\ deferred = FALSE /\ active = FALSE
    /\ run = {} /\ flushDone = "none"
    /\ slot = None /\ inserted = 0
    /\ fs = RootFs /\ mpc = "idle" /\ volume = None /\ storageGen = 0
    /\ hasty = FALSE
    /\ asked = 0 /\ events = 0

-----------------------------------------------------------------------------
(* flush_log, sync_log, force_flush_log                                    *)

ToSet(s) == {s[i] : i \in DOMAIN s}

(* fd is open on the card in the slot: what is written gets into its file. *)
Alive == fd \in Cards /\ slot = fd

(* The log after cells reach write(): a card that has gone, or the root    *)
(* file system under an unmounted /mnt/sd, swallows them.                  *)
Written(log, cells) == IF Alive THEN [log EXCEPT ![fd] = @ \o cells] ELSE log
Swallowed(cells) == IF Alive THEN {} ELSE ToSet(cells)

(* A call may fail on a card that is gone, or as often as is allowed.      *)
MayFail == fd \in Cards /\ (slot # fd \/ failures < MaxFailures)

(* What a failed write_all leaves in the buffer: all of it, even what was  *)
(* already written. (Mutant: nothing.)                                     *)
NothingKept(buf) == <<>>
KeptAfterFailure(buf) == buf

(* ... and what a complete one leaves: log_used is 0. (Mutant: it is not.) *)
AllKept(buf) == buf
KeptAfterWrite(buf) == <<>>

(* No write: the journal is held back, no file is open or the buffer is    *)
(* empty. (Mutant: the deferral is forgotten.)                             *)
NothingToFlush(buf, held) == fd = None \/ buf = <<>>
NoFlush(buf, held) == held \/ fd = None \/ buf = <<>>

(* flush_log, as the set of its outcomes: a write may fail after any part  *)
(* of it.                                                                  *)
FlushResults(buf, log, held) ==
    IF NoFlush(buf, held)
      THEN {[buf |-> buf, log |-> log, gone |-> {}, bad |-> 0]}
      ELSE {[buf |-> KeptAfterWrite(buf), log |-> Written(log, buf),
             gone |-> Swallowed(buf), bad |-> 0]}
           \cup IF ~MayFail THEN {} ELSE
             {[buf |-> KeptAfterFailure(buf),
               log |-> Written(log, SubSeq(buf, 1, k)),
               gone |-> Swallowed(SubSeq(buf, 1, k)),
               bad |-> 1] : k \in 0..(Len(buf) - 1)}

(* Only failures of a card that is still there are counted.                *)
Count(bad) == IF Alive THEN failures + bad ELSE failures

(* flush_log as a step.                                                    *)
Flush(held) ==
    \E r \in FlushResults(buffer, file, held) :
        /\ buffer' = r.buf /\ file' = r.log
        /\ lost' = lost \cup r.gone
        /\ failures' = Count(r.bad)
        /\ UNCHANGED <<durable, dropped, emitted, shed>>

(* fsync(): everything written so far becomes durable, or it fails.        *)
SyncOutcomes == {TRUE} \cup (IF MayFail THEN {FALSE} ELSE {})

(* flush_log followed by fsync. ok tells whether both succeeded.           *)
FlushAndSync(ok) ==
    \E r \in FlushResults(buffer, file, FALSE) :
        /\ buffer' = r.buf /\ file' = r.log
        /\ lost' = lost \cup r.gone
        /\ IF r.bad = 1
             THEN ok = FALSE /\ failures' = Count(1) /\ UNCHANGED durable
             ELSE /\ ok \in IF fd \in Cards /\ slot # fd THEN {FALSE}
                                                       ELSE SyncOutcomes
                  /\ failures' = Count(IF ok THEN 0 ELSE 1)
                  /\ durable' = IF ok /\ Alive
                                  THEN [durable EXCEPT ![fd] = Len(file'[fd])]
                                  ELSE durable
        /\ UNCHANGED <<dropped, emitted, shed>>

(* sync_log: nothing while deferred or without a file. Its callers only    *)
(* log a failure.                                                          *)
Sync ==
    IF deferred \/ fd = None
      THEN UNCHANGED <<streamVars, cardVars>>
      ELSE \E ok \in BOOLEAN : FlushAndSync(ok)

(* force_flush_log ignores the deferral. (Mutant: it honours it.)          *)
ForceFlushDeferred(ok) ==
    IF fd = None \/ deferred
      THEN ok = (fd # None) /\ UNCHANGED <<streamVars, cardVars>>
      ELSE FlushAndSync(ok)
ForceFlush(ok) ==
    IF fd = None THEN ok = FALSE /\ UNCHANGED <<streamVars, cardVars>>
                 ELSE FlushAndSync(ok)

-----------------------------------------------------------------------------
(* append_bytes and append_record                                          *)

(* How many of the oldest cells must go for n more to fit. (Mutant: one    *)
(* too few.)                                                               *)
DiscardOneShort(buf, n) == IF Len(buf) + n > BufferSize
                             THEN Len(buf) + n - BufferSize - 1 ELSE 0
Discard(buf, n) == IF Len(buf) + n > BufferSize THEN Len(buf) + n - BufferSize
                                                ELSE 0

(* The cells that stay when d are discarded. (Mutant: the oldest stay.)    *)
OldestWindow(buf, d) == SubSeq(buf, 1, Len(buf) - d)
NewestWindow(buf, d) == SubSeq(buf, d + 1, Len(buf))

(* append_bytes of n cells, the journal being held back or not: flush a    *)
(* buffer that has no room, discard what still does not fit, copy, and     *)
(* flush again beyond the threshold.                                       *)
AppendBytes(n, held, droppedBefore) ==
    \E r1 \in IF Len(buffer) + n > BufferSize
                THEN FlushResults(buffer, file, held)
                ELSE FlushResults(buffer, file, TRUE) :
      LET d == Discard(r1.buf, n)
          new == [i \in 1..n |-> emitted + i]
          buf == NewestWindow(r1.buf, d) \o new
      IN \E r2 \in FlushResults(buf, r1.log, held \/ Len(buf) < FlushBytes) :
           /\ buffer' = r2.buf /\ file' = r2.log
           /\ lost' = lost \cup r1.gone \cup r2.gone
           /\ failures' = Count(r1.bad + r2.bad)
           /\ dropped' = droppedBefore + d
           /\ shed' = shed \cup ((ToSet(r1.buf) \cup ToSet(new)) \ ToSet(buf))
           /\ emitted' = emitted + n
           /\ UNCHANGED durable

(* A record of the logger's own.                                           *)
Note == AppendBytes(1, deferred, dropped)

-----------------------------------------------------------------------------
(* main: before the first mount                                            *)

Create(files) == run' = run \cup files
Unlink(files) == run' = run \ files

(* An outside event, of which a behaviour has at most MaxEvents.           *)
Event == events < MaxEvents /\ events' = events + 1

quietEnv == <<slot, inserted, mountVars, asked>>

Start ==
    /\ lpc = "start"
    /\ Note
    /\ lpc' = "premount"
    /\ UNCHANGED <<bindVars, modeVars, run, flushDone, envVars>>

(* kmsg records pile up in RAM until the mount marker appears ...          *)
PreMountRecord ==
    /\ lpc = "premount" /\ Event
    /\ \E n \in Lengths : AppendBytes(n, deferred, dropped)
    /\ UNCHANGED <<lpc, bindVars, modeVars, run, flushDone, quietEnv>>

PreMountDone ==
    /\ lpc = "premount" /\ "MOUNT" \in run
    /\ lpc' = "open"
    /\ UNCHANGED <<streamVars, cardVars, bindVars, modeVars, run, flushDone,
                   envVars>>

(* ... then the file is opened on whatever /mnt/sd is by now (if that      *)
(* fails, main returns 1), and only then the generation is read.           *)
OpenLog ==
    /\ lpc = "open"
    /\ \/ fd' = fs /\ lpc' = "openGen" /\ UNCHANGED failures
       \/ /\ failures < MaxFailures /\ failures' = failures + 1
          /\ lpc' = "failed" /\ UNCHANGED fd
    /\ UNCHANGED <<gen, genSeen, then, streamVars, file, durable, lost, modeVars,
                   run, flushDone, envVars>>

ReadGeneration ==
    /\ lpc = "openGen"
    /\ gen' = storageGen
    /\ lpc' = "hello" /\ then' = "top"
    /\ UNCHANGED <<fd, genSeen, streamVars, cardVars, modeVars, run, flushDone,
                   envVars>>

(* "storage mounted" is the first record of every binding, and is synced.  *)
Hello ==
    /\ lpc = "hello"
    /\ Note
    /\ lpc' = "helloSync"
    /\ UNCHANGED <<bindVars, modeVars, run, flushDone, envVars>>

HelloSync ==
    /\ lpc = "helloSync"
    /\ Sync
    /\ lpc' = then
    /\ UNCHANGED <<bindVars, modeVars, run, flushDone, envVars>>

-----------------------------------------------------------------------------
(* main: the loop                                                          *)

(* stop_requested, then refresh_storage_binding reads the generation ...   *)
Top ==
    /\ lpc = "top"
    /\ IF "STOP" \in run THEN lpc' = "exit" /\ UNCHANGED genSeen
                         ELSE lpc' = "bind" /\ genSeen' = storageGen
    /\ UNCHANGED <<fd, gen, then, streamVars, cardVars, modeVars, run, flushDone,
                   envVars>>

(* (Mutant: a new card is not told from the old one.)                      *)
RebindNeverNoticed == fd = None
MustRebind == fd = None \/ (genSeen # 0 /\ genSeen # gen)

(* ... and then the mount marker: unmounted, or remounted as something     *)
(* else, closes the file after a last flush whose failure is ignored.      *)
Bind ==
    /\ lpc = "bind"
    /\ LET mounted == "MOUNT" \in run
           close == fd # None /\ (~mounted \/ MustRebind)
       IN /\ lpc' = IF mounted /\ MustRebind THEN "reopen" ELSE "mode"
          /\ IF close THEN Flush(deferred) /\ fd' = None
                      ELSE UNCHANGED <<streamVars, cardVars, fd>>
    /\ UNCHANGED <<gen, genSeen, then, modeVars, run, flushDone, envVars>>

Reopen ==
    /\ lpc = "reopen"
    /\ \/ /\ fd' = fs /\ gen' = genSeen
          /\ lpc' = "hello" /\ then' = "mode"
          /\ UNCHANGED failures
       \/ /\ failures < MaxFailures /\ failures' = failures + 1
          /\ lpc' = "mode"
          /\ UNCHANGED <<fd, gen, then>>
    /\ UNCHANGED <<genSeen, streamVars, file, durable, lost, modeVars, run,
                   flushDone, envVars>>

(* In standby: sync and start over. Otherwise look at the request for a    *)
(* performance session.                                                    *)
Mode ==
    /\ lpc = "mode"
    /\ IF "STANDBY" \in run
         THEN Sync /\ lpc' = "top" /\ UNCHANGED active
         ELSE /\ active' = ("PERFORMANCE" \in run)
              /\ lpc' = IF active' = deferred THEN "work"
                        ELSE IF active' THEN "begin" ELSE "end"
              /\ UNCHANGED <<streamVars, cardVars>>
    /\ UNCHANGED <<deferred, bindVars, run, flushDone, envVars>>

(* Open a session: sync, then defer, reset the counters and acknowledge,   *)
(* whether or not the sync succeeded.                                      *)
SessionSync ==
    /\ lpc = "begin"
    /\ Sync
    /\ lpc' = "beginMark"
    /\ UNCHANGED <<bindVars, modeVars, run, flushDone, envVars>>

SessionBegin ==
    /\ lpc = "beginMark"
    /\ deferred' = TRUE
    /\ AppendBytes(1, TRUE, 0)
    /\ Create({"PERFORMANCE_READY"})
    /\ lpc' = "work"
    /\ UNCHANGED <<bindVars, active, flushDone, envVars>>

(* Close a session: the frontend's metrics and a summary go to the         *)
(* journal, ...                                                            *)
SessionRecords ==
    /\ lpc = "end"
    /\ \E n \in Lengths : AppendBytes(n, TRUE, dropped)
    /\ lpc' = "endFlush"
    /\ UNCHANGED <<bindVars, modeVars, run, flushDone, envVars>>

(* ... which is then flushed (not synced); the acknowledgement goes even   *)
(* if that fails.                                                          *)
SessionEnd ==
    /\ lpc = "endFlush"
    /\ deferred' = FALSE
    /\ Flush(FALSE)
    /\ Unlink({"PERFORMANCE_READY"})
    /\ lpc' = "work"
    /\ UNCHANGED <<bindVars, active, flushDone, envVars>>

(* kmsg, input, heartbeat and probe records.                               *)
WorkRecord ==
    /\ lpc = "work" /\ Event
    /\ \E n \in Lengths : AppendBytes(n, deferred, dropped)
    /\ UNCHANGED <<lpc, bindVars, modeVars, run, flushDone, quietEnv>>

(* START+RIGHT: checkpoint_log appends its record and forces a flush.      *)
Chord ==
    /\ lpc = "work" /\ Event
    /\ Note
    /\ lpc' = "force"
    /\ UNCHANGED <<bindVars, modeVars, run, flushDone, quietEnv>>

ChordFlush ==
    /\ lpc = "force"
    /\ \E ok \in BOOLEAN : ForceFlush(ok)
    /\ lpc' = "work"
    /\ UNCHANGED <<bindVars, modeVars, run, flushDone, envVars>>

(* What LOG_FLUSH_DONE says. (Mutant: only a success is answered.)         *)
AnswerSuccess(ok) == IF ok THEN "ok" ELSE "none"
Answer(ok) == IF ok THEN "ok" ELSE "error"

(* service_flush_request: take the request, checkpoint, answer.            *)
Service ==
    /\ lpc = "work"
    /\ IF "FLUSH_REQUEST" \in run
         THEN Unlink({"FLUSH_REQUEST"}) /\ Note /\ lpc' = "forceRequest"
         ELSE lpc' = "tail" /\ UNCHANGED <<run, streamVars, cardVars>>
    /\ UNCHANGED <<bindVars, modeVars, flushDone, envVars>>

ServiceFlush ==
    /\ lpc = "forceRequest"
    /\ \E ok \in BOOLEAN : /\ ForceFlush(ok)
                           /\ flushDone' = Answer(ok)
    /\ lpc' = "tail"
    /\ UNCHANGED <<bindVars, modeVars, run, envVars>>

(* The periodic flush and sync, each when its timer is due, never in a     *)
(* session; a buffer beyond the threshold is always flushed.               *)
Periodic ==
    /\ lpc = "tail"
    /\ \/ ~active /\ Flush(deferred)
       \/ ~active /\ Sync
       \/ (active \/ Len(buffer) < FlushBytes) /\ UNCHANGED <<streamVars, cardVars>>
    /\ lpc' = "top"
    /\ UNCHANGED <<bindVars, modeVars, run, flushDone, envVars>>

(* Shutdown: a last record, then nothing is held back and all is synced.   *)
(* (Mutant: the deferral of a session in progress stays.)                  *)
StillDeferred == deferred
DeferredAtExit == FALSE

Exit ==
    /\ lpc = "exit"
    /\ Note
    /\ deferred' = DeferredAtExit
    /\ Unlink({"PERFORMANCE_READY"})
    /\ lpc' = "exitSync"
    /\ UNCHANGED <<bindVars, active, flushDone, envVars>>

ExitSync ==
    /\ lpc = "exitSync"
    /\ Sync
    /\ lpc' = "done"
    /\ UNCHANGED <<bindVars, modeVars, run, flushDone, envVars>>

Logd == \/ Start \/ PreMountDone \/ OpenLog \/ ReadGeneration \/ Hello \/ HelloSync
        \/ Top \/ Bind \/ Reopen \/ Mode
        \/ SessionSync \/ SessionBegin \/ SessionRecords \/ SessionEnd
        \/ ChordFlush \/ Service \/ ServiceFlush \/ Periodic \/ Exit \/ ExitSync

Input == PreMountRecord \/ WorkRecord \/ Chord

-----------------------------------------------------------------------------
(* The rest of the system                                                  *)

calm == <<lpc, streamVars, bindVars, modeVars>>

(* The user: what was not synced goes with the card.                       *)
CardOut ==
    /\ slot # None /\ Event
    /\ slot' = None
    /\ file' = [file EXCEPT ![slot] = SubSeq(@, 1, durable[slot])]
    /\ lost' = lost \cup (ToSet(file[slot]) \ ToSet(file'[slot]))
    /\ UNCHANGED <<calm, durable, failures, run, flushDone, inserted, mountVars,
                   asked>>

CardIn ==
    /\ slot = None /\ inserted < MaxCards /\ Event
    /\ slot' = inserted + 1 /\ inserted' = inserted + 1
    /\ UNCHANGED <<calm, cardVars, run, flushDone, mountVars, asked>>

(* sf2000-mount: move the new volume to /mnt/sd, over whatever could not   *)
(* be unmounted there, ...                                                 *)
MountCard ==
    /\ mpc = "idle" /\ slot # None
    /\ fs' = slot /\ volume' = slot
    /\ mpc' = "moved"
    /\ UNCHANGED <<calm, cardVars, run, flushDone, storageGen, hasty, slot,
                   inserted, asked, events>>

(* ... write the generation, ...                                           *)
Number ==
    /\ mpc = "moved"
    /\ storageGen' = storageGen + 1
    /\ hasty' = (hasty \/ lpc = "openGen")
    /\ mpc' = "numbered"
    /\ UNCHANGED <<calm, cardVars, run, flushDone, fs, volume, slot, inserted,
                   asked, events>>

(* ... and then the marker.                                                *)
Publish ==
    /\ mpc = "numbered"
    /\ Create({"MOUNT"})
    /\ mpc' = "up"
    /\ UNCHANGED <<calm, cardVars, flushDone, fs, volume, storageGen, hasty,
                   slot, inserted, asked, events>>

(* The card has gone or another one is in: umount, which fails while logd  *)
(* has its file open there, and then take the marker back.                 *)
Release ==
    /\ mpc = "up" /\ slot # volume
    /\ fs' = IF fd = fs THEN fs ELSE RootFs
    /\ mpc' = "released"
    /\ UNCHANGED <<calm, cardVars, run, flushDone, volume, storageGen, hasty,
                   slot, inserted, asked, events>>

MarkerGone ==
    /\ mpc = "released"
    /\ Unlink({"MOUNT"})
    /\ mpc' = "idle" /\ volume' = None
    /\ UNCHANGED <<calm, cardVars, flushDone, fs, storageGen, hasty, slot,
                   inserted, asked, events>>

(* The browser and powerd open and close sessions, powerd enters and       *)
(* leaves standby, and a menu asks for reboot or shutdown.                 *)
Toggle(m) ==
    /\ Event
    /\ IF m \in run THEN Unlink({m}) ELSE Create({m})
    /\ UNCHANGED <<calm, cardVars, flushDone, quietEnv>>

AskStop ==
    /\ "STOP" \notin run /\ Event
    /\ Create({"STOP"})
    /\ UNCHANGED <<calm, cardVars, flushDone, quietEnv>>

(* A client forgets the previous answer and asks for a flush.              *)
AskFlush ==
    /\ "FLUSH_REQUEST" \notin run /\ Event
    /\ Create({"FLUSH_REQUEST"})
    /\ flushDone' = "none"
    /\ asked' = emitted
    /\ UNCHANGED <<calm, cardVars, slot, inserted, mountVars>>

MountService == MountCard \/ Number \/ Publish \/ Release \/ MarkerGone

Outside == \/ CardOut \/ CardIn
           \/ \E m \in {"STANDBY", "PERFORMANCE"} : Toggle(m)
           \/ AskStop \/ AskFlush

Next == Logd \/ Input \/ MountService \/ Outside

Spec == Init /\ [][Next]_vars

(* logd and the mount service are polling loops of a fair scheduler; the   *)
(* user, the kernel and the clients owe nothing.                           *)
FairSpec == Spec /\ WF_vars(Logd) /\ WF_vars(MountService)

-----------------------------------------------------------------------------
(* Every variable keeps its type: append_bytes never overruns log_buffer,  *)
(* and no card has more durable cells than cells.                          *)
TypeOK ==
    /\ lpc \in LogdPCs /\ then \in {"top", "mode"}
    /\ buffer \in Seq(1..emitted) /\ Len(buffer) <= BufferSize
    /\ dropped \in Nat /\ emitted \in Nat
    /\ shed \subseteq 1..emitted /\ lost \subseteq 1..emitted
    /\ file \in [Cards -> Seq(1..emitted)] /\ durable \in [Cards -> Nat]
    /\ \A c \in Cards : durable[c] <= Len(file[c])
    /\ fd \in Cards \cup {RootFs, None} /\ fs \in Cards \cup {RootFs}
    /\ slot \in Cards \cup {None} /\ inserted \in 0..MaxCards
    /\ mpc \in {"idle", "moved", "numbered", "up", "released"}
    /\ volume \in Cards \cup {None}
    /\ gen \in Nat /\ genSeen \in Nat /\ storageGen \in Nat
    /\ hasty \in BOOLEAN
    /\ deferred \in BOOLEAN /\ active \in BOOLEAN
    /\ run \subseteq Markers /\ flushDone \in {"none", "ok", "error"}
    /\ asked \in 0..emitted /\ events \in 0..MaxEvents /\ failures \in Nat

DurableCells == UNION {ToSet(SubSeq(file[c], 1, durable[c])) : c \in Cards}
WrittenCells == UNION {ToSet(file[c]) : c \in Cards}

(* The promise of LogStream, for the buffer, the files and the discards of *)
(* the code: append_bytes, flush_log and refresh_storage_binding never     *)
(* lose a cell silently, and shed only the oldest, only when full.         *)
stored == WrittenCells \cup lost
Stream == INSTANCE LogStream WITH
    Capacity <- BufferSize,
    waiting <- ToSet(buffer) \ stored, stored <- stored, shed <- shed \ stored
ImplementsStream == Stream!Spec

(* A flush that was answered "ok" made every cell produced before the      *)
(* request durable, sessions, remounts and failures notwithstanding;       *)
(* except what had been shed, or had gone with a card.                     *)
FlushOkIsDurable ==
    flushDone = "ok" => 1..asked \subseteq DurableCells \cup shed \cup lost

(* Without write failures no card's log repeats or reorders a cell, over   *)
(* any sequence of sessions, card changes and checkpoints.                 *)
LogIsInOrder ==
    failures = 0 => \A c \in Cards : \A i, j \in DOMAIN file[c] :
                        i < j => file[c][i] < file[c][j]

(* While a session is acknowledged nothing but a forced checkpoint writes  *)
(* the card.                                                               *)
SessionSparesCard ==
    [][deferred /\ deferred' /\ lpc \notin {"force", "forceRequest"} =>
         \A c \in Cards : /\ durable'[c] = durable[c]
                          /\ Len(file'[c]) <= Len(file[c])]_vars

(* A clean exit with the file open on the present card leaves nothing      *)
(* behind, also in the middle of a session.                                *)
CleanExitDrains ==
    [][lpc' = "done" /\ lpc # "done" /\ Alive /\ failures' = 0 =>
         1..emitted \subseteq (DurableCells \cup shed \cup lost)']_vars

(* The log follows the card: once mount and logd have settled, the file is *)
(* open on the card that is mounted; unless a generation was written just  *)
(* between open() of the log and the read of the generation.               *)
Settled(c) == fd = c \/ slot # c \/ lpc \in {"done", "failed"}
LogFollowsCard ==
    \A c \in Cards :
      (slot = c /\ lpc \notin {"done", "failed"}) ~> (Settled(c) \/ hasty)

(* The log follows every card that stays (refresh_storage_binding).        *)
LogFollowsEveryCard ==
    \A c \in Cards :
      (slot = c /\ lpc \notin {"done", "failed"}) ~> Settled(c)

(* A flush request is answered, with or without a card to flush to, unless *)
(* no card was ever mounted or standby or shutdown intervenes.             *)
FlushIsAnswered ==
    ("FLUSH_REQUEST" \in run /\ lpc \notin {"start", "premount"}) ~>
      (flushDone # "none" \/ run \cap {"STANDBY", "STOP"} # {}
       \/ lpc = "failed")
=============================================================================
