----------------------------- MODULE CacheModel -----------------------------
(***************************************************************************)
(* The QEMU plugin that estimates what guest code costs.  QEMU calls it    *)
(* when a block is translated, when a translated block runs, for every     *)
(* load and store, at a frame marker and at exit.  An address is a number  *)
(* and its own cache line; one line is one instruction.  Window is where   *)
(* generated code can be, Core the emulator's text.                        *)
(***************************************************************************)
EXTENDS Integers, Sequences, FiniteSets, SequencesExt

CONSTANTS Core, Window,   \* addresses of static and of generated code
          Other,          \* kernel text, and data addresses
          Blocks,         \* blocks the guest may have: sequences of addresses
          RecBase, RecSize,   \* recbase= and recsize=
          Sets, Ways,     \* geometry of both caches
          AgeSpan,        \* values of a uint32_t age: 2^32
          Penalty,        \* cycles of a miss
          FrameStop,      \* framestop=
          MaxEvents       \* bound on the callbacks of a behaviour

Address == Core \cup Window \cup Other

(* A cache has at least one set of at least one way; a block is code. *)
CacheAssumption ==
    /\ Sets \in Nat \ {0} /\ Ways \in Nat \ {0} /\ AgeSpan \in Nat \ {0}
    /\ Address \subseteq Nat /\ Blocks \subseteq Seq(Address)

VARIABLES scope, phaseRec, auto,   \* scope=, phase=rec, recbase=auto
          icache, dcache,
          n,              \* counters since the last reset
          rec,            \* [base, evidence, mismatch, auto]
          active,         \* phase_active
          lines,          \* bits set in rec_line_bits
          frame,          \* [number, have, previous, frozen, sum]
          blocks,         \* translated blocks that have callbacks
          ilog,           \* lines fetched since the reset and not patched (history)
          dlog,           \* lines accessed since the reset, in order (history)
          events

config == <<scope, phaseRec, auto>>
vars == <<config, icache, dcache, n, rec, active, lines, frame, blocks, ilog,
          dlog, events>>

(* Every counter of struct Model that a property is about. *)
Zero == [instructions |-> 0, i_misses |-> 0, d_accesses |-> 0, d_lines |-> 0,
         d_misses |-> 0, stores |-> 0, rec_i_accesses |-> 0, rec_i_misses |-> 0,
         rec_d_accesses |-> 0, rec_d_lines |-> 0, rec_d_misses |-> 0,
         rec_tb_execs |-> 0, rec_unique_lines |-> 0]

EmptyWay == [valid |-> FALSE, line |-> 0, age |-> 0]
EmptyCache == [tick |-> 0, way |-> [s \in 0..Sets - 1 |-> [w \in 1..Ways |-> EmptyWay]]]

Init ==
    /\ scope \in {"all", "emu", "core", "rec"}
    /\ phaseRec \in BOOLEAN /\ auto \in BOOLEAN
    /\ icache = EmptyCache /\ dcache = EmptyCache
    /\ n = Zero
    /\ rec = [base |-> RecBase, evidence |-> 0, mismatch |-> FALSE]
    /\ active = FALSE /\ lines = {}
    /\ frame = [number |-> 0, have |-> FALSE, previous |-> 0, frozen |-> FALSE, sum |-> 0]
    /\ blocks = {}
    /\ ilog = {} /\ dlog = <<>> /\ events = 0
-----------------------------------------------------------------------------
(* A set-associative cache with ages.  The tick is 64 bits wide, more than
   any run of the plugin counts; the ages keep its low half. *)

SetOf(a) == a % Sets

(* The way an access stops at: the loop ends at a hit or at the first way that
   is not valid, whichever comes first; otherwise the oldest is the victim. *)
Stops(ways, a) == {w \in 1..Ways : ~ways[w].valid \/ ways[w].line = a}
Victim(ways) ==
    CHOOSE w \in 1..Ways :
        /\ \A v \in 1..Ways : ways[w].age <= ways[v].age
        /\ \A v \in 1..w - 1 : ways[v].age > ways[w].age
Chosen(ways, a) ==
    IF Stops(ways, a) = {} THEN Victim(ways)
    ELSE CHOOSE w \in Stops(ways, a) : \A v \in Stops(ways, a) : w <= v

(* cache_access_indexed *)
Hit(c, a) == LET w == c.way[SetOf(a)][Chosen(c.way[SetOf(a)], a)]
             IN  w.valid /\ w.line = a

(* The age an access gives its line. *)
Age(c) == (c.tick + 1) % AgeSpan

(* Slip: a hit does not make a line young again. *)
AccessFifo(c, a) ==
    IF Hit(c, a) THEN [c EXCEPT !.tick = @ + 1]
    ELSE [c EXCEPT !.tick = @ + 1,
              !.way[SetOf(a)][Chosen(c.way[SetOf(a)], a)] =
                  [valid |-> TRUE, line |-> a, age |-> Age(c)]]

Access(c, a) ==
    LET s == SetOf(a)
        w == Chosen(c.way[s], a)
    IN  [tick |-> c.tick + 1,
         way |-> [c.way EXCEPT ![s][w] = [valid |-> TRUE, line |-> a,
                                          age |-> Age(c)]]]

Accessed(c, touched) ==
    LET one == Access(c, touched[1])
    IN  IF Len(touched) = 1 THEN one ELSE Access(one, touched[2])

(* cache_invalidate_indexed *)
Invalidate(c, a) ==
    [c EXCEPT !.way[SetOf(a)] =
        [w \in 1..Ways |-> IF @[w].valid /\ @[w].line = a
                           THEN [@[w] EXCEPT !.valid = FALSE, !.age = 0] ELSE @[w]]]

Held(c, s) == {c.way[s][w].line : w \in {v \in 1..Ways : c.way[s][v].valid}}
Contents(c) == UNION {Held(c, s) : s \in 0..Sets - 1}
-----------------------------------------------------------------------------
(* What is measured *)

InRec(r, a) == a \in Window /\ a >= r.base /\ a < r.base + RecSize
IsRec(a) == InRec(rec, a)
IsCore(a) == a \in Core

Selected(r, a) ==
    CASE scope = "emu" -> IsCore(a) \/ InRec(r, a)
      [] scope = "core" -> IsCore(a)
      [] scope = "rec" -> InRec(r, a)
      [] OTHER -> TRUE

(* rec_base_observe *)
Observed(r, a) ==
    IF r.evidence # 0
    THEN [r EXCEPT !.mismatch = @ \/ ~InRec(r, a)]
    ELSE IF auto THEN [r EXCEPT !.evidence = a, !.base = a]
    ELSE [r EXCEPT !.evidence = a, !.mismatch = @ \/ ~InRec(r, a)]

Candidate(b) == SelectSeq(b, LAMBDA a : a \in Window)

(* tb_trans: the first address of the window is evidence until the phase has
   begun; blocks with nothing to measure get no callback. *)
RecAfter(b) ==
    IF phaseRec /\ ~active /\ Candidate(b) # <<>>
    THEN Observed(rec, Candidate(b)[1]) ELSE rec

RecCount(r, b) == Len(SelectSeq(b, LAMBDA a : InRec(r, a)))
CoreCount(b) == Len(SelectSeq(b, IsCore))

Instrumented(r, b) ==
    CASE scope = "emu" -> CoreCount(b) + RecCount(r, b) > 0
      [] scope = "core" -> CoreCount(b) > 0
      [] scope = "rec" -> RecCount(r, b) > 0
      [] OTHER -> phaseRec /\ ~active => RecCount(r, b) > 0

Translate(b) ==
    /\ events < MaxEvents
    /\ \A t \in blocks : t.pc # b
    /\ rec' = RecAfter(b)
    /\ blocks' = IF Instrumented(rec', b)
                 THEN blocks \cup {[pc |-> b, rec_count |-> RecCount(rec', b),
                                    mem |-> {a \in ToSet(b) : Selected(rec', a)}]}
                 ELSE blocks
    /\ events' = events + 1
    /\ UNCHANGED <<config, icache, dcache, n, active, lines, frame, ilog, dlog>>
-----------------------------------------------------------------------------
(* tb_exec: one instruction of a block; m is the part of the state it changes,
   [icache, n, rec, lines, ilog]. *)

Bit(c) == IF c THEN 1 ELSE 0

(* Slip: every new line counts. *)
FreshAnywhere(m, r, a) == a \notin m.lines

Fresh(m, r, a) == r /\ a \notin m.lines

Instruction(m, a) ==
    IF ~Selected(m.rec, a) THEN m
    ELSE LET r == InRec(m.rec, a)
             miss == ~Hit(m.icache, a)
         IN  [icache |-> Access(m.icache, a),
              n |-> [m.n EXCEPT !.instructions = @ + 1, !.i_misses = @ + Bit(miss),
                        !.rec_i_accesses = @ + Bit(r),
                        !.rec_i_misses = @ + Bit(r /\ miss),
                        !.rec_unique_lines = @ + Bit(Fresh(m, r, a))],
              rec |-> IF r THEN Observed(m.rec, a) ELSE m.rec,
              lines |-> IF r THEN m.lines \cup {a} ELSE m.lines,
              ilog |-> m.ilog \cup {a}]

(* reset_measurement when the first generated block runs. *)
StartOfPhase(begins) ==
    [icache |-> IF begins THEN EmptyCache ELSE icache,
     n |-> IF begins THEN Zero ELSE n, rec |-> rec,
     lines |-> IF begins THEN {} ELSE lines, ilog |-> IF begins THEN {} ELSE ilog]

Idle == phaseRec /\ ~active

(* The instructions of a block, one after the other. *)
Run(b, m) ==
    LET after[i \in 0..Len(b)] ==
            IF i = 0 THEN m ELSE Instruction(after[i - 1], b[i])
    IN  after[Len(b)]

Execute(t) ==
    /\ events < MaxEvents /\ ~frame.frozen
    /\ Idle => t.rec_count > 0
    /\ LET m == Run(t.pc, StartOfPhase(Idle))
           seen == m.n.rec_i_accesses > StartOfPhase(Idle).n.rec_i_accesses
       IN  /\ icache' = m.icache /\ rec' = m.rec /\ lines' = m.lines /\ ilog' = m.ilog
           /\ n' = [m.n EXCEPT !.rec_tb_execs = @ + Bit(seen)]
    /\ dcache' = IF Idle THEN EmptyCache ELSE dcache
    /\ dlog' = IF Idle THEN <<>> ELSE dlog
    /\ frame' = IF Idle THEN [frame EXCEPT !.have = FALSE, !.previous = 0, !.sum = 0]
                ELSE frame
    /\ active' = (active \/ phaseRec)
    /\ events' = events + 1
    /\ UNCHANGED <<config, blocks>>

(* mem_access by the instruction at pc to the line a, and to the next line when
   the access crosses; a store into generated code drops its lines. *)
Touched(a, crosses) == IF crosses THEN <<a, a + 1>> ELSE <<a>>

Counted(k, pc, touched, store) ==
    LET one == Hit(dcache, touched[1])
        two == Len(touched) = 1 \/ Hit(Access(dcache, touched[1]), touched[2])
        missed == Bit(~one) + Bit(~two)
    IN  [k EXCEPT !.d_accesses = @ + 1, !.stores = @ + Bit(store),
                  !.d_lines = @ + Len(touched), !.d_misses = @ + missed,
                  !.rec_d_accesses = @ + Bit(IsRec(pc)),
                  !.rec_d_lines = @ + Bit(IsRec(pc)) * Len(touched),
                  !.rec_d_misses = @ + Bit(IsRec(pc)) * missed]

(* Slip: only the first line of a crossing store is dropped. *)
PatchedFirst(touched, store) ==
    IF store /\ IsRec(touched[1]) THEN Invalidate(icache, touched[1]) ELSE icache

Patched(touched, store) ==
    LET one == Invalidate(icache, touched[1])
    IN  IF ~(store /\ IsRec(touched[1])) THEN icache
        ELSE IF Len(touched) = 1 THEN one ELSE Invalidate(one, touched[2])

Memory(pc, a, crosses, store) ==
    /\ events < MaxEvents /\ ~frame.frozen /\ ~Idle
    /\ \E t \in blocks : pc \in t.mem
    /\ crosses => a + 1 \in Address
    /\ Selected(rec, pc)
    /\ LET touched == Touched(a, crosses) IN
          /\ n' = Counted(n, pc, touched, store)
          /\ dcache' = Accessed(dcache, touched)
          /\ dlog' = dlog \o touched
          /\ icache' = Patched(touched, store)
          /\ ilog' = IF store /\ IsRec(a) THEN ilog \ ToSet(touched) ELSE ilog
    /\ events' = events + 1
    /\ UNCHANGED <<config, rec, active, lines, frame, blocks>>
-----------------------------------------------------------------------------
Cycles(k) == k.instructions + Penalty * (k.i_misses + k.d_misses)

(* frame_marker_exec; at framestop the report is written and all stops. *)
FrameMarker ==
    /\ events < MaxEvents /\ ~frame.frozen
    /\ \E t \in blocks : \E a \in ToSet(t.pc) : IsCore(a)
    /\ LET number == frame.number + 1
           stop == number >= FrameStop
           spent == Cycles(n) - frame.previous
       IN  frame' = IF Idle THEN [frame EXCEPT !.number = number]
                    ELSE [number |-> number, have |-> TRUE, previous |-> Cycles(n),
                          frozen |-> stop,
                          sum |-> IF stop THEN 0
                                  ELSE IF frame.have THEN frame.sum + spent ELSE frame.sum]
    /\ events' = events + 1
    /\ UNCHANGED <<config, icache, dcache, n, rec, active, lines, blocks, ilog, dlog>>

Next ==
    \/ \E b \in Blocks : Translate(b)
    \/ \E t \in blocks : Execute(t)
    \/ \E pc \in Address, a \in Address, crosses, store \in BOOLEAN :
          Memory(pc, a, crosses, store)
    \/ FrameMarker

Spec == Init /\ [][Next]_vars
-----------------------------------------------------------------------------
(* The lines of its set that were used since, and by, the i-th access. *)
Since(log, i) ==
    {log[j] : j \in {k \in i..Len(log) : SetOf(log[k]) = SetOf(log[i])}}

(* The Ways lines of each set that were used last. *)
Recent(log) ==
    {log[i] : i \in {k \in DOMAIN log : Cardinality(Since(log, k)) <= Ways}}

(* The data cache holds exactly the lines an LRU cache would hold: the last
   Ways distinct lines of each set since the measurement began. *)
ExactLru == Contents(dcache) = Recent(dlog)

(* It does so until the ages wrap. *)
DataCacheIsLru == dcache.tick < AgeSpan => ExactLru

(* The instruction cache never credits a line that was not fetched since it was
   last patched, or since the measurement began. *)
NoStaleCode == Contents(icache) \subseteq ilog

(* The counters describe one set of events: parts do not exceed the whole,
   distinct lines are counted once and a rec-phase report has nothing of what
   came before the first generated block. *)
CountersAgree ==
    /\ n.i_misses <= n.instructions /\ n.rec_i_misses <= n.rec_i_accesses
    /\ n.rec_i_accesses <= n.instructions
    /\ n.rec_d_misses <= n.rec_d_lines /\ n.rec_d_lines <= n.d_lines
    /\ n.d_accesses <= n.d_lines /\ n.d_misses <= n.d_lines
    /\ n.rec_unique_lines = Cardinality(lines)
    /\ Cardinality(ilog) <= n.i_misses
    /\ Idle => n = Zero
=============================================================================
