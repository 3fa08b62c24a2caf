----------------------------- MODULE MCStorage -----------------------------
(***************************************************************************)
(* Small instances of the programs around the card and the retained memory.*)
(***************************************************************************)
EXTENDS Storage

\* Five words of payload in thirteen of memory, with load windows from below the
\* payload's end to behind it, and four images the loader must refuse.
Record(off, file, mem, addr) ==
    [off |-> off, file |-> file, mem |-> mem, addr |-> addr]
KernelImages ==
    {<<Record(1, 2, 2, b), Record(3, 1, 2, b + 2)>> : b \in 4 .. 8}
    \cup {<<>>, <<Record(1, 2, 1, 8)>>, <<Record(3, 2, 2, 8)>>,
          <<Record(1, 1, 2, 12)>>, <<Record(1, 2, 3, 7), Record(3, 1, 1, 11)>>}

\* Chains of log.txt: straight, backwards, across table sectors, broken, out of
\* range, and looping.
Chain(c2, c3, c4, c5) ==
    2 :> c2 @@ 3 :> c3 @@ 4 :> c4 @@ 5 :> c5 @@ 0 :> 14 @@ 1 :> 14
LogChains ==
    {Chain(5, 14, 14, 14), Chain(4, 0, 5, 14), Chain(5, 14, 14, 4),
     Chain(0, 14, 14, 14), Chain(9, 14, 14, 14), Chain(2, 14, 14, 14),
     Chain(3, 4, 14, 14)}

\* The clusters of a root directory with a gap.
RootClusters == <<1, 2, 5>>
ManyClusters == 1 .. 6

\* Two partitions of different rank, a card without a partition table, and one
\* that looks like both.
SomeCards ==
    {[id |-> "a", floppy |-> FALSE, score |-> "p1" :> 1 @@ "p2" :> 5],
     [id |-> "b", floppy |-> TRUE, score |-> "whole" :> 1],
     [id |-> "c", floppy |-> TRUE, score |-> "p1" :> 3 @@ "p2" :> 3]}
=============================================================================
