------------------------- MODULE CoreMarkProperties -------------------------
(***************************************************************************)
(* What CoreMark must do on this processor: the properties of CoreMark.    *)
(***************************************************************************)
EXTENDS CoreMark, FiniteSets

NullOrCell == Cell \cup {NULL}

\* Type invariant: pointers are NULL or in the block, words have 16 bits.
TypeOK ==
  /\ cfg \in Configs
  /\ next \in [Cell -> NullOrCell]
  /\ info \in [Cell -> Cell]
  /\ free \in 1..ListSize(cfg)
  /\ list \in Cell
  /\ \A c \in Cell : res.data[c] \in [data16 : 0..65535, idx : 0..32767]
  /\ {res.crc, res.crclist, res.crcmatrix, res.crcstate, b.retval} \subseteq 0..65535
  /\ {r.list, r.next, s.p, s.q, s.tail, s.list, b.this, b.remover} \subseteq NullOrCell

Sorting == pc \in {"pass", "split", "merge"}

\* The pointers the program holds: what hangs from none of them is lost.
Roots == CASE pc = "pass"    -> {s.list}
           [] pc = "split"   -> {s.list, s.p}
           [] pc = "merge"   -> {s.list, s.p, s.q}
           [] pc = "reverse" -> {r.list, r.next}
           [] OTHER          -> {list, b.remover}

\* No cell is lost and no two cells share a record, at every pointer
\* assignment of the reversal, the in-place merge and the remove: each cell
\* handed out hangs from a pointer the program holds.
NothingLost ==
  /\ 0..free-1 = UNION {Cells(next, c) : c \in Roots \ {NULL}}
  /\ \A c, d \in 0..free-1 : info[c] = info[d] => c = d

\* The runs being merged and the merged list stay apart while next pointers
\* still lead from one to the other: the cells the counters psize and qsize
\* announce exist.
RunsAreThere ==
  pc = "merge" =>
    LET fromP == Chain(next, s.p)
        fromQ == Chain(next, s.q)
        ofP == {fromP[k] : k \in 1..s.psize}
        ofQ == {fromQ[k] : k \in DOMAIN fromQ}
    IN  /\ s.psize > 0 => Len(fromP) >= s.psize
        /\ s.psize > 0 => ofP \cap ofQ = {}
        /\ s.tail # NULL => s.tail \notin ofP \cup ofQ

\* Corruption replaces terminators too: the scan still ends inside its block.
ScanStaysInside == res.end < BlockSize

\* What holds at every step of the pointer program: the type invariant, every
\* cell at hand, the runs of a merge apart, the scan inside its block.
Inv == TypeOK /\ NothingLost /\ RunsAreThere /\ ScanStaysInside

\* "At the end of this function, the list is back to original state": order,
\* indices and data, although it was reversed, reordered, sorted by cached
\* results and had a record taken out.  The state block and matrix A are as
\* they were between any two comparisons even, so that the result of a record
\* does not depend on which records came before.
Restored ==
  origin # NoOrigin =>
    /\ res.mem = origin.mem
    /\ res.mat.A = origin.A
    /\ pc \in {"bench", "done"} => /\ Records(heap, list) = origin.order
                                   /\ res.data = origin.data

\* core_main.c: list_known_crc, matrix_known_crc, state_known_crc by known_id.
KnownCrc == << <<54448, 48722, 24135>>, <<13120, 4505, 14783>>, <<27257, 22024, 58788>>,
               <<59156, 8151, 36410>>, <<58305, 1863, 36228>> >>

SeedCrc(c) == 
  crcu16[c.total \div 3, crcu16[c.seed3, crcu16[c.seed2, crcu16[c.seed1, 0]]]]

\* Which known run the seeds and the size identify; 0 for none.
KnownId(c) == LET crc == SeedCrc(c)
              IN  CASE crc = 35330 -> 1 [] crc = 31493 -> 2 [] crc = 20143 -> 3
                    [] crc = 59893 -> 4 [] crc = 6386 -> 5 [] OTHER -> 0

\* "Correct operation validated": each run is one of the known ones and its
\* three CRCs are the ones main compares with.
Validated ==
  pc = "done" =>
    /\ KnownId(cfg) # 0
    /\ <<res.crclist, res.crcmatrix, res.crcstate>> = KnownCrc[KnownId(cfg)]

\* While a reversal or a sort has the pointers in disorder, the list is still
\* what it was when the function was called.
InPlace == Sorting \/ pc = "reverse"

Abstract == INSTANCE BenchList WITH
  None  <- NULL,
  order <- IF InPlace THEN before.order ELSE Records(heap, list),
  data  <- IF InPlace THEN before.data ELSE res.data,
  out   <- IF b.remover = NULL THEN NULL ELSE info[b.remover]

\* The pointer program implements a list that is only reversed, sorted stably
\* and has one record taken out and put back.
ImplementsBenchList == Abstract!Spec

\* Merge sort and the loops that follow next pointers come to an end.
Terminates == <>(pc = "done")
=============================================================================
