------------------------------ MODULE CoreMark ------------------------------
(***************************************************************************)
(* CoreMark (src/sw/examples/coremark) as the port runs it: one context,   *)
(* all three algorithms, seeds fixed when it is compiled.  The list is     *)
(* worked on one pointer operation at a time; the matrix and state         *)
(* algorithms, which touch only their own block, are one operator each.    *)
(*                                                                         *)
(* A configuration has the fields seed1, seed2, seed3, total (bytes of     *)
(* data) and iterations.                                                   *)
(***************************************************************************)
EXTENDS CoreList, CoreState, CoreMatrix

CONSTANT Configs

ASSUME ConfigsAssumption ==
  Configs \subseteq [seed1 : 0..32767, seed2 : 0..32767, seed3 : Nat,
                     total : Nat, iterations : Nat \ {0}]

VARIABLES
  cfg,      \* the configuration compiled in
  next,     \* list cells: the cell after each
  info,     \* list cells: their data record
  free,     \* first cell and record not handed out (memblock, datablock)
  list,     \* the list head
  res,      \* core_results: data records, state block, matrices, CRCs, and
            \* (history) the furthest position a scan of the block reached
  pc,       \* where the program is
  b,        \* locals of core_bench_list
  s,        \* locals of core_list_mergesort
  r,        \* locals of core_list_reverse
  before,   \* history: records and data when the running list function began
  origin    \* history: the list and the blocks after initialisation

vars == <<cfg, next, info, free, list, res, pc, b, s, r, before, origin>>

heap == [next |-> next, info |-> info]

\* The memory is split evenly between the three algorithms.
BlockSize == cfg.total \div 3

\* per_item = 16 + sizeof(struct list_data_s)
ListSize(c) == ((c.total \div 3) \div 20) - 2

Cell == 0..ListSize(cfg)-1
-----------------------------------------------------------------------------
(* core_list_join.c: what comparing two records does.                      *)

dtype(data16) == ((data16 \div 8) % 16) * 17

Cached(d) == Bit(res.data[d].data16, 7) = 1

\* The operation of a record without a cached result; its low byte caches it.
calc_func(d) ==
  LET data16 == res.data[d].data16
      Cache(retval, re) ==
        res' = [re EXCEPT !.crc = crcu16[retval, res.crc],
                  !.data[d].data16 = ((data16 \div 256) * 256) + 128 + (retval % 128)]
      FirstOf(old, new) == IF old = 0 THEN new ELSE old
      FurthestOf(old, new) == IF old > new THEN old ELSE new
  IN  \/ /\ data16 % 8 = 0
         /\ \E st \in {core_bench_state(BlockSize, res.mem, cfg.seed1, cfg.seed2,
                         IF dtype(data16) < 34 THEN 34 ELSE dtype(data16), res.crc)} :
              Cache(st.crc, [res EXCEPT !.mem = st.mem, !.end = FurthestOf(@, st.end),
                                        !.crcstate = FirstOf(@, st.crc)])
      \/ /\ data16 % 8 = 1
         /\ \E mx \in {core_bench_matrix(res.mat, dtype(data16), res.crc)} :
              Cache(mx.crc, [res EXCEPT !.mat = mx.m, !.crcmatrix = FirstOf(@, mx.crc)])
      \/ data16 % 8 \notin {0, 1} /\ Cache(data16, res)

\* Both results are cached by now.
cmp_complex(a, c, re) ==
  [val |-> (re.data[a].data16 % 128) - (re.data[c].data16 % 128), res |-> re]

\* Mutation: the cached results stay in the records.
cmp_idx_cached(a, c, re) == [val |-> re.data[a].idx - re.data[c].idx, res |-> re]

\* Called with res = NULL: both records get their low byte back.
cmp_idx(a, c, re) ==
  LET Regen(d) == [d EXCEPT !.data16 = (@ \div 256) * 257]
  IN  [val |-> re.data[a].idx - re.data[c].idx,
       res |-> [re EXCEPT !.data[a] = Regen(@), !.data[c] = Regen(@)]]

Compare(a, c) == IF s.cmp = "complex" THEN cmp_complex(a, c, res)
                                      ELSE cmp_idx(a, c, res)
-----------------------------------------------------------------------------
Snapshot(re) == [order |-> Records(heap, list), data |-> re.data]

NoSort == [p |-> NULL, q |-> NULL, tail |-> NULL, list |-> NULL, insize |-> 1,
           nmerges |-> 0, psize |-> 0, qsize |-> 0, cmp |-> "idx", ret |-> "bench"]

NoBench == [finder |-> 1, i |-> 0, idx |-> 0, data16 |-> 0, retval |-> 0,
            found |-> 0, missed |-> 0, this |-> NULL, remover |-> NULL, iter |-> 0]

NoOrigin == [order |-> <<>>, data |-> <<>>, mem |-> <<>>, A |-> <<>>]

\* main: seeds and sizes, the two blocks, and the head of the list.
Init ==
  /\ cfg \in Configs
  /\ next = [c \in Cell |-> NULL]
  /\ info = [c \in Cell |-> 0]
  /\ free = 1
  /\ list = 0
  /\ res = [data |-> [c \in Cell |-> IF c = 0 THEN [data16 |-> 32896, idx |-> 0]
                                              ELSE [data16 |-> 0, idx |-> 0]],
            mem  |-> core_init_state(BlockSize, cfg.seed1),
            mat  |-> core_init_matrix(BlockSize, cfg.seed1 + (cfg.seed2 * 65536)),
            end  |-> 0,
            crc  |-> 0, crclist |-> 0, crcmatrix |-> 0, crcstate |-> 0]
  /\ pc = "insert"
  /\ b = NoBench
  /\ s = NoSort
  /\ r = [list |-> NULL, next |-> NULL]
  /\ before = [order |-> <<0>>, data |-> res.data]
  /\ origin = NoOrigin

\* core_list_insert_new behind the head; without room nothing is inserted.
core_list_insert_new(rec) ==
  IF free + 1 >= ListSize(cfg) THEN UNCHANGED <<next, info, free, res>>
  ELSE /\ next' = [next EXCEPT ![free] = next[list], ![list] = free]
       /\ info' = [info EXCEPT ![free] = free]
       /\ res' = [res EXCEPT !.data[free] = rec]
       /\ free' = free + 1

datpat(i) == LET dat == ((Xor(cfg.seed1, i) % 16) * 8) + (i % 8) IN dat * 257

\* The fake tail first, then one item for each turn of the loop.
Insert ==
  /\ pc = "insert" /\ b.i <= ListSize(cfg)
  /\ core_list_insert_new(IF b.i = 0 THEN [data16 |-> 65535, idx |-> 32767]
                          ELSE [data16 |-> datpat(b.i - 1), idx |-> 32767])
  /\ b' = [b EXCEPT !.i = @ + 1]
  /\ UNCHANGED <<cfg, list, pc, s, r, before, origin>>

\* idx of the i-th item after the head: the first fifth of the list in
\* order, the others mixed behind them.
IdxOf(i) ==
  IF i < ListSize(cfg) \div 5 THEN i
  ELSE Or(((i + 1) % 8) * 256, Xor(i, cfg.seed1)) % 16384

StartSort(l, cmp, ret) ==
  /\ s' = [NoSort EXCEPT !.list = l, !.cmp = cmp, !.ret = ret]
  /\ pc' = "pass"

\* Every item but the fake tail gets its idx, then the list is sorted by it.
IndexItems ==
  /\ pc = "insert" /\ b.i > ListSize(cfg)
  /\ LET ch == Chain(next, list)
         At(d) == CHOOSE k \in DOMAIN ch : info[ch[k]] = d
         indexed == {info[ch[k]] : k \in 2..Len(ch)-1}
     IN  res' = [res EXCEPT !.data =
                   [d \in DOMAIN @ |-> IF d \in indexed
                                      THEN [@[d] EXCEPT !.idx = IdxOf(At(d) - 1)]
                                      ELSE @[d]]]
  /\ StartSort(list, "idx", "bench")
  /\ before' = Snapshot(res')
  /\ UNCHANGED <<cfg, next, info, free, list, b, r, origin>>
-----------------------------------------------------------------------------
(* core_list_mergesort: passes over the list, each merging runs of insize  *)
(* cells; the merged list hangs from s.list and ends at s.tail.            *)

SortPass ==
  /\ pc = "pass"
  /\ s' = [s EXCEPT !.p = s.list, !.list = NULL, !.tail = NULL, !.nmerges = 0]
  /\ pc' = "split"
  /\ UNCHANGED <<cfg, next, info, free, list, res, b, r, before, origin>>

\* q is insize places behind p, or past the end.
SortSplit ==
  /\ pc = "split" /\ s.p # NULL
  /\ LET ch == Chain(next, s.p)
         short == Len(ch) <= s.insize
     IN  s' = [s EXCEPT !.nmerges = @ + 1, !.qsize = s.insize,
                 !.psize = IF short THEN Len(ch) ELSE s.insize,
                 !.q = IF short THEN NULL ELSE ch[s.insize + 1]]
  /\ pc' = "merge"
  /\ UNCHANGED <<cfg, next, info, free, list, res, b, r, before, origin>>

QEmpty == s.qsize = 0 \/ s.q = NULL

\* The next cell of the merge leaves p or q and follows the tail.
TakeCell(fromP, re) ==
  LET e == IF fromP THEN s.p ELSE s.q
  IN  /\ s' = [s EXCEPT !.p = IF fromP THEN next[e] ELSE @,
                        !.psize = IF fromP THEN @ - 1 ELSE @,
                        !.q = IF fromP THEN @ ELSE next[e],
                        !.qsize = IF fromP THEN @ ELSE @ - 1,
                        !.list = IF s.tail = NULL THEN e ELSE @,
                        !.tail = e]
      /\ next' = IF s.tail = NULL THEN next ELSE [next EXCEPT ![s.tail] = e]
      /\ res' = re

\* A comparison by data calculates the result of p first, then that of q,
\* unless they are cached.
Uncached == IF s.cmp = "complex" THEN {c \in {s.p, s.q} : ~Cached(info[c])} ELSE {}

SortCalc ==
  /\ pc = "merge" /\ s.psize > 0 /\ ~QEmpty /\ Uncached # {}
  /\ calc_func(info[IF s.p \in Uncached THEN s.p ELSE s.q])
  /\ UNCHANGED <<cfg, next, info, free, list, pc, b, s, r, before, origin>>

\* Mutation: of equal cells, that of the later run is taken first.
SortMergeUnstable ==
  /\ pc = "merge"
  /\ \/ s.psize = 0 /\ ~QEmpty /\ TakeCell(FALSE, res)
     \/ s.psize > 0 /\ QEmpty /\ TakeCell(TRUE, res)
     \/ /\ s.psize > 0 /\ ~QEmpty /\ Uncached = {}
        /\ LET cmp == Compare(info[s.p], info[s.q])
           IN  TakeCell(cmp.val < 0, cmp.res)
  /\ UNCHANGED <<cfg, info, free, list, pc, b, r, before, origin>>

SortMerge ==
  /\ pc = "merge"
  /\ \/ s.psize = 0 /\ ~QEmpty /\ TakeCell(FALSE, res)
     \/ s.psize > 0 /\ QEmpty /\ TakeCell(TRUE, res)
     \/ /\ s.psize > 0 /\ ~QEmpty /\ Uncached = {}
        /\ LET cmp == Compare(info[s.p], info[s.q])
           IN  TakeCell(cmp.val <= 0, cmp.res)
  /\ UNCHANGED <<cfg, info, free, list, pc, b, r, before, origin>>

SortRunDone ==
  /\ pc = "merge" /\ s.psize = 0 /\ QEmpty
  /\ s' = [s EXCEPT !.p = s.q]
  /\ pc' = "split"
  /\ UNCHANGED <<cfg, next, info, free, list, res, b, r, before, origin>>

\* Mutation: the runs do not grow.
SortPassDoneSameSize ==
  /\ pc = "split" /\ s.p = NULL
  /\ next' = [next EXCEPT ![s.tail] = NULL]
  /\ IF s.nmerges <= 1
     THEN list' = s.list /\ pc' = s.ret /\ s' = NoSort
     ELSE pc' = "pass" /\ UNCHANGED <<s, list>>
  /\ UNCHANGED <<cfg, info, free, res, b, r, before, origin>>

\* One merge was enough: the sort returns to where it was called from.
SortPassDone ==
  /\ pc = "split" /\ s.p = NULL
  /\ next' = [next EXCEPT ![s.tail] = NULL]
  /\ IF s.nmerges <= 1
     THEN list' = s.list /\ pc' = s.ret /\ s' = NoSort
     ELSE s' = [s EXCEPT !.insize = @ * 2] /\ pc' = "pass" /\ UNCHANGED list
  /\ UNCHANGED <<cfg, info, free, res, b, r, before, origin>>
-----------------------------------------------------------------------------
(* core_bench_list: finds and reversals, a sort by data, a remove and its  *)
(* undo, a sort by idx.                                                    *)

BenchStart ==
  /\ pc = "bench"
  /\ b' = [NoBench EXCEPT !.finder = b.finder, !.idx = b.finder, !.iter = b.iter]
  /\ pc' = "find"
  /\ origin' = IF origin = NoOrigin
               THEN [order |-> Records(heap, list), data |-> res.data,
                     mem |-> res.mem, A |-> res.mat.A]
               ELSE origin
  /\ UNCHANGED <<cfg, next, info, free, list, res, s, r, before>>

Find ==
  /\ pc = "find" /\ b.i < cfg.seed3
  /\ b' = [b EXCEPT !.data16 = b.i % 256,
                    !.this = core_list_find(heap, res.data, list, b.idx, b.i % 256)]
  /\ r' = [list |-> list, next |-> NULL]
  /\ before' = Snapshot(res)
  /\ pc' = "reverse"
  /\ UNCHANGED <<cfg, next, info, free, list, res, s, origin>>

\* Mutation: the pointer is followed after it was turned round.
Reverse1Late ==
  /\ pc = "reverse" /\ r.list # NULL
  /\ next' = [next EXCEPT ![r.list] = r.next]
  /\ r' = [list |-> r.next, next |-> r.list]
  /\ UNCHANGED <<cfg, info, free, list, res, pc, b, s, before, origin>>

\* One turn of core_list_reverse.
Reverse1 ==
  /\ pc = "reverse" /\ r.list # NULL
  /\ next' = [next EXCEPT ![r.list] = r.next]
  /\ r' = [list |-> next[r.list], next |-> r.list]
  /\ UNCHANGED <<cfg, info, free, list, res, pc, b, s, before, origin>>

Data16(c) == res.data[info[c]].data16

\* The rest of the loop body: count, and move the cell after the found one.
UseFound ==
  /\ pc = "reverse" /\ r.list = NULL
  /\ list' = r.next
  /\ LET idx == IF b.idx >= 0 THEN b.idx + 1 ELSE b.idx
     IN  \/ /\ b.this = NULL
            /\ b' = [b EXCEPT !.i = @ + 1, !.idx = idx, !.missed = @ + 1,
                              !.retval = @ + Bit(Data16(next[r.next]), 8)]
            /\ UNCHANGED next
         \/ /\ b.this # NULL
            /\ b' = [b EXCEPT !.i = @ + 1, !.idx = idx, !.found = @ + 1,
                              !.retval = @ + IF Bit(Data16(b.this), 0) = 1
                                             THEN Bit(Data16(b.this), 9) ELSE 0]
            /\ next' = IF next[b.this] = NULL THEN next
                       ELSE MoveNextToSecond(next, b.this, r.next)
  /\ pc' = "find"
  /\ UNCHANGED <<cfg, info, free, res, s, r, before, origin>>

\* All values were looked for; only the first of the two calls sorts by data.
FindsDone ==
  /\ pc = "find" /\ b.i >= cfg.seed3
  /\ b' = [b EXCEPT !.retval = U16(@ + (b.found * 4) - b.missed)]
  /\ IF b.finder > 0
     THEN StartSort(list, "complex", "remove") /\ before' = Snapshot(res)
     ELSE pc' = "remove" /\ UNCHANGED <<s, before>>
  /\ UNCHANGED <<cfg, next, info, free, list, res, r, origin>>

Remove ==
  /\ pc = "remove"
  /\ LET h == core_list_remove(heap, next[list])
     IN  next' = h.next /\ info' = h.info
  /\ b' = [b EXCEPT !.remover = next[next[list]]]
  /\ pc' = "undo"
  /\ UNCHANGED <<cfg, free, list, res, s, r, before, origin>>

\* crc16 of the first record, once for each of n cells (the loops advance
\* finder and read list).
CrcTimes(n, retval) ==
  LET c[k \in 0..n] == IF k = 0 THEN retval ELSE crcu16[Data16(list), c[k-1]]
  IN  c[n]

UndoRemove ==
  /\ pc = "undo"
  /\ LET hit == core_list_find(heap, res.data, list, b.idx, b.data16)
         finder == IF hit = NULL THEN next[list] ELSE hit
         h == core_list_undo_remove(heap, b.remover, next[list])
     IN  /\ b' = [b EXCEPT !.retval = CrcTimes(Len(Chain(next, finder)), @),
                           !.remover = NULL]
         /\ next' = h.next /\ info' = h.info
         /\ before' = [order |-> Records(h, list), data |-> res.data]
  /\ StartSort(list, "idx", "crc")
  /\ UNCHANGED <<cfg, free, list, res, r, origin>>

\* iterate: the two calls of an iteration, and the CRC of the first iteration.
CallDone ==
  /\ pc = "crc"
  /\ LET retval == CrcTimes(Len(Chain(next, list)) - 1, b.retval)
         crc    == crcu16[retval, res.crc]
         second == b.finder = -1
     IN  /\ res' = [res EXCEPT !.crc = crc,
                      !.crclist = IF second /\ b.iter = 0 THEN crc ELSE @]
         /\ b' = [b EXCEPT !.finder = -@, !.iter = IF second THEN @ + 1 ELSE @]
         /\ pc' = IF second /\ b.iter + 1 = cfg.iterations THEN "done" ELSE "bench"
  /\ UNCHANGED <<cfg, next, info, free, list, s, r, before, origin>>

\* main has reported the results.
Finished == pc = "done" /\ UNCHANGED vars
-----------------------------------------------------------------------------
Next == \/ Insert \/ IndexItems
        \/ SortPass \/ SortSplit \/ SortCalc \/ SortMerge \/ SortRunDone \/ SortPassDone
        \/ BenchStart \/ Find \/ Reverse1 \/ UseFound \/ FindsDone
        \/ Remove \/ UndoRemove \/ CallDone \/ Finished

\* One program runs and nothing interrupts it: steps are taken until it is
\* done.  Next is enabled in every state, so this is its weak fairness.
Fairness == []<><<TRUE>>_vars \/ <>[](pc = "done")

Spec == Init /\ [][Next]_vars /\ Fairness
=============================================================================
