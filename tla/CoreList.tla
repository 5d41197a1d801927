------------------------------ MODULE CoreList ------------------------------
(***************************************************************************)
(* The cells of CoreMark's linked list (core_list_join.c).  A heap is a    *)
(* pair of functions on cells: next (a cell or NULL) and info (the number  *)
(* of a data record).  Each operator returns the heap the C function       *)
(* leaves behind.                                                          *)
(***************************************************************************)
EXTENDS Integers, Sequences

NULL == -1

\* The cells from l on, in list order (at most as many as there are cells).
Chain(next, l) ==
  LET cells == DOMAIN next
      N == CHOOSE n \in 0..100 : cells = 0..n-1
      ch[f \in 0..N, c \in cells \cup {NULL}] ==
        IF c = NULL \/ f = 0 THEN <<>> ELSE <<c>> \o ch[f-1, next[c]]
  IN  ch[N, l]

Cells(next, l) == LET ch == Chain(next, l) IN {ch[k] : k \in DOMAIN ch}

\* The data records in list order.
Records(heap, l) ==
  LET ch == Chain(heap.next, l) IN [k \in DOMAIN ch |-> heap.info[ch[k]]]

\* First cell that carries idx, or the low byte of data when idx is negative.
core_list_find(heap, data, l, idx, data16) ==
  LET ch == Chain(heap.next, l)
      Match(k) == LET d == data[heap.info[ch[k]]]
                  IN  IF idx >= 0 THEN d.idx = idx ELSE d.data16 % 256 = data16
      hits == {k \in DOMAIN ch : Match(k)}
  IN  IF hits = {} THEN NULL ELSE ch[CHOOSE k \in hits : \A j \in hits : k <= j]

\* item takes over the record of the cell after it, which leaves the list
\* with item's record.
core_list_remove(heap, item) ==
  LET ret == heap.next[item]
  IN  [next |-> [heap.next EXCEPT ![item] = heap.next[ret], ![ret] = NULL],
       info |-> [heap.info EXCEPT ![item] = heap.info[ret], ![ret] = heap.info[item]]]

core_list_undo_remove(heap, removed, modified) ==
  [next |-> [heap.next EXCEPT ![removed] = heap.next[modified], ![modified] = removed],
   info |-> [heap.info EXCEPT ![removed] = heap.info[modified],
                              ![modified] = heap.info[removed]]]

\* The cell after a found one becomes the second of the list.
MoveNextToSecond(next, found, list) ==
  LET finder == next[found]
      n1 == [next EXCEPT ![found] = next[finder]]
  IN  [n1 EXCEPT ![finder] = n1[list], ![list] = finder]
=============================================================================
