----------------------------- MODULE BenchList ------------------------------
(***************************************************************************)
(* What CoreMark asks of its list, whatever the pointers do: a sequence of *)
(* data records that is built, reversed, sorted stably, and from which one *)
(* record is taken out and put back.  CoreMark implements this module.     *)
(***************************************************************************)
EXTENDS Integers, Sequences, SequencesExt

CONSTANT None      \* no record is out of the list

VARIABLES order,   \* the records in list order
          data,    \* contents of each record: [data16, idx]
          out      \* the record taken out, or None

vars == <<order, data, out>>

Init == Len(order) = 1 /\ out = None

InsertSecond(d) == <<order[1], d>> \o Tail(order)

\* A new record becomes the second of the list.
Insert == \E d \in DOMAIN data \ Range(order) :
  /\ order' = InsertSecond(d)
  /\ data' = [data EXCEPT ![d] = data'[d]]
  /\ UNCHANGED out

\* Records get their idx once, when the list is built.
Reindex ==
  /\ DOMAIN data' = DOMAIN data
  /\ \A d \in DOMAIN data : data'[d].data16 = data[d].data16
  /\ UNCHANGED <<order, out>>

\* The list is reversed; one record may move to second place.
ReverseAndCache ==
  LET r == Reverse(order)
  IN  /\ \/ order' = r
         \/ \E k \in 3..Len(r) :
              order' = <<r[1], r[k]>> \o SubSeq(r, 2, k-1) \o SubSeq(r, k+1, Len(r))
      /\ UNCHANGED <<data, out>>

IndexIn(d, s) == CHOOSE i \in DOMAIN s : s[i] = d

\* new is old in the order of the keys; equal keys keep their order.
StableSort(old, new, Key(_)) ==
  /\ Len(new) = Len(old) /\ Range(new) = Range(old)
  /\ \A i, j \in DOMAIN new : i < j =>
       \/ Key(new[i]) < Key(new[j])
       \/ Key(new[i]) = Key(new[j]) /\ IndexIn(new[i], old) < IndexIn(new[j], old)

\* Sorting by data caches a result in the low byte of each record; it is the
\* cached results that are sorted.
SortByData ==
  /\ DOMAIN data' = DOMAIN data
  /\ \A d \in Range(order) : /\ data'[d].idx = data[d].idx
                             /\ data'[d].data16 \div 256 = data[d].data16 \div 256
                             /\ data'[d].data16 % 256 >= 128
  /\ StableSort(order, order', LAMBDA d : data'[d].data16 % 128)
  /\ UNCHANGED out

\* Sorting by idx rebuilds the low byte of each record from the high one.
SortByIdx ==
  /\ data' = [d \in DOMAIN data |->
                IF d \notin Range(order) THEN data[d]
                ELSE [data[d] EXCEPT !.data16 = (@ \div 256) * 257]]
  /\ StableSort(order, order', LAMBDA d : data[d].idx)
  /\ UNCHANGED out

TakeOut == /\ out = None
           /\ out' = order[2]
           /\ order' = <<order[1]>> \o SubSeq(order, 3, Len(order))
           /\ UNCHANGED data

PutBack == /\ out # None
           /\ order' = InsertSecond(out)
           /\ out' = None
           /\ UNCHANGED data

Next == \/ Insert \/ Reindex \/ ReverseAndCache
        \/ SortByData \/ SortByIdx \/ TakeOut \/ PutBack

Spec == Init /\ [][Next]_vars
=============================================================================
