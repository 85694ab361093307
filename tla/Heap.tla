-------------------------------- MODULE Heap --------------------------------
(***************************************************************************)
(* The binary heap of lib/heap.c: a sequence of entries [key, value], the  *)
(* sons of entry i being 2i and 2i + 1.  Entries of one key leave it in an *)
(* order that depends on the whole array, so the array is modelled.        *)
(***************************************************************************)
EXTENDS Naturals, Sequences

Swapped(h, i, k) == [h EXCEPT ![i] = h[k], ![k] = h[i]]
SmallerUp(h, i, k) == IF k <= Len(h) /\ h[k].key < h[i].key THEN Swapped(h, i, k) ELSE h

\* From a new entry up to the root; its brother is compared as well.
RECURSIVE SiftUp(_, _)
SiftUp(h, k) ==
  LET up      == k \div 2
      brother == IF k % 2 = 0 THEN k + 1 ELSE k - 1
  IN  IF k = 1 THEN h ELSE SiftUp(SmallerUp(SmallerUp(h, up, k), up, brother), up)

heap_insert(h, key, value) == SiftUp(Append(h, [key |-> key, value |-> value]), Len(h) + 1)

\* The son that goes up if one of them is smaller; of equal ones the right.
SmallerSon(h, i) ==
  IF 2 * i + 1 > Len(h) \/ h[2 * i].key < h[2 * i + 1].key THEN 2 * i ELSE 2 * i + 1

RECURSIVE SiftDown(_, _)
SiftDown(h, i) ==
  IF 2 * i > Len(h) \/ h[SmallerSon(h, i)].key >= h[i].key THEN h
  ELSE SiftDown(Swapped(h, i, SmallerSon(h, i)), SmallerSon(h, i))

\* heap_remove_min_key: what is left; the entry removed is h[1].
heap_remove_min(h) == IF Len(h) = 1 THEN <<>>
                      ELSE SiftDown(SubSeq([h EXCEPT ![1] = h[Len(h)]], 1, Len(h) - 1), 1)
=============================================================================
