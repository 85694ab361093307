------------------------------- MODULE Memory -------------------------------
(***************************************************************************)
(* What class Mem promises (lib/mem.h:44-63): two memories are functions   *)
(* from units to words, MEM_BAD where nothing was written.  An image is a  *)
(* sequence of assignments, to all lanes of a unit or to one.              *)
(***************************************************************************)
EXTENDS Integers, Sequences

CONSTANTS Unit, Word, BadWord

VARIABLES store,   \* store["A"][u]: what a read of unit u of memory A returns
          image,   \* the assignments an image file stands for
          same     \* the answer of the last call, if that was Compare
mmvars == <<store, image, same>>

\* An assignment gives some lanes of a unit their values.
Assign(f, b) ==
  IF b.unit \notin DOMAIN f THEN f
  ELSE [f EXCEPT ![b.unit] = [l \in DOMAIN @ |-> IF l \in DOMAIN b.v THEN b.v[l] ELSE @[l]]]
Overlay(f, bytes) ==
  LET after[n \in 0..Len(bytes)] == IF n = 0 THEN f ELSE Assign(after[n - 1], bytes[n])
  IN  after[Len(bytes)]
Units(bytes) == {bytes[i].unit : i \in 1..Len(bytes)}

Init == image = <<>> /\ store = [x \in {"A", "B"} |-> [u \in Unit |-> BadWord]] /\ same = {}

Changed(x) == {u \in Unit : store'[x][u] # store[x][u]}

\* A write changes at most its unit of its memory.
WriteWord(x) ==
  /\ same' = {} /\ UNCHANGED image
  /\ \A y \in {"A", "B"} \ {x} : Changed(y) = {}
  /\ \E u \in Unit : store'[x][u] \in Word /\ Changed(x) \subseteq {u}

\* The image dumped is the whole of A.
DumpAll(bytes) ==
  /\ same' = {} /\ Changed("A") = {} /\ Changed("B") = {}
  /\ Overlay([u \in Unit |-> BadWord], bytes) = store["A"]

\* An image is merged with what is there.
MergeAll(bytes) ==
  /\ same' = {} /\ Changed("A") = {}
  /\ store'["B"] = Overlay(store["B"], bytes)

\* Both memories are the same afterwards where the image has anything.
Duplicate(bytes) ==
  /\ same' = {}
  /\ store'["A"] = Overlay(store["A"], bytes)
  /\ store'["B"] = [u \in Unit |-> IF u \in Units(bytes) THEN store'["A"][u] ELSE store["B"][u]]

\* Memories said to be the same are the same; others may be said to differ.
CompareAll == /\ \/ same' = {TRUE} /\ store["A"] = store["B"]
                 \/ same' = {FALSE}
              /\ Changed("A") = {} /\ Changed("B") = {} /\ UNCHANGED image

Next == \/ \E x \in {"A", "B"} : WriteWord(x)
        \/ \E bytes \in {image'} : DumpAll(bytes) \/ MergeAll(bytes) \/ Duplicate(bytes)
        \/ CompareAll

Spec == Init /\ [][Next]_mmvars
=============================================================================
