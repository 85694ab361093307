-------------------------------- MODULE Bdd --------------------------------
(***************************************************************************)
(* Boolean functions as binary decision diagrams, lib/bool.c: nodes shared *)
(* through a table per variable, counted references, a cache of results    *)
(* per operation.                                                          *)
(*                                                                         *)
(* The library is a record: node (bool_t, by address; what a freed node    *)
(* held stays there), free (freelist), H (the nodes of the table of a      *)
(* variable), TH (the caches, newest triple first; "temp" is the one made  *)
(* for a single call), nvar, fatal (fatal_error was called).  Two fields   *)
(* record what the code forgets: lost counts references nobody will        *)
(* release, bare says that a node was handed out without a reference.      *)
(***************************************************************************)
EXTENDS Integers, Sequences, SequencesExt, FiniteSetsExt, Bags

CONSTANTS MaxNode,    \* bound: nodes are 0..MaxNode
          RefMax,     \* REFMAX: a count that has reached it stays there
          MaxVar,     \* bound: variables
          Substs,     \* pairs of variable lists a client substitutes
          Quants,     \* variable lists a client quantifies over
          Menus,      \* the calls a client makes are of one of these sets
          MaxBddCalls,   \* bound: calls
          MaxHeld     \* bound: diagrams a client holds

ASSUME BddAssumption == /\ RefMax \in Nat \ {0} /\ MaxVar \in Nat \ {0}
                        /\ MaxNode \in Nat /\ MaxNode > 2

VARIABLES bdd,     \* the library
          held,    \* the client's references: a bag of <<node, function>>
          menu, bddcalls
bddvars == <<bdd, held, menu, bddcalls>>

Nodes == 0..MaxNode
Null  == -1
True  == 0
False == 1
Leaf(n) == n \in {True, False}
Var   == 0..(MaxVar - 1)
Cached == {"and", "or", "xor", "implies", "not", "maketrue", "makefalse", "temp"}

\* Leaves have the high bit set: their id is above that of every variable.
LeafId(n) == MaxVar + 1 - n
Id(m, n)  == m.node[n].id
Low(m, n) == m.node[n].l
High(m, n) == m.node[n].r
Ret(m, n) == [m |-> m, n |-> n]

INC_REF(m, n) == [m EXCEPT !.node[n].ref = IF @ < RefMax THEN @ + 1 ELSE @]
DEC_REF(m, n) == [m EXCEPT !.node[n].ref = IF @ < RefMax THEN @ - 1 ELSE @]
Another(m, n) == Ret(INC_REF(m, n), n)

----------------------------------------------------------------------------
(* Nodes and tables.                                                       *)

\* Any free node may be the first of freelist: the lowest is taken.
newbool(m, id, l, r) ==
  LET n == Min(m.free)
  IN  Ret([m EXCEPT !.free = @ \ {n},
                    !.node[n] = [ref |-> m.node[n].ref, id |-> id, l |-> l, r |-> r]], n)

hash_insert(m, n) == [m EXCEPT !.H[Id(m, n)] = @ \cup {n}]
hash_delete(m, n) == [m EXCEPT !.H[Id(m, n)] = @ \ {n}]
hash_locate(m, v, l, r) ==
  LET same == {n \in m.H[v] : Low(m, n) = l /\ High(m, n) = r}
  IN  IF same = {} THEN Null ELSE Min(same)

thash_insert_weak(m, op, v1, v2, v3) ==
  [INC_REF(INC_REF(m, v1), v2) EXCEPT !.TH[op] = <<<<v1, v2, v3>>>> \o @]
thash_insert(m, op, v1, v2, v3) ==
  [INC_REF(INC_REF(INC_REF(m, v1), v2), v3) EXCEPT !.TH[op] = <<<<v1, v2, v3>>>> \o @]
thash_locate(m, op, v1, v2) ==
  LET i == SelectInSeq(m.TH[op], LAMBDA t : t[1] = v1 /\ t[2] = v2)
  IN  IF i = 0 THEN Null ELSE m.TH[op][i][3]

RECURSIVE bool_free(_, _), bool_free_listed(_, _)
bool_free_listed(m, n) ==
  IF Leaf(n) \/ m.fatal THEN m
  ELSE IF m.node[n].ref = 0 THEN [m EXCEPT !.fatal = TRUE]
  ELSE LET d == DEC_REF(m, n)
       IN  IF d.node[n].ref > 0 THEN d
           ELSE [bool_free_listed(bool_free_listed(d, Low(d, n)), High(d, n)) EXCEPT !.free = @ \cup {n}]
bool_free(m, n) ==
  IF Leaf(n) \/ m.fatal THEN m
  ELSE IF m.node[n].ref = 0 THEN [m EXCEPT !.fatal = TRUE]
  ELSE LET d == DEC_REF(m, n)
           k == hash_delete(d, n)
       IN  IF d.node[n].ref > 0 THEN d
           ELSE [bool_free(bool_free(k, Low(k, n)), High(k, n)) EXCEPT !.free = @ \cup {n}]

thash_free(m, op) ==
  [FoldLeft(LAMBDA k, t : bool_free(bool_free(bool_free(k, t[1]), t[2]), t[3]), m, m.TH[op])
     EXCEPT !.TH[op] = <<>>]

\* The node with the children l and r, whose references it takes over.
Node(m, id, l, r) ==
  LET k == hash_locate(m, id, l, r)
      new == newbool(m, id, l, r)
  IN  IF k # Null THEN Another(DEC_REF(DEC_REF(m, l), r), k)
      ELSE Another(hash_insert(new.m, new.n), new.n)

Reduced(m, id, l, r) == IF l = r THEN Ret(DEC_REF(m, r), l) ELSE Node(m, id, l, r)
Noted(res, op, v1, v2) == Ret(thash_insert(res.m, op, v1, v2, res.n), res.n)

----------------------------------------------------------------------------
(* The operations.                                                         *)

AndEnds(a, b) == CASE a = b -> a
                   [] False \in {a, b} -> False
                   [] a = True -> b
                   [] b = True -> a
                   [] OTHER -> Null
OrEnds(a, b) == CASE a = b -> a
                  [] True \in {a, b} -> True
                  [] a = False -> b
                  [] b = False -> a
                  [] OTHER -> Null
XorEnds(a, b) == CASE a = b -> False
                   [] a = False -> b
                   [] b = False -> a
                   [] Leaf(a) /\ Leaf(b) -> True
                   [] OTHER -> Null
ImpliesEnds(a, b) == CASE a = b -> True
                       [] a = True -> b
                       [] a = False \/ b = True -> True
                       [] OTHER -> Null
Ends(op, a, b) == CASE op = "and" -> AndEnds(a, b)
                    [] op = "or" -> OrEnds(a, b)
                    [] op = "xor" -> XorEnds(a, b)
                    [] op = "implies" -> ImpliesEnds(a, b)

\* Three operations do not tell their arguments apart (PMIN, PMAX).
Key(op, a, b) == IF op = "implies" \/ a <= b THEN <<a, b>> ELSE <<b, a>>

RECURSIVE Apply(_, _, _, _)
Apply(m, op, a, b) ==
  LET end == Ends(op, a, b)
      key == Key(op, a, b)
      old == thash_locate(m, op, key[1], key[2])
      top == IF Id(m, a) < Id(m, b) THEN Id(m, a) ELSE Id(m, b)
      low(n) == IF Id(m, n) = top THEN Low(m, n) ELSE n
      high(n) == IF Id(m, n) = top THEN High(m, n) ELSE n
      l == Apply(m, op, low(a), low(b))
      r == Apply(l.m, op, high(a), high(b))
  IN  IF end # Null THEN Another(m, end)
      ELSE IF old # Null THEN Another(m, old)
      ELSE Noted(Reduced(r.m, top, l.n, r.n), op, key[1], key[2])

bool_and(m, a, b)     == Apply(m, "and", a, b)
bool_or(m, a, b)      == Apply(m, "or", a, b)
bool_xor(m, a, b)     == Apply(m, "xor", a, b)
bool_implies(m, a, b) == Apply(m, "implies", a, b)

RECURSIVE bool_not(_, _)
bool_not(m, a) ==
  LET old == thash_locate(m, "not", a, True)
      l == bool_not(m, Low(m, a))
      r == bool_not(l.m, High(m, a))
  IN  IF Leaf(a) THEN Another(m, 1 - a)
      ELSE IF old # Null THEN Another(m, old)
      ELSE Noted(Node(r.m, Id(m, a), l.n, r.n), "not", a, True)

\* A variable given the value the operation is named for.
RECURSIVE Cofactor(_, _, _, _)
Cofactor(m, op, a, v) ==
  LET child(k, n) == LET old == thash_locate(k, op, n, v)
                     IN  IF old # Null THEN Another(k, old) ELSE Cofactor(k, op, n, v)
      l == child(m, Low(m, a))
      r == child(l.m, High(m, a))
  IN  IF Id(m, a) > Id(m, v) THEN Another(m, a)
      ELSE IF Id(m, a) = Id(m, v)
           THEN Another(m, IF op = "maketrue" THEN Low(m, a) ELSE High(m, a))
      ELSE Noted(Reduced(r.m, Id(m, a), l.n, r.n), op, a, v)

IsVar(m, v) == Low(m, v) = True /\ High(m, v) = False
bool_maketrue(m, a, v)  == IF IsVar(m, v) THEN Cofactor(m, "maketrue", a, v) ELSE Ret(m, Null)
bool_makefalse(m, a, v) == IF IsVar(m, v) THEN Cofactor(m, "makefalse", a, v) ELSE Ret(m, Null)

----------------------------------------------------------------------------
(* Lists of variables, substitution and quantification.                    *)

\* The merge of the halves of v1[i..i+n-1] goes to the front of v, and from
\* there to the front of v1.  Indices count from 0.
Merged(w, i, n) ==
  LET half == i + (n \div 2)
      pick[j \in i..half, k \in half..(i + n)] ==
        IF j = half /\ k = i + n THEN <<>>
        ELSE IF j < half /\ (k = i + n \/ w[j] < w[k]) THEN <<w[j]>> \o pick[j + 1, k]
        ELSE <<w[k]>> \o pick[j, k + 1]
  IN  pick[i, half]
OverFront(s1, a) == [x \in DOMAIN a |-> IF x < Len(s1) THEN s1[x + 1] ELSE a[x]]

RECURSIVE msort(_, _, _)
msort(a, i, n) ==
  IF n = 0 THEN a
  ELSE IF n = 1 THEN [a EXCEPT !.v1[i] = a.v[i]]
  ELSE LET b == msort(msort(a, i, n \div 2), i + (n \div 2), n - (n \div 2))
           s1 == Merged(b.v1, i, n)
       IN  [v |-> OverFront(s1, b.v), v1 |-> OverFront(s1, b.v1)]

bool_qlist(v) ==
  LET a == [x \in 0..(Len(v) - 1) |-> v[x + 1]]
      b == msort([v |-> a, v1 |-> a], 0, Len(v))
  IN  [x \in 1..Len(v) |-> b.v1[x - 1]]

\* Where a list has the first variable, from loc on, not above the node.
Skip(m, list, a, loc) == Min({x \in loc..Len(list) : Id(m, a) <= list[x]} \cup {Len(list) + 1})

RECURSIVE Subst(_, _, _, _, _)
Subst(m, l1, l2, a, from) ==
  LET loc == Skip(m, l1, a, from)
      old == thash_locate(m, "temp", a, a)
      hit == Id(m, a) = l1[loc]
      next == IF hit THEN loc + 1 ELSE loc
      l == Subst(m, l1, l2, Low(m, a), next)
      r == Subst(l.m, l1, l2, High(m, a), next)
  IN  IF loc > Len(l1) THEN Another(m, a)
      ELSE Noted(IF old # Null THEN Another(m, old)
                 ELSE Node(r.m, IF hit THEN l2[loc] ELSE Id(m, a), l.n, r.n), "temp", a, a)

\* One call with a cache of its own.
Temporary(res) == Ret(thash_free(res.m, "temp"), res.n)
bool_substitute(m, l1, l2, a) ==
  CASE Len(l1) # Len(l2) -> Ret(m, Null)
    [] Len(l1) = 0 -> Ret(m, a)
    [] OTHER -> Temporary(Subst(m, l1, l2, a, 1))

\* The disjunction does not take over the references to its arguments; a new
\* node is not reduced and gets none.
Forget(m, n) == [m EXCEPT !.lost[n] = @ + 1]
Disjoined(m, l, r) == Apply(Forget(Forget(m, l), r), "or", l, r)
Unreferenced(m, id, l, r) ==
  LET new == newbool(m, id, l, r)
  IN  IF hash_locate(m, id, l, r) # Null THEN Node(m, id, l, r)
      ELSE Ret([hash_insert(new.m, new.n) EXCEPT !.bare = TRUE], new.n)

RECURSIVE Exists(_, _, _, _)
Exists(m, list, a, from) ==
  LET loc == Skip(m, list, a, from)
      old == thash_locate(m, "temp", a, a)
      hit == Id(m, a) = list[loc]
      next == IF hit THEN loc + 1 ELSE loc
      l == Exists(m, list, Low(m, a), next)
      r == Exists(l.m, list, High(m, a), next)
  IN  IF loc > Len(list) THEN Another(m, a)
      ELSE IF old # Null THEN Another(m, old)
      ELSE Noted(IF hit THEN Disjoined(r.m, l.n, r.n)
                 ELSE Unreferenced(r.m, Id(m, a), l.n, r.n), "temp", a, a)

bool_exists(m, list, a) == Temporary(Exists(m, list, a, 1))
bool_exists2(m, list, a, b) ==
  LET c == bool_and(m, a, b)
      d == bool_exists(c.m, list, c.n)
  IN  Ret(bool_free(d.m, c.n), d.n)

bool_gc(m) == FoldLeft(thash_free, m, SetToSeq(Cached \ {"temp"}))

----------------------------------------------------------------------------
bool_init ==
  [node |-> [n \in Nodes |-> [ref |-> 0, id |-> IF Leaf(n) THEN LeafId(n) ELSE 0,
                              l |-> Null, r |-> Null]],
   free |-> Nodes \ {True, False}, H |-> [v \in Var |-> {}], TH |-> [op \in Cached |-> <<>>],
   nvar |-> 0, fatal |-> FALSE, lost |-> [n \in Nodes |-> 0], bare |-> FALSE]

VarNode(m, v) == LET new == newbool(INC_REF(INC_REF(m, True), False), v, True, False)
                 IN  Another(hash_insert(new.m, new.n), new.n)
bool_newvar(m) == LET new == VarNode(m, m.nvar) IN Ret([new.m EXCEPT !.nvar = @ + 1], new.n)
bool_var(m, v) ==
  LET k == hash_locate(m, v, True, False)
  IN  IF v >= m.nvar THEN Ret(m, Null) ELSE IF k # Null THEN Another(m, k) ELSE VarNode(m, v)

----------------------------------------------------------------------------
(* A client: it combines the diagrams it holds, and releases each as often *)
(* as it was given it.  A function is the set of the assignments that make *)
(* it true, an assignment the set of its true variables.                   *)

Assignments == SUBSET Var
Literal(v)  == {a \in Assignments : v \in a}
Held        == DOMAIN held
Full        == BagCardinality(held) >= MaxHeld
May(op)     == /\ op \in menu /\ bddcalls < MaxBddCalls /\ ~bdd.fatal /\ ~bdd.bare
               /\ bddcalls' = bddcalls + 1 /\ UNCHANGED menu
Get(res, f) == /\ ~Full
               /\ bdd' = res.m
               /\ held' = IF res.n = Null THEN held ELSE held (+) SetToBag({<<res.n, f>>})

And     == May("and") /\ \E x, y \in Held : Get(bool_and(bdd, x[1], y[1]), x[2] \cap y[2])
Or      == May("or") /\ \E x, y \in Held : Get(bool_or(bdd, x[1], y[1]), x[2] \cup y[2])
Xor     == /\ May("xor")
           /\ \E x, y \in Held : Get(bool_xor(bdd, x[1], y[1]), (x[2] \cup y[2]) \ (x[2] \cap y[2]))
Implies == /\ May("implies")
           /\ \E x, y \in Held : Get(bool_implies(bdd, x[1], y[1]), (Assignments \ x[2]) \cup y[2])
Not     == May("not") /\ \E x \in Held : Get(bool_not(bdd, x[1]), Assignments \ x[2])
Copy    == May("copy") /\ \E x \in Held : Get(Another(bdd, x[1]), x[2])

\* The function of v comes with it: v is a variable when the call succeeds.
MakeTrue == /\ May("maketrue")
            /\ \E x, v \in Held :
                 Get(bool_maketrue(bdd, x[1], v[1]),
                     {a \in Assignments : a \cup {Id(bdd, v[1])} \in x[2]})
MakeFalse == /\ May("makefalse")
             /\ \E x, v \in Held :
                  Get(bool_makefalse(bdd, x[1], v[1]),
                      {a \in Assignments : a \ {Id(bdd, v[1])} \in x[2]})

\* Every variable of the diagram is in the first list (bool.c:1000-1001).
Support(f)  == {v \in Var : \E a \in f : a \cup {v} \notin f \/ a \ {v} \notin f}
Substitute == /\ May("substitute")
              /\ \E x \in Held, s \in Substs :
                   LET l1 == bool_qlist(s[1])
                       l2 == bool_qlist(s[2])
                   IN  /\ Support(x[2]) \subseteq ToSet(l1)
                       /\ \A v \in ToSet(l2) : v < bdd.nvar
                       /\ Get(bool_substitute(bdd, l1, l2, x[1]),
                              {a \in Assignments : {l1[i] : i \in {j \in DOMAIN l1 : l2[j] \in a}} \in x[2]})

Hidden(f, list) == {a \in Assignments : \E b \in f : a \ ToSet(list) = b \ ToSet(list)}
ExistsOf  == /\ May("exists")
             /\ \E x \in Held, q \in Quants :
                  Get(bool_exists(bdd, bool_qlist(q), x[1]), Hidden(x[2], q))
ExistsAnd == /\ May("exists2")
             /\ \E x, y \in Held, q \in Quants :
                  Get(bool_exists2(bdd, bool_qlist(q), x[1], y[1]), Hidden(x[2] \cap y[2], q))

Constant == May("const") /\ \/ Get(Another(bdd, True), Assignments)
                            \/ Get(Another(bdd, False), {})
NewVar   == May("newvar") /\ bdd.nvar < MaxVar /\ Get(bool_newvar(bdd), Literal(bdd.nvar))
OldVar   == May("var") /\ \E v \in Var : Get(bool_var(bdd, v), Literal(v))
Free     == /\ May("free")
            /\ \E x \in Held : bdd' = bool_free(bdd, x[1]) /\ held' = held (-) SetToBag({x})
Gc       == May("gc") /\ bdd' = bool_gc(bdd) /\ UNCHANGED held

BddInit == /\ LET a == bool_newvar(bool_init)
                  b == bool_newvar(a.m)
              IN  bdd = b.m /\ held = SetToBag({<<a.n, Literal(0)>>, <<b.n, Literal(1)>>})
           /\ menu \in Menus /\ bddcalls = 0
BddNext == \/ And \/ Or \/ Xor \/ Implies \/ Not \/ Copy \/ MakeTrue \/ MakeFalse \/ Substitute
           \/ ExistsOf \/ ExistsAnd \/ Constant \/ NewVar \/ OldVar \/ Free \/ Gc
=============================================================================
