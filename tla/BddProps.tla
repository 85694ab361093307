------------------------------ MODULE BddProps ------------------------------
(***************************************************************************)
(* Correctness of the decision diagrams.                                   *)
(***************************************************************************)
EXTENDS Bdd

\* Evaluating the diagram n.
RECURSIVE Holds(_, _)
Holds(n, a) == IF Leaf(n) THEN n = True
               ELSE Holds(IF Id(bdd, n) \in a THEN Low(bdd, n) ELSE High(bdd, n), a)
FunctionOf(n) == {a \in Assignments : Holds(n, a)}

\* A diagram held stands for the function it was asked for, whatever was
\* computed, cached, freed and reused in between; two diagrams are the same
\* node exactly when they are the same function, which is how clients compare
\* them (bool.c:431-1074).  Holds up to the first node bool_exists hands out
\* without a reference.
DiagramsCanonical ==
  ~bdd.bare =>
    /\ \A x \in Held : FunctionOf(x[1]) = x[2]
    /\ \A x, y \in Held : x[1] = y[1] <=> x[2] = y[2]

\* Every reference is counted once, none is counted that nobody holds: a node
\* is free exactly when no diagram, cache or client refers to it, and nothing
\* is freed twice (bool.h:53-57, bool.c:241-311, 1124-1141).  A count that
\* has reached REFMAX is no longer a count: the node stays.
InUse == Nodes \ bdd.free
Times(t, n) == Cardinality({i \in DOMAIN t : t[i] = n})
References(n) ==
  MapThenSumSet(LAMBDA x : IF x[1] = n THEN held[x] ELSE 0, Held)
    + MapThenSumSet(LAMBDA p : Times(<<Low(bdd, p), High(bdd, p)>>, n), InUse)
    + MapThenSumSet(LAMBDA op : FoldLeft(LAMBDA sum, t : sum + Times(t, n), 0, bdd.TH[op]), Cached)
    + bdd.lost[n]
CountsExact ==
  ~bdd.bare =>
    /\ ~bdd.fatal
    /\ \A n \in Nodes \ {True, False} :
         LET ref == bdd.node[n].ref
         IN  /\ ref = RefMax \/ ref = References(n)
             /\ n \in bdd.free <=> ref = 0
=============================================================================
