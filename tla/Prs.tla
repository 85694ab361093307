-------------------------------- MODULE Prs --------------------------------
(***************************************************************************)
(* The production-rule simulator, lib/prs.c: an asynchronous circuit of    *)
(* nodes that are true, false or unknown, each pulled up and pulled down   *)
(* by a guard.  Guards are trees whose vertices count the true (or false)  *)
(* and the unknown sons; when a node changes, the counts are brought up to *)
(* date from the leaves to the root, and a guard that changes schedules an *)
(* event for its node.                                                     *)
(*                                                                         *)
(* A circuit, as the parser leaves it, is a record                         *)
(*   ex[e]      an expression: type, u (its parent, 0: none), node         *)
(*   valx0[e]   its initial number of unknown sons                         *)
(*   guard[d][n]  root of the guard that pulls n in direction d, or 0      *)
(*   out[n]     the leaves of n, in the order they were parsed             *)
(*   delay[n], alias[n] (n if it has none)                                 *)
(*   rings[d]   the exclusion rings, sequences of nodes                    *)
(*   aborted    an assertion of the parser failed                          *)
(* "up" and "dn" stand for n->up and exclhi, n->dn and excllo.             *)
(***************************************************************************)
EXTENDS Heap, Integers, SequencesExt, FiniteSetsExt

CONSTANTS PrsNode,    \* names of nodes
          Netlists,   \* function from names of netlists to their items
          Inputs      \* Inputs[c]: what the environment of netlist c sets,
                    \* <<node, ticks from now>>

T == 0
F == 1
X == 2
not_table(v) == CASE v = T -> F [] v = F -> T [] OTHER -> X
Dirs == {"up", "dn"}
Other(d) == IF d = "up" THEN "dn" ELSE "up"
Pulled(d) == IF d = "up" THEN T ELSE F               \* what the direction makes of a node
Goal(d, v) == IF d = "up" THEN v ELSE not_table(v)   \* ... when its guard is v

----------------------------------------------------------------------------
(* The parser.  An expression is [op, node, args] with op "var", "not",    *)
(* "and", "or".                                                            *)

newexpr(c, type, node, nx) ==
  [c EXCEPT !.ex = Append(@, [type |-> type, u |-> 0, node |-> node]), !.valx0 = Append(@, nx)]

RECURSIVE canonical_name(_, _)
canonical_name(c, n) == IF c.alias[n] = n THEN n ELSE canonical_name(c, c.alias[n])

Adopt(c, sons, u) == [c EXCEPT !.ex = [e \in DOMAIN @ |-> IF e \in sons THEN [@[e] EXCEPT !.u = u] ELSE @[e]]]

\* unary, term and expr: the last expression made is the root.
RECURSIVE expr(_, _)
expr(c, t) ==
  LET son(r, a) == LET d == expr(r.c, a) IN [c |-> d, ids |-> r.ids \cup {Len(d.ex)}]
      sons == FoldLeft(son, [c |-> c, ids |-> {}], t.args)
      n    == canonical_name(c, t.node)
  IN  IF t.op = "var"
      THEN LET d == newexpr(c, "var", t.node, 1) IN [d EXCEPT !.out[n] = Append(@, Len(d.ex))]
      ELSE LET d == newexpr(sons.c, t.op, "", Len(t.args)) IN Adopt(d, sons.ids, Len(d.ex))

Son(c, e) == CHOOSE x \in DOMAIN c.ex : c.ex[x].u = e

\* or_merge shares the "or" of either expression; then the guard's root is
\* put above what came out.
Joined(c, or, e) == [Adopt(c, {e}, or) EXCEPT !.valx0[or] = @ + 1]
or_merge(c, e1, e2, root) ==
  LET d == newexpr(c, "or", "", 2)
  IN  IF c.ex[e2].type = "or" THEN Adopt(Joined(c, e2, e1), {e2}, root)
      ELSE IF c.ex[e1].type = "or" THEN Adopt(Joined(c, e1, e2), {e1}, root)
      ELSE Adopt(Adopt(d, {e1, e2}, Len(d.ex)), {Len(d.ex)}, root)
merge_or(c, d, n, e) == or_merge(c, Son(c, c.guard[d][n]), e, c.guard[d][n])

parse_prs(c0, item) ==
  LET n == canonical_name(c0, item.node)
      c == [expr(c0, item.expr) EXCEPT !.delay[n] = item.delay]
      e == Len(c.ex)
      g == newexpr(c, item.dir, item.node, 0)
  IN  IF c.guard[item.dir][n] # 0 THEN merge_or(c, item.dir, n, e)
      ELSE Adopt([g EXCEPT !.guard[item.dir][n] = e + 1], {e}, e + 1)

\* merge_nodes follows a null pointer if the first node has no guard to join
\* with, and its assertion about the leaves of the second one cannot hold.
CanMerge(c, n1, n2) == /\ c.out[n2] = <<>>
                       /\ \A d \in Dirs : c.guard[d][n2] # 0 => c.guard[d][n1] # 0
merge_nodes(c, n1, n2) ==
  LET both(b, d) == IF c.guard[d][n2] = 0 THEN b ELSE merge_or(b, d, n1, Son(b, c.guard[d][n2]))
  IN  [FoldLeft(both, c, <<"up", "dn">>) EXCEPT !.guard["up"][n2] = 0, !.guard["dn"][n2] = 0, !.alias[n2] = n1]
parse_connection(c, item) ==
  LET n1 == canonical_name(c, item.n1)
      n2 == canonical_name(c, item.n2)
  IN  IF n1 = n2 THEN c
      ELSE IF CanMerge(c, n1, n2) THEN merge_nodes(c, n1, n2) ELSE [c EXCEPT !.aborted = TRUE]

\* The ring as it is run through: the first, then the last to the second.
parse_excl(c, item) == [c EXCEPT !.rings[item.dir] = Append(@, <<item.nodes[1]>> \o Reverse(Tail(item.nodes)))]

parse_file(items) ==
  LET all(v) == [n \in PrsNode |-> v]
      parse(c, item) == IF c.aborted THEN c
                        ELSE CASE item.kind = "rule" -> parse_prs(c, item)
                               [] item.kind = "connect" -> parse_connection(c, item)
                               [] item.kind = "excl" -> parse_excl(c, item)
  IN  FoldLeft(parse,
        [ex |-> <<>>, valx0 |-> <<>>, guard |-> [d \in Dirs |-> all(0)], out |-> all(<<>>), delay |-> all(1),
         alias |-> [n \in PrsNode |-> n], rings |-> [d \in Dirs |-> <<>>], aborted |-> FALSE], items)

Circuits == [k \in DOMAIN Netlists |-> parse_file(Netlists[k])]

----------------------------------------------------------------------------
(* The simulation.  sim is a record                                        *)
(*   val, queue, exq   the fields of each node; queue is the value of its  *)
(*                     event, NoEvent without one                          *)
(*   ev, evx           val and valx of each expression                     *)
(*   heap              eventQueue; keys count from the time now            *)
(*   pending, excl     pendingQ, prsexclhi and prsexcllo, while in a step  *)
(*   resetting, failed  inside prs_initialize; an assertion failed         *)
VARIABLES net,       \* its name
          circuit,   \* what the parser makes of it
          sim
prsvars == <<net, circuit, sim>>

NoEvent == -1
Canonical == {n \in PrsNode : circuit.alias[n] = n}
NodeOf(e) == canonical_name(circuit, circuit.ex[e].node)
GuardVal(x, d, n) == IF circuit.guard[d][n] = 0 THEN F ELSE x.ev[circuit.guard[d][n]]
HasGuard(d, n) == circuit.guard[d][n] # 0
RingsOf(d, n) == SelectSeq(circuit.rings[d], LAMBDA r : Contains(r, n))

newevent(x, n, v) == [x EXCEPT !.queue[n] = v, !.exq[n] = FALSE, !.failed = @ \/ x.queue[n] # NoEvent]
deleteevent(x, n) == [x EXCEPT !.queue[n] = NoEvent, !.exq[n] = FALSE]

\* prs_set_nodetime, t ticks from now: an event already there stays.
prs_set_nodetime(x, n, v, t) ==
  IF x.queue[n] # NoEvent \/ v = x.val[n] THEN x
  ELSE [newevent(x, n, v) EXCEPT !.heap = heap_insert(@, t, n)]

insert_exclQ(x, d, n) == [x EXCEPT !.excl[d] = Append(@, n), !.exq[n] = TRUE]
Scheduled(x, n) == [x EXCEPT !.heap = heap_insert(@, circuit.delay[n], n)]

----------------------------------------------------------------------------
(* Changes of guards.                                                      *)

\* Where an event that pulls n in direction d goes.
Enqueued(x, d, n) == IF RingsOf(d, n) # <<>> THEN insert_exclQ(x, d, n)
                     ELSE IF HasGuard(Other(d), n) THEN [x EXCEPT !.pending = Append(@, n)]
                     ELSE Scheduled(x, n)

\* prs_upguard and prs_dnguard: the pairs of a guard's value and a pending
\* event that make the event unknown (no node has unstab set).
Disturbed(d) == IF d = "up" THEN {<<T, F>>, <<F, T>>, <<X, T>>} ELSE {<<T, T>>, <<F, F>>, <<X, T>>}

\* The guard of direction d of n has become v.
guard_changed(x, d, n, v) ==
  LET o     == Other(d)
      q     == x.queue[n]
      holds == GuardVal(x, o, n) = T
  IN  IF q = NoEvent
      THEN IF v # F /\ x.val[n] # Goal(d, v) THEN Enqueued(newevent(x, n, Goal(d, v)), d, n)
           ELSE IF v = F /\ holds THEN Enqueued(newevent(x, n, Pulled(o)), o, n)
           ELSE x
      ELSE IF x.exq[n] THEN x
      ELSE IF v = F /\ holds /\ q = X /\ x.val[n] # Pulled(o) THEN [x EXCEPT !.queue[n] = Pulled(o)]
      ELSE IF <<v, q>> \in Disturbed(d) THEN [x EXCEPT !.queue[n] = X]
      ELSE x

Value(x, e) == LET type == circuit.ex[e].type  n == x.ev[e]
               IN  CASE type = "and" -> IF n > 0 THEN F ELSE IF x.evx[e] = 0 THEN T ELSE X
                     [] type = "or"  -> IF n > 0 THEN T ELSE IF x.evx[e] = 0 THEN F ELSE X
                     [] OTHER -> n

\* What one son adds to val: "and" counts the false ones, "or" the true ones.
Tally(b) == IF b THEN 1 ELSE 0
CountedAnyway(type, v) == Tally(v = F)   \* a mutant: "or" as well
Counted(type, v) == Tally(v = IF type = "and" THEN F ELSE T)

RECURSIVE propagate_up(_, _, _, _)
propagate_up(x, e, prev, v) ==
  LET u    == circuit.ex[e].u
      type == circuit.ex[u].type
      y    == IF type = "not" THEN [x EXCEPT !.ev[u] = not_table(v)]
              ELSE [x EXCEPT !.ev[u]  = @ - Counted(type, prev) + Counted(type, v),
                             !.evx[u] = @ - Tally(prev = X) + Tally(v = X)]
  IN  IF type \in Dirs THEN guard_changed([x EXCEPT !.ev[u] = v], type, NodeOf(u), v)
      ELSE IF Value(y, u) # Value(x, u) THEN propagate_up(y, u, Value(x, u), Value(y, u))
      ELSE y

----------------------------------------------------------------------------
(* One event.                                                              *)

NotRetried(x, d, n) == x   \* a mutant: the others of the ring are forgotten
\* Nodes of a ring that n leaves free are looked at again.
Retried(x, d, n) ==
  LET again(y, m) == IF y.queue[m] = NoEvent /\ GuardVal(y, d, m) = T
                     THEN insert_exclQ(newevent(y, m, Pulled(d)), d, m) ELSE y
  IN  FoldLeft(again, x, FlattenSeq(RingsOf(d, n)))

\* Interference is looked for when all guards are up to date.
SettlePending(x, n) ==
  LET v == IF GuardVal(x, "up", n) # F /\ GuardVal(x, "dn", n) # F THEN X ELSE x.queue[n]
  IN  IF x.val[n] # v THEN Scheduled([x EXCEPT !.queue[n] = v], n) ELSE deleteevent(x, n)

\* An event of a ring goes to the queue if no node of the ring is pulled that
\* way or about to be; otherwise it is dropped.
Claimed(x, d, r) == \E m \in Range(r) : x.val[m] = Pulled(d) \/ (x.queue[m] = Pulled(d) /\ ~x.exq[m])
SettleExcl(x, d, n) ==
  LET try(y, r) == IF Contains(r, n) /\ ~Claimed(y, d, r) THEN [Scheduled(y, n) EXCEPT !.exq[n] = FALSE] ELSE y
      y == FoldLeft(try, x, circuit.rings[d])
  IN  IF y.exq[n] THEN deleteevent(y, n) ELSE y

prs_step(x) ==
  LET n    == x.heap[1].value
      v    == x.queue[n]
      rest == heap_remove_min(x.heap)
      out  == [x EXCEPT !.heap = [i \in DOMAIN rest |-> [rest[i] EXCEPT !.key = @ - x.heap[1].key]],
                        !.queue[n] = NoEvent]
      leaf(y, e)   == propagate_up(y, e, x.val[n], v)
      fired        == FoldLeft(leaf, [out EXCEPT !.val[n] = v, !.failed = @ \/ x.val[n] = v], circuit.out[n])
      retried      == IF v = X THEN fired ELSE Retried(fired, IF v = F THEN "up" ELSE "dn", n)
      settled      == FoldLeft(SettlePending, [retried EXCEPT !.pending = <<>>], retried.pending)
      excl(y, d)   == FoldLeft(LAMBDA z, m : SettleExcl(z, d, m), [y EXCEPT !.excl[d] = <<>>], y.excl[d])
  IN  IF v = X /\ x.val[n] = X THEN out ELSE FoldLeft(excl, settled, <<"up", "dn">>)

\* prs_initialize makes every node unknown and runs until nothing is left.
setX(n, x) == IF x.queue[n] # NoEvent /\ ~x.exq[n] THEN [x EXCEPT !.queue[n] = X]
              ELSE prs_set_nodetime(x, n, X, 0)

----------------------------------------------------------------------------
\* The state prs_file leaves.
Powered ==
  LET all(v) == [n \in PrsNode |-> v]
      types  == [e \in DOMAIN circuit.ex |-> circuit.ex[e].type]
  IN  [val |-> all(X), queue |-> all(NoEvent), exq |-> all(FALSE),
       ev |-> [e \in DOMAIN types |-> IF types[e] \in {"and", "or", "var"} THEN 0 ELSE X],
       evx |-> circuit.valx0, heap |-> <<>>, pending |-> <<>>, excl |-> [d \in Dirs |-> <<>>],
       resetting |-> FALSE, failed |-> circuit.aborted]

PrsInit == net \in DOMAIN Netlists /\ circuit = Circuits[net] /\ sim = Powered

Running == ~sim.failed /\ UNCHANGED <<net, circuit>>

SetNode == \E i \in Inputs[net], v \in {T, F} :
  Running /\ ~sim.resetting /\ sim' = prs_set_nodetime(sim, canonical_name(circuit, i[1]), v, i[2])

Step == Running /\ sim.heap # <<>> /\ sim' = prs_step(sim)

Initialize == /\ Running /\ ~sim.resetting
              /\ sim' = [FoldSet(setX, sim, Canonical) EXCEPT !.resetting = TRUE]
Initialized == /\ Running /\ sim.resetting /\ sim.heap = <<>>
               /\ sim' = [sim EXCEPT !.resetting = FALSE]

PrsNext == SetNode \/ Step \/ Initialize \/ Initialized
=============================================================================
