----------------------------- MODULE MCStorage -----------------------------
(***************************************************************************)
(* Small instances of the parts of the simulator that only keep data, side *)
(* by side: a behaviour exercises one of them, the other does not move.    *)
(***************************************************************************)
EXTENDS MemProps, SysProps, BddProps

VARIABLE part

Parts == {"memory", "calls", "diagrams"}
Init == /\ part \in Parts /\ MemInit /\ SysInit /\ BddInit
        /\ part # "diagrams" => menu = CHOOSE s \in Menus : TRUE
Only(p) == part = p /\ UNCHANGED part
Next == \/ Only("memory") /\ MemNext /\ UNCHANGED <<scvars, bddvars>>
        \/ Only("calls") /\ SysNext /\ UNCHANGED <<mvars, bddvars>>
        \/ Only("diagrams") /\ BddNext /\ UNCHANGED <<mvars, scvars>>
Spec == Init /\ [][Next]_<<part, mvars, scvars, bddvars>>

----------------------------------------------------------------------------
W(b) == [i \in Lane |-> b]
TheWords == {W(1)}
item(k, a, d) == [kind |-> k, addr |-> a, data |-> d]
TheImages == { <<item("*", 3, <<W(1), W(0), W(1)>>), item("@", 0, <<W(1), W(1)>>)>>,
               <<item("+", 4, <<1, 1>>), item("-", 9, <<1, 0>>), item("word", 4, <<W(1)>>)>> }

ASSUME BytesAgree == LanesAgree

\* 20: the argument strings, 28: a buffer, 40..104: the stack; the regular
\* file is named 100, there is no file 101.
TheCells == (20..23) \cup {28, 29} \cup {4 * i : i \in 10..26}
TheArgvs == { <<<<5, 0>>>>, <<<<5, 0>>, <<0>>>> }
TheFileCalls == {
  <<1005, 100, 0, 0>>, <<1005, 100, 769, 0>>, <<1005, 100, 10, 0>>, <<1005, 101, 0, 0>>,
  <<1008, 100, 0, 0>>, <<1006, 0, 0, 0>>, <<1006, 3, 0, 0>>, <<1000, 1006, 4, 0, 0>>,
  <<1003, 3, 28, 2>>, <<1000, 1003, 4, 28, 2>>, <<1003, 0, 28, 2>>, <<1003, -1, 28, 1>>,
  <<1004, 3, 28, 2>>, <<1000, 1004, 4, 28, 1>>, <<1019, 3, 0, 0>>, <<1019, 4, 0, 2>>,
  <<1158, 0, 100, 28>>, <<1160, 0, 3, 28>> }
TheOtherCalls == {
  <<1013, 29, 0, 0>>, <<1020, 0, 0, 0>>, <<1037, 0, 0, 0>>, <<1040, 0, 0, 0>>, <<1054, 4, 0, 0>>,
  <<1056, 14, 0, 0>>, <<1128, 96, 0, 0>>, <<1130, 14, 0, 0>>, <<1130, 1, 0, 0>>, <<1181, 0, 0, 0>>,
  <<1000, 1181, 0, 0, 0>>, <<1181, 1, 0, 0>>, <<1181, 2, 0, 0>>, <<1181, 3, 0, 0>>, <<1001, 0, 0, 0>>,
  <<1000, 1000, 0, 0, 0>>, <<1017, 1, 0, 0>> }

TheSubsts == { <<<<1, 0>>, <<2, 0>>>>, <<<<0, 1>>, <<1, 2>>>>, <<<<0>>, <<1>>>>, <<<<0>>, <<0, 1>>>> }
TheQuants == { <<0>>, <<1>>, <<1, 0>> }
TheMenus == { {"and", "not", "free", "gc", "var"}, {"or", "xor", "free", "copy"},
              {"implies", "maketrue", "makefalse", "free"},
              {"and", "xor", "exists", "exists2", "free", "gc"},
              {"substitute", "or", "free", "newvar", "const"} }
=============================================================================
