------------------------------ MODULE MCImport ------------------------------
(* import-hcl on a keyboard with two layers, two slots and a macro table   *)
(* of two pages.                                                           *)
EXTENDS ImportCommand

CONSTANTS p1, p2, s1, s2, factory, other, m1, m2, mouse, black, red, effect, selfDefine, dim, bright,
  once, thrice

MCOneProc == {p1}
MCTwoProcs == {p1, p2}
MCSlots == {s1, s2}
MCPlain == {factory, other}
MCPlays == {once, thrice}
Reference(index, how) == [macro |-> index, plays |-> how]
MCValues == MCPlain \union {Reference(i, how) : i \in {0, 1}, how \in MCPlays}
MCColors == {black, red}
MCModes == {effect, selfDefine}
MCOneMode == {selfDefine}
MCOneRest == {dim}
MCTwoRests == {dim, bright}
MCMacroNames == {m1, m2, mouse}
MCUnwritable == {mouse}

(* A table of one page and one of two, in which m1 has another index; and  *)
(* one that only the configurator can write.                               *)
MCTables == {<<>>, <<m1>>, <<m2, m1>>}
MCAllTables == MCTables \union {<<mouse>>}
MCPageCount == [t \in MCAllTables |-> Len(t)]
MCPageImages == [table : MCAllTables, part : {0, 1}]
MCFactory == [l \in 0 .. 1 |-> [s \in MCSlots |-> factory]]

(* Out of the box, and after somebody else's configurator.                 *)
OutOfTheBox == [matrix |-> MCFactory, table |-> <<>>, colors |-> [s \in MCSlots |-> black]]
Foreign(table) ==
  [table |-> table,
   matrix |-> [l \in 0 .. 1 |-> [s \in MCSlots |-> IF l = 0 THEN other ELSE Reference(1, once)]],
   colors |-> [s \in MCSlots |-> red]]
MCForeign == {Foreign(t) : t \in MCTables}
MCAllForeign == {Foreign(t) : t \in MCAllTables}
MCFresh == {OutOfTheBox} \union MCForeign

Unmapped == [l \in 0 .. 1 |-> <<>>]
Map(s, action) == [x \in {s} |-> action]
MCDocument(table, plays, layers, lit) ==
  [macros |-> table, plays |-> plays, layers |-> layers, colors |-> lit]

(* A file with everything, one that binds the same name in another table,  *)
(* one with nothing but macros, one that names a macro it lacks, and one   *)
(* whose macro has a mouse step.                                           *)
Full == MCDocument(<<m2, m1>>, <<once, thrice>>, [Unmapped EXCEPT ![0] = Map(s1, m1)], Map(s1, red))
Short == MCDocument(<<m1>>, <<once>>, [Unmapped EXCEPT ![0] = Map(s1, m1), ![1] = Map(s2, other)], <<>>)
MacrosOnly == MCDocument(<<m1>>, <<once>>, Unmapped, <<>>)
Lit == MCDocument(<<m1>>, <<once>>, [Unmapped EXCEPT ![0] = Map(s1, m1)], Map(s1, red))
LightOnly == MCDocument(<<>>, <<>>, Unmapped, Map(s2, red))
Dangling == MCDocument(<<m1>>, <<once>>, [Unmapped EXCEPT ![1] = Map(s1, m2)], <<>>)
WithMouse == MCDocument(<<mouse>>, <<once>>, [Unmapped EXCEPT ![0] = Map(s1, mouse)], <<>>)

MCAllFiles == {Full, Short, MacrosOnly, LightOnly, Dangling, WithMouse}
MCOneFile == {Full}
MCLitFiles == {Lit, Short}
=============================================================================
