------------------------------ MODULE MCMacros ------------------------------
(* A macro memory of four pages of eight bytes, so that headers, names and *)
(* actions are cut by page ends.                                           *)
EXTENDS MacroRepository

Act(edge, kind, delay, key) == [edge |-> edge, kind |-> kind, delay |-> delay, key |-> key]
Mac(name, actions) == [name |-> name, actions |-> actions]

Tap == Mac(<<65>>, <<Act(0, 0, 0, 4), Act(1, 0, 50, 4)>>)
Emoji == Mac(<<55357, 56832>>, <<>>)
Chord == Mac(<<55357, 56832>>, <<Act(0, 1, 1048575, 224), Act(1, 1, 0, 224)>>)

(* Fifteen bytes, and as many as there are.                                *)
MCLists == {<<>>, <<Tap>>, <<Tap, Chord>>}

Padded(bytes, fill) == [k \in 1 .. 32 |-> IF k <= Len(bytes) THEN bytes[k] ELSE fill]

(* One macro whose only action has kind 6, and one that decodes.           *)
Unknown == <<8, 0, 5, 0, 13, 0, 5, 0,   0, 96, 0, 1, 9,   0, 16, 0, 2, 224>>

MCShipped == {Padded(<<>>, 0), Padded(EncodeTable(<<Emoji, Tap>>), 255)}
MCShippedUnknown == {Padded(Unknown, 0)}
MCShippedEmpty == {Padded(<<>>, 0)}
=============================================================================
