-------------------------- MODULE MCMacroDocument --------------------------
(* Scripts of up to MaxEvents events, with delays that two, three or four  *)
(* of add up past the bits of an action and past the bits of a word.       *)
EXTENDS MacroDocument, TLC

CONSTANT MaxEvents

MCKeyCodes == "A" :> 4 @@ "B" :> 5 @@ "1" :> 30
MCModifiers == <<"LCtrl", "LShift", "LAlt", "LWin", "RCtrl", "RShift", "RAlt", "RWin">>

Char(symbol, shift) == [symbol |-> symbol, shift |-> shift]
MCCharacters ==
  "a" :> Char("A", FALSE) @@ "B" :> Char("B", TRUE) @@ "b" :> Char("B", FALSE)
    @@ "1" :> Char("1", FALSE) @@ "!" :> Char("1", TRUE)

Chord == {"LCtrl", "RShift"}
Events ==
  {[press |-> {"A"}], [release |-> {"A"}], [press |-> Chord], [release |-> Chord],
   [delay |-> 1], [delay |-> 5], [type |-> <<"B", "a">>], [type |-> <<"!">>],
   [type |-> <<"~">>], [press |-> {"Loud"}], [press |-> {"A"}, delay |-> 1], <<>>}
MCScripts == UNION {[1 .. n -> Events] : n \in 0 .. MaxEvents}

Act(edge, kind, delay, key) == [edge |-> edge, kind |-> kind, delay |-> delay, key |-> key]

(* A chord recorded with its own gaps, a mouse click, a key of no name.    *)
MCRecorded ==
  {<<Act("Down", "ModifyKey", 3, 225), Act("Down", "NormalKey", 7, 30),
     Act("Up", "NormalKey", 0, 30), Act("Up", "ModifyKey", 1, 225)>>,
   <<Act("Down", "MouseKey", 0, 1)>>,
   <<Act("Down", "NormalKey", 2, 200), Act("Up", "ModifyKey", 0, 232)>>}
=============================================================================
