------------------------------ MODULE MCLayers ------------------------------
(* Three slots, two of them named, and documents of up to two mappings or  *)
(* three colours: of one slot by three names, of another, of none, names   *)
(* repeated or not.                                                        *)
EXTENDS LayerDocument, TLC

CONSTANTS esc, f1, other, shift, unbound, empty, none

MCKeys == "F1" :> 0 @@ "Esc" :> 1
MCNumbers == "slot0" :> 0 @@ "slot1" :> 1 @@ "slot01" :> 1 @@ "slot2" :> 2 @@ "slot3" :> 3
MCNumbered == 0 :> "slot0" @@ 1 :> "slot1" @@ 2 :> "slot2"
MCValues == {esc, f1, other, shift, unbound}
MCKeyless == {shift, unbound}
MCDefaults == 0 :> ("Esc" :> esc @@ "F1" :> f1) @@ 1 :> ("F1" :> other) @@ 2 :> <<>>
MCLevels == {0, 9}

Hexes == <<"#000000", "#000009", "#000900", "#000909", "#090000", "#090009", "#090900", "#090909">>
MCHex == [rgb \in RGB |-> Hexes[(rgb[1] * 4 + rgb[2] * 2 + rgb[3]) \div 9 + 1]]
MCCss == [text \in {MCHex[rgb] : rgb \in RGB} |-> CHOOSE rgb \in RGB : MCHex[rgb] = text]
           @@ "red" :> <<9, 0, 0>> @@ "lime" :> <<0, 9, 0>>

(* As shipped; keys unbound, mapped or bare modifiers; lit or dark.        *)
Lights(R, G, B) ==
  [i \in 0 .. 8 |-> IF (i < 3 /\ i \in R) \/ (i \in 3 .. 5 /\ i - 3 \in G) \/ (i > 5 /\ i - 6 \in B)
                    THEN 9 ELSE 0]
Board(first, lights) == [matrix |-> [FactoryMatrix EXCEPT ![0] = first], leds |-> lights]
MCBoards ==
  {[matrix |-> FactoryMatrix, leds |-> Lights({}, {}, {})],
   Board([s \in 0 .. 2 |-> IF s = 1 THEN unbound ELSE other], Lights({0, 1}, {1}, {2})),
   Board([s \in 0 .. 2 |-> other], Lights({}, {2}, {0, 2})),
   Board([s \in 0 .. 2 |-> IF s = 0 THEN shift ELSE other], Lights({2}, {}, {})),
   [matrix |-> [l \in 0 .. 2 |-> [s \in 0 .. 2 |-> IF l = s THEN f1 ELSE FactoryMatrix[l][s]]],
    leds |-> Lights({0, 1, 2}, {0, 1, 2}, {0, 1, 2})],
   [matrix |-> [l \in 0 .. 2 |-> [s \in 0 .. 2 |-> unbound]], leds |-> Lights({1}, {}, {})]}

Names == {"Esc", "slot1", "slot01", "slot2", "slot3", "Escape"}
UpToTwo(S) == UNION {[1 .. n -> S] : n \in 0 .. 2}
Document(theme, layers, colors, brightness) ==
  [theme |-> theme, layers |-> layers,
   lighting |-> [brightness |-> brightness, speed |-> none, colors |-> colors]]
Aliases == "alert" :> "red" @@ "red" :> "lime"

MCTyped ==
  {Document(Empty, "normal" :> blocks, Empty, none) :
     blocks \in UpToTwo([key : Names, action : {f1, other}])}
  \union
  {Document(Aliases, "normal" :> (3 :> [key |-> "F1", action |-> other]) @@ "fn" :> Empty, blocks, none) :
     blocks \in UpToTwo([key : Names, color : {"red", "alert"}])}
  \union
  {Document(Aliases, Empty, blocks, none) :
     blocks \in {<<[key |-> "Esc", color |-> first], [key |-> name, color |-> second],
                   [key |-> "Esc", color |-> third]>> :
                   first \in {"red", "alert", "reddish"}, second \in {"red", "alert"},
                   third \in {"red", "alert"}, name \in {"slot1", "F1"}}}
  \union
  {Document(Empty, "fn2" :> <<[key |-> "Esc", action |-> empty]>>, Empty, none),
   Document(Empty, "fn3" :> Empty, Empty, none), Document(Empty, Empty, Empty, 100),
   Document(Empty, Empty, Empty, 101), Document("alert" :> "reddish", Empty, Empty, none),
   Document(Empty, Empty, <<[key |-> "Esc", color |-> "alert"]>>, none)}
=============================================================================
