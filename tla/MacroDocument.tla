--------------------------- MODULE MacroDocument ---------------------------
(***************************************************************************)
(* One macro and the block it travels in.  import-hcl compiles a block's   *)
(* press, release, delay and type events to timed key actions; export-hcl  *)
(* prints actions as events again.                                         *)
(*                                                                         *)
(* A key name is the set of its parts between plus signs: {"A"},           *)
(* {"LCtrl", "LShift"}.  An event is a record of the attributes it has.    *)
(***************************************************************************)
EXTENDS Integers, Sequences, SequencesExt, FiniteSets

CONSTANTS
  KeyCodes,     \* hid_keycode_table.json turned around: key symbol -> code
  Modifiers,    \* NAMED: the modifier names, in the order of their bits
  Characters,   \* ascii_char_to_key: character -> [symbol, shift]
  Unprintable,  \* the part of a name printed for a key without one
  DelayLimit,   \* an action's delay has twenty bits on the wire (2^20)
  WordLimit,    \* a delay that is being added up is a u32 (2^32)
  Recorded,     \* macros (lists of actions) other tools leave behind
  Scripts       \* blocks (lists of events) users write

Edges == {"Down", "Up"}
Kinds == {"NormalKey", "ModifyKey", "MouseKey", "MouseCursorX", "MouseCursorY", "MouseWheel"}
Byte == 0 .. 255
Actions == [edge : Edges, kind : Kinds, delay : 0 .. (DelayLimit - 1), key : Byte]

Symbols == DOMAIN KeyCodes
FirstModifier == 224    \* HID usage code of the first modifier, LCtrl

(* Every bit of a modifier byte has one name, the second is Shift's; two   *)
(* characters are not typed alike.                                         *)
ASSUME DocumentAssumption ==
  /\ DelayLimit \in Nat \ {0} /\ WordLimit \in Nat /\ DelayLimit <= WordLimit
  /\ \A s \in Symbols : KeyCodes[s] \in Byte
  /\ \A s, t \in Symbols : KeyCodes[s] = KeyCodes[t] => s = t
  /\ DOMAIN Modifiers = 1 .. 8 /\ Modifiers[2] = "LShift"
  /\ \A i, j \in DOMAIN Modifiers : Modifiers[i] = Modifiers[j] => i = j
  /\ Range(Modifiers) \intersect Symbols = {}
  /\ Unprintable \notin Range(Modifiers) \union Symbols
  /\ \A c \in DOMAIN Characters :
       Characters[c] \in [symbol : Symbols, shift : BOOLEAN]
  /\ \A c, d \in DOMAIN Characters : Characters[c] = Characters[d] => c = d

(* As it is parsed: a list of events, each with some of four attributes; a *)
(* delay is a number and typed text a list of characters.                  *)
IsList(s) == Len(s) \in Nat /\ s = [i \in 1 .. Len(s) |-> s[i]]
IsScript(events) ==
  /\ IsList(events)
  /\ \A i \in DOMAIN events :
       LET e == events[i] IN
       /\ e = [a \in DOMAIN e |-> e[a]]
       /\ DOMAIN e \subseteq {"press", "release", "delay", "type"}
       /\ "delay" \in DOMAIN e => e.delay \in Nat
       /\ "type" \in DOMAIN e => IsList(e.type)

ASSUME InputAssumption == Recorded \subseteq Seq(Actions) /\ \A s \in Scripts : IsScript(s)

-----------------------------------------------------------------------------
(* From events to actions *)

IsKey(name) == \E s \in Symbols : name = {s}
IsModifiers(name) == name # {} /\ name \subseteq Range(Modifiers)

(* resolve_macro_key and compile_one_macro: a key is one action, modifiers *)
(* are one action for each bit.                                            *)
Strokes(name) ==
  IF IsKey(name)
    THEN <<[kind |-> "NormalKey", key |-> KeyCodes[CHOOSE s \in Symbols : name = {s}]]>>
    ELSE FlattenSeq([i \in DOMAIN Modifiers |->
           IF Modifiers[i] \in name
             THEN <<[kind |-> "ModifyKey", key |-> FirstModifier + i - 1]>> ELSE <<>>])

Has(event, attribute) == attribute \in DOMAIN event
NameIn(event) == IF Has(event, "press") THEN event.press ELSE event.release
EdgeOf(event) == IF Has(event, "press") THEN "Down" ELSE "Up"

(* Mutant: modifier names are not looked up.                               *)
KeysOnly(events) ==
  \A i \in DOMAIN events :
    LET e == events[i] IN
    /\ Cardinality(DOMAIN e) = 1
    /\ Has(e, "press") \/ Has(e, "release") => IsKey(NameIn(e))
    /\ Has(e, "type") => Range(e.type) \subseteq DOMAIN Characters

(* validate_macros *)
Accepted(events) ==
  \A i \in DOMAIN events :
    LET e == events[i] IN
    /\ Cardinality(DOMAIN e) = 1
    /\ Has(e, "press") \/ Has(e, "release") => IsKey(NameIn(e)) \/ IsModifiers(NameIn(e))
    /\ Has(e, "type") => Range(e.type) \subseteq DOMAIN Characters

Tick == [delay |-> 1]
Tap(name) == <<Tick, [press |-> name], Tick, [release |-> name]>>

(* Mutant: Shift is not released after a character.                        *)
StickyShift(c) ==
  LET tap == Tap({Characters[c].symbol})
  IN IF Characters[c].shift THEN <<Tick, [press |-> {"LShift"}]>> \o tap ELSE tap

(* ascii_text_to_events *)
Keystrokes(c) ==
  LET tap == Tap({Characters[c].symbol})
  IN IF Characters[c].shift
       THEN <<Tick, [press |-> {"LShift"}]>> \o tap \o <<Tick, [release |-> {"LShift"}]>>
       ELSE tap

Typing(text) == FlattenSeq([k \in DOMAIN text |-> Keystrokes(text[k])])
Steps(event) == IF Has(event, "type") THEN Typing(event.type) ELSE <<event>>
Expanded(events) == FlattenSeq([i \in DOMAIN events |-> Steps(events[i])])

(* Mutants: the delay is given to every modifier; it is not cut to the     *)
(* bits it has on the wire.                                                *)
DelayForAll(event, pending) ==
  LET strokes == Strokes(NameIn(event))
  IN [k \in DOMAIN strokes |->
        [edge |-> EdgeOf(event), kind |-> strokes[k].kind, key |-> strokes[k].key,
         delay |-> pending % DelayLimit]]
WideDelay(event, pending) ==
  LET strokes == Strokes(NameIn(event))
  IN [k \in DOMAIN strokes |->
        [edge |-> EdgeOf(event), kind |-> strokes[k].kind, key |-> strokes[k].key,
         delay |-> IF k = 1 THEN pending ELSE 0]]

(* Only the first action of a step waits, and its delay is cut to what the *)
(* encoding holds.                                                         *)
ActionsOf(event, pending) ==
  LET strokes == Strokes(NameIn(event))
  IN [k \in DOMAIN strokes |->
        [edge |-> EdgeOf(event), kind |-> strokes[k].kind, key |-> strokes[k].key,
         delay |-> IF k = 1 THEN pending % DelayLimit ELSE 0]]

(* compile_one_macro: delays add up until there is an action to carry them *)
CompileStep(state, event) ==
  IF Has(event, "delay")
    THEN [state EXCEPT !.pending = (@ + event.delay) % WordLimit,
                       !.overflow = @ \/ state.pending + event.delay >= WordLimit]
    ELSE [state EXCEPT !.pending = 0, !.actions = @ \o ActionsOf(event, state.pending)]

Run(events) ==
  LET after[n \in 0 .. Len(events)] ==
        IF n = 0 THEN [actions |-> <<>>, pending |-> 0, overflow |-> FALSE]
        ELSE CompileStep(after[n - 1], events[n])
  IN after[Len(events)]
Compiled(events) == Run(Expanded(events))

-----------------------------------------------------------------------------
(* From actions to events: dump_macros *)

(* Mutant: the modifiers counted from zero.                                *)
NameBefore(action) ==
  IF action.kind = "NormalKey" /\ \E s \in Symbols : KeyCodes[s] = action.key
    THEN {CHOOSE s \in Symbols : KeyCodes[s] = action.key}
  ELSE IF action.kind = "ModifyKey" /\ action.key - FirstModifier \in DOMAIN Modifiers
    THEN {Modifiers[action.key - FirstModifier]}
  ELSE {Unprintable}

(* A key's symbol, a modifier by its usage code, or no name at all.        *)
NameOf(action) ==
  IF action.kind = "NormalKey" /\ \E s \in Symbols : KeyCodes[s] = action.key
    THEN {CHOOSE s \in Symbols : KeyCodes[s] = action.key}
  ELSE IF action.kind = "ModifyKey" /\ action.key - FirstModifier + 1 \in DOMAIN Modifiers
    THEN {Modifiers[action.key - FirstModifier + 1]}
  ELSE {Unprintable}

EventsOf(action) ==
  LET name == NameOf(action)
      event == IF action.edge = "Down" THEN [press |-> name] ELSE [release |-> name]
  IN IF action.delay > 0 THEN <<[delay |-> action.delay], event>> ELSE <<event>>
Printed(actions) == FlattenSeq([i \in DOMAIN actions |-> EventsOf(actions[i])])

-----------------------------------------------------------------------------
VARIABLES
  macro,        \* the actions the keyboard holds
  script,       \* the events in the document
  printed       \* the macros the document was printed from: at most one

vars == <<macro, script, printed>>

Init ==
  /\ macro \in Recorded
  /\ script \in Scripts
  /\ printed = {}

(* Another tool records a macro.                                           *)
Record ==
  /\ macro' \in Recorded
  /\ UNCHANGED <<script, printed>>

Export ==
  /\ script' = Printed(macro)
  /\ printed' = {macro}
  /\ UNCHANGED macro

(* A file is refused whole.  A delay that overflows while it is added up   *)
(* stops a debug build and wraps around in a release build.                *)
Import ==
  LET compiled == Compiled(script) IN
  /\ IF Accepted(script)
       THEN \/ macro' = compiled.actions
            \/ compiled.overflow /\ macro' = macro
       ELSE macro' = macro
  /\ UNCHANGED <<script, printed>>

Next == Record \/ Export \/ Import

Spec == Init /\ [][Next]_vars

-----------------------------------------------------------------------------
(* Properties *)

(* Every variable has its type: what a keyboard holds is always actions as *)
(* they can be encoded, whatever delays a document adds up.                *)
TypeOK ==
  /\ macro \in Seq(Actions)
  /\ printed \subseteq Seq(Actions)
  /\ \A i \in DOMAIN script : DOMAIN script[i] \subseteq {"press", "release", "delay", "type"}

(* When each stroke of a document happens: all delays before its event,    *)
(* added up.  Strokes of one event happen at one time.                     *)
DelayOf(event) == IF Has(event, "delay") THEN event.delay ELSE 0
Clock(list) ==
  LET clock[i \in 0 .. Len(list)] ==
        IF i = 0 THEN 0 ELSE clock[i - 1] + DelayOf(list[i])
  IN clock
StartOf(events, i) == Clock(events)[i - 1]
StrokesAt(event, at) ==
  IF Has(event, "delay") THEN <<>>
  ELSE LET strokes == Strokes(NameIn(event))
       IN [k \in DOMAIN strokes |-> [at |-> at, edge |-> EdgeOf(event), stroke |-> strokes[k]]]
ScriptTimeline(events) ==
  FlattenSeq([i \in DOMAIN events |-> StrokesAt(events[i], StartOf(events, i))])

(* When each action of a macro happens: every action waits for its delay.  *)
MacroTimeline(actions) ==
  [k \in DOMAIN actions |->
     [at |-> Clock(actions)[k], edge |-> actions[k].edge,
      stroke |-> [kind |-> actions[k].kind, key |-> actions[k].key]]]

(* Between two strokes there is no longer delay than an action can carry.  *)
GapsFit(events) ==
  \A i, j \in 1 .. Len(events) + 1 :
    i <= j /\ (\A k \in i .. j - 1 : Has(events[k], "delay")) =>
      StartOf(events, j) - StartOf(events, i) < DelayLimit

(* A macro plays the strokes of its document at the times the document     *)
(* gives: delays are carried over to the right stroke, consecutive ones    *)
(* add up and chords stay chords, also around typed text.                  *)
SameTimeline ==
  Accepted(script) /\ GapsFit(Expanded(script)) =>
    MacroTimeline(Compiled(script).actions) = ScriptTimeline(Expanded(script))

(* Importing what was printed from a macro gives exactly that macro again. *)
PrintedMacroRestores ==
  \A m \in printed : Accepted(script) => Compiled(script).actions = m

(* Only a macro with a mouse action or an unnamed key cannot be read back. *)
OnlyUnnamedRefused ==
  \A m \in printed : ~Accepted(script) =>
    \E i \in DOMAIN m :
      \/ m[i].kind \notin {"NormalKey", "ModifyKey"}
      \/ m[i].kind = "NormalKey" /\ \A s \in Symbols : KeyCodes[s] # m[i].key
      \/ m[i].kind = "ModifyKey" /\ m[i].key \notin 224 .. 231

(* What a US keyboard makes of actions: Shift held or not, and the text.   *)
Codes(c) == KeyCodes[Characters[c].symbol]
PlayStep(state, action) ==
  LET shift == action.kind = "ModifyKey" /\ action.key = FirstModifier + 1
      chars == {c \in DOMAIN Characters :
                  Codes(c) = action.key /\ Characters[c].shift = state.shift}
  IN IF shift THEN [state EXCEPT !.shift = action.edge = "Down"]
     ELSE IF action.kind = "NormalKey" /\ action.edge = "Down" /\ chars # {}
       THEN [state EXCEPT !.text = Append(@, CHOOSE c \in chars : TRUE)]
     ELSE state
Played(actions) ==
  LET after[n \in 0 .. Len(actions)] ==
        IF n = 0 THEN [shift |-> FALSE, text |-> <<>>] ELSE PlayStep(after[n - 1], actions[n])
  IN after[Len(actions)]

(* A document of typed text and delays types its text, character by        *)
(* character, and leaves Shift as it was.                                  *)
TextOf(events) ==
  FlattenSeq([i \in DOMAIN events |-> IF Has(events[i], "type") THEN events[i].type ELSE <<>>])
TypedTextAppears ==
  Accepted(script) /\ (\A i \in DOMAIN script : Has(script[i], "type") \/ Has(script[i], "delay"))
    => Played(Compiled(script).actions) = [shift |-> FALSE, text |-> TextOf(script)]
=============================================================================
