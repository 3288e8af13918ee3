----------------------------- MODULE MacroTable -----------------------------
(***************************************************************************)
(* The macro table as bytes: a header of four bytes for each macro, its    *)
(* record's offset and length, then the records.  A record is the byte     *)
(* length of the name, the name in UTF-16LE and four bytes per action.     *)
(*                                                                         *)
(* A name is the sequence of its UTF-16 units.                             *)
(***************************************************************************)
EXTENDS Integers, Sequences, SequencesExt

CONSTANT NoMacro      \* what a record that does not decode gives

Byte == 0 .. (2^8 - 1)
Unit == 0 .. (2^16 - 1)
Kinds == 0 .. 5       \* NormalKey, ModifyKey, MouseKey, CursorX, CursorY, Wheel
Edges == 0 .. 1       \* Down, Up

DelayLimit == 2^20    \* an encoded delay has twenty bits
Actions == [edge : Edges, kind : Kinds, delay : 0 .. (DelayLimit - 1), key : Byte]
Macros == [name : Seq(Unit), actions : Seq(Actions)]

ASSUME NoMacroAssumption == NoMacro \notin Macros

-----------------------------------------------------------------------------
(* MacroAction *)

(* Mutant: the delay's high bits dropped.                                  *)
EncodeShortDelay(a) ==
  <<a.edge * 128 + a.kind * 16, (a.delay \div 256) % 256, a.delay % 256, a.key>>

EncodeAction(a) ==
  <<a.edge * 128 + a.kind * 16 + ((a.delay \div 2^16) % 16),
    (a.delay \div 2^8) % 256, a.delay % 256, a.key>>

KindOf(bytes) == (bytes[1] \div 16) % 8
DecodeAction(bytes) ==
  [edge |-> bytes[1] \div 128, kind |-> KindOf(bytes),
   delay |-> (bytes[1] % 16) * 2^16 + bytes[2] * 2^8 + bytes[3], key |-> bytes[4]]

-----------------------------------------------------------------------------
(* Macro *)

Pair(bytes, at) == bytes[at] + 256 * bytes[at + 1]
Quad(bytes, i) == SubSeq(bytes, 4 * i - 3, 4 * i)

NameBytes(name) ==
  [k \in 1 .. 2 * Len(name) |->
     IF k % 2 = 1 THEN name[(k + 1) \div 2] % 256 ELSE name[k \div 2] \div 256]

(* serialize: the length is cut to a byte.                                 *)
Record(m) ==
  <<(2 * Len(m.name)) % 256>> \o NameBytes(m.name)
    \o FlattenSeq([i \in DOMAIN m.actions |-> EncodeAction(m.actions[i])])

HighSurrogate == 55296 .. 56319
LowSurrogate == 56320 .. 57343

NameLimit == 127      \* UTF-16 units of a name whose bytes a byte can count

(* String::from_utf16 accepts a name if its surrogates come in pairs.      *)
WellFormed(name) ==
  /\ \A i \in DOMAIN name : name[i] \in HighSurrogate =>
       i < Len(name) /\ name[i + 1] \in LowSurrogate
  /\ \A i \in DOMAIN name : name[i] \in LowSurrogate =>
       i > 1 /\ name[i - 1] \in HighSurrogate

(* deserialize: an odd byte of a name and up to three bytes at the end of  *)
(* the record are ignored; one action of an unknown kind drops the macro.  *)
MacroOf(bytes) ==
  LET len == bytes[1]
      name == [i \in 1 .. len \div 2 |-> Pair(bytes, 2 * i)]
      rest == SubSeq(bytes, len + 2, Len(bytes))
      steps == 1 .. Len(rest) \div 4
  IN IF /\ bytes # <<>> /\ 1 + len <= Len(bytes)
        /\ WellFormed(name)
        /\ \A i \in steps : KindOf(Quad(rest, i)) \in Kinds
       THEN [name |-> name, actions |-> [i \in steps |-> DecodeAction(Quad(rest, i))]]
       ELSE NoMacro

-----------------------------------------------------------------------------
(* The table *)

(* Mutant: offsets counted from the end of the header.                     *)
StartOfData(records) ==
  [i \in DOMAIN records |-> Len(FlattenSeq(SubSeq(records, 1, i - 1)))]

(* Where each record starts, after the header.                             *)
Start(records) ==
  [i \in DOMAIN records |->
     4 * Len(records) + Len(FlattenSeq(SubSeq(records, 1, i - 1)))]

EncodeTable(macros) ==
  LET records == [i \in DOMAIN macros |-> Record(macros[i])]
      start == Start(records)
      Entry(i) == <<start[i] % 256, (start[i] \div 256) % 256,
                    Len(records[i]) % 256, (Len(records[i]) \div 256) % 256>>
  IN FlattenSeq([i \in DOMAIN macros |-> Entry(i)]) \o FlattenSeq(records)

OffsetLimit == 2^16   \* an offset or a length has two bytes

(* The record of header entry i, or NoMacro if it does not fit the buffer. *)
Entries(buffer) == {i \in 1 .. Pair(buffer, 1) \div 4 : 4 * i <= Len(buffer)}
Listed(buffer, i) ==
  LET offset == Pair(buffer, 4 * i - 3)
      length == Pair(buffer, 4 * i - 1)
  IN IF offset + length <= Len(buffer)
       THEN MacroOf(SubSeq(buffer, offset + 1, offset + length))
       ELSE NoMacro

(* Entries that do not decode are left out, and the rest moves up.         *)
IfDecoded(m) == IF m = NoMacro THEN <<>> ELSE <<m>>
DecodeTable(buffer) ==
  FlattenSeq([i \in Entries(buffer) |-> IfDecoded(Listed(buffer, i))])
=============================================================================
