----------------------------- MODULE MCReports -----------------------------
(* Bytes of three bits, so that the lengths of layers (12), colours (9)    *)
(* and macro pages (13) need two, and a page fills a report to its end.    *)
EXTENDS Reports

CONSTANTS host, NoReq, NoRep

MCOpByte ==
  [GetKeyMatrix |-> 5, SetKeyMatrix |-> 1, GetProfile |-> 6, SetProfile |-> 2,
   GetLedColors |-> 0, SetLedColors |-> 4, GetMacros |-> 7, SetMacros |-> 3]

Counting(n, from) == [i \in 1 .. n |-> (i + from) % 8]

MCFirst ==
  {[layers |-> <<Zeroes(12), Counting(12, 4)>>, pages |-> <<Zeroes(13), Counting(13, 1)>>,
    colors |-> Zeroes(9), profile |-> <<5, 0, 7>>]}

(* Nothing but a header, enough for the shortest store, everything.        *)
MCReadLens == {5, 14, 21}

(* One slot, and the second layer with that slot.                          *)
MCPatches == {[slot |-> 1, value |-> <<7, 0, 0, 7>>]}
MCWrites ==
  {[op |-> "SetKeyMatrix", at |-> 1, data |-> PatchedBytes(Counting(12, 4), 1, <<7, 0, 0, 7>>)],
   [op |-> "SetMacros", of |-> 2, at |-> 0, data |-> Counting(13, 2)],
   [op |-> "SetMacros", of |-> 2, at |-> 1, data |-> <<6, 6>>],
   [op |-> "SetLedColors", at |-> 0, data |-> Counting(9, 3)]}

=============================================================================
