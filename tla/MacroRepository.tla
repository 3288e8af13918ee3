--------------------------- MODULE MacroRepository ---------------------------
(***************************************************************************)
(* write_macros and read_macros: the macro table travels in pages.  A      *)
(* write sends the pages the encoded table fills, one report each, and     *)
(* awaits nothing; a read asks for every page.  A process may die between  *)
(* any two reports.  What the firmware puts after a short last page is not *)
(* known: it keeps what was there or clears the page.                      *)
(***************************************************************************)
EXTENDS MacroTable

CONSTANTS
  PageLen,      \* MACRO_PAGE_LEN (512)
  NumPages,     \* MACRO_BUFFER_LEN / MACRO_PAGE_LEN (8)
  Shipped,      \* what the keyboard's macro memory may hold at first
  Lists,        \* macro lists that callers write
  NoList        \* no list

BufferLen == PageLen * NumPages

(* parse_with refuses a file whose table exceeds the buffer.               *)
Fits(list) ==
  /\ EncodeTable(list) \in Seq(Byte)
  /\ Len(EncodeTable(list)) <= BufferLen

ASSUME RepositoryAssumption ==
  /\ PageLen \in Nat \ {0} /\ NumPages \in Nat \ {0}
  /\ \A image \in Shipped : image \in Seq(Byte) /\ Len(image) = BufferLen
  /\ NoList \notin Lists
  /\ BufferLen < OffsetLimit

(* A name is a String, so its UTF-16 is well formed, and validate_macros   *)
(* refuses one that is too long.  A delay of 2^20 ms or more is not in     *)
(* Macros: it is refused by nothing and loses its high bits.               *)
ASSUME ListsAssumption ==
  \A l \in Lists :
    /\ l \in Seq(Macros)
    /\ \A i \in DOMAIN l : WellFormed(l[i].name) /\ Len(l[i].name) <= NameLimit

VARIABLES
  memory,       \* the keyboard's macro memory
  phase,        \* "idle", "writing" or "reading"
  list,         \* the list being written, or written last
  page,         \* the next page to send or to ask for
  whole,        \* TRUE: every page of `list` has been sent
  buffer,       \* what the reading process has copied so far
  result        \* the list decoded last

vars == <<memory, phase, list, page, whole, buffer, result>>

Zeroes == [k \in 1 .. BufferLen |-> 0]
OnPage(k) == (k - 1) \div PageLen = page

-----------------------------------------------------------------------------
Init ==
  /\ memory \in Shipped
  /\ phase = "idle"
  /\ list = NoList
  /\ page = 0
  /\ whole = FALSE
  /\ buffer = Zeroes
  /\ result = NoList

(* Mutant: a page more than full.                                          *)
PageMore(bytes) == Len(bytes) \div PageLen + 1

(* div_ceil.                                                               *)
PackageNum(bytes) == (Len(bytes) + PageLen - 1) \div PageLen

(* An empty list encodes to nothing and so has no page.                    *)
BeginWrite ==
  /\ phase = "idle"
  /\ list' \in Lists
  /\ Fits(list')
  /\ whole' = (PackageNum(EncodeTable(list')) = 0)
  /\ phase' = IF whole' THEN "idle" ELSE "writing"
  /\ page' = 0
  /\ UNCHANGED <<memory, buffer, result>>

(* Mutant: every page sent as the first.                                   *)
Overwritten(bytes, cleared) ==
  [k \in 1 .. BufferLen |-> IF k <= PageLen /\ page * PageLen + k <= Len(bytes)
                              THEN bytes[page * PageLen + k] ELSE memory[k]]

(* The memory after one more page of bytes.                                *)
Stored(bytes, cleared) ==
  [k \in 1 .. BufferLen |-> IF OnPage(k) /\ k <= Len(bytes) THEN bytes[k]
                            ELSE IF OnPage(k) /\ cleared THEN 0 ELSE memory[k]]

WritePage ==
  LET bytes == EncodeTable(list) IN
  /\ phase = "writing"
  /\ \E cleared \in BOOLEAN : memory' = Stored(bytes, cleared)
  /\ page' = page + 1
  /\ whole' = (page + 1 = PackageNum(bytes))
  /\ phase' = IF page + 1 = PackageNum(bytes) THEN "idle" ELSE "writing"
  /\ UNCHANGED <<list, buffer, result>>

BeginRead ==
  /\ phase = "idle"
  /\ phase' = "reading"
  /\ page' = 0
  /\ buffer' = Zeroes
  /\ UNCHANGED <<memory, list, whole, result>>

(* Mutant: the last page is not asked for.                                 *)
EnoughPages == page + 1 >= NumPages - 1

LastPage == page + 1 = NumPages

Copied == [k \in 1 .. BufferLen |-> IF OnPage(k) THEN memory[k] ELSE buffer[k]]

ReadPage ==
  /\ phase = "reading"
  /\ page' = page + 1
  /\ IF LastPage
       THEN phase' = "idle" /\ result' = DecodeTable(Copied) /\ buffer' = Zeroes
       ELSE buffer' = Copied /\ UNCHANGED <<phase, result>>
  /\ UNCHANGED <<memory, list, whole>>

Die ==
  /\ phase # "idle"
  /\ phase' = "idle"
  /\ page' = 0
  /\ buffer' = Zeroes
  /\ UNCHANGED <<memory, list, whole, result>>

Next == BeginWrite \/ WritePage \/ BeginRead \/ ReadPage \/ Die

Spec == Init /\ [][Next]_vars

-----------------------------------------------------------------------------
(* Properties *)

(* Every variable has its type; no page is ever sent past the buffer.      *)
TypeOK ==
  /\ memory \in Seq(Byte) /\ Len(memory) = BufferLen
  /\ buffer \in Seq(Byte) /\ Len(buffer) = BufferLen
  /\ phase \in {"idle", "writing", "reading"}
  /\ page \in 0 .. NumPages
  /\ phase # "idle" => page < NumPages
  /\ whole \in BOOLEAN
  /\ list # NoList => Fits(list)

(* The bytes of the list written last are in memory as far as its pages    *)
(* have been sent, and none of its bytes is left out at the end.           *)
Sent == IF whole THEN BufferLen ELSE IF phase = "writing" THEN page * PageLen ELSE 0
PagesHold ==
  list \notin {NoList, <<>>} =>
    \A k \in 1 .. Len(EncodeTable(list)) : k <= Sent => memory[k] = EncodeTable(list)[k]

(* The step with which a read ends and its pages are decoded.              *)
ReadEnds == phase = "reading" /\ phase' = "idle" /\ page' = page + 1

(* Once a list has been written whole, whatever the memory held before, a  *)
(* read gives exactly that list until the next write: no byte of an older  *)
(* table shows, and nothing is lost where a page ends.                     *)
ReadsBackWritten == [][ReadEnds /\ whole /\ list # <<>> => result' = list]_vars

(* A read gives what one look at the whole memory would have given.        *)
ReadIsSnapshot == [][ReadEnds => result' = DecodeTable(memory)]_vars

(* In the middle of a write, a macro whose record and header entry have    *)
(* been sent already decodes to the list's, though the rest of the table   *)
(* does not.                                                               *)
SentMacrosHold ==
  phase = "writing" =>
    \A i \in DOMAIN list :
      LET record == Record(list[i])
          end == Pair(EncodeTable(list), 4 * i - 3) + Len(record)
      IN 4 * i <= page * PageLen /\ end <= page * PageLen => Listed(memory, i) = list[i]
=============================================================================
