------------------------------ MODULE Reports ------------------------------
(***************************************************************************)
(* The reports themselves: what protocol.rs, session.rs and repository.rs  *)
(* put into the bytes of a request, what the firmware takes out of them,   *)
(* and what is read from the bytes that come back.  The other modules use  *)
(* Session, where a request is a name and an address and a layer is a      *)
(* function of its slots; here it is shown that the bytes mean that.       *)
(*                                                                         *)
(* The firmware's side follows docs/protocol/hid-frame.md and payloads.md, *)
(* the host's side the code.  Bytes have offsets from 0 in the code and    *)
(* positions from 1 in a sequence.                                         *)
(***************************************************************************)
EXTENDS Integers, Sequences

CONSTANTS
  ByteSize,     \* values of a byte (256)
  OpByte,       \* the eight opcodes: name -> byte
  ReportId,     \* REPORT_ID (9)
  ReportLen,    \* REPORT_LEN (519)
  NumSlots,     \* slots of a layer, and LEDs (126)
  NumLayers,    \* layers (3)
  NumPages,     \* pages of the macro table (8)
  PageLen,      \* MACRO_PAGE_LEN (512)
  ProfileLen,   \* PROFILE_BUFFER_LEN (128)
  ModeAt,       \* PROFILE_LED_MODE_SELECTION_OFFSET (9)
  MarkerAt,     \* PROFILE_SELF_DEFINE_MARKER_OFFSET (33)
  Marker,       \* PROFILE_SELF_DEFINE_MARKER_VALUE (19)
  First,        \* what the keyboard holds at first: a set of stores
  Writes,       \* what callers write: a set of [op, at, of, data], `at` the
                \* layer or page, `of` the pages of a macro table
  Patches,      \* what set-keymap puts into a layer: a set of [slot, value]
  ReadLens,     \* how many bytes a get_feature_report may return
  Host,         \* the process
  NoRequest, NoReply

Byte == 0 .. ByteSize - 1
HeaderLen == 7
Layers == 0 .. NumLayers - 1
Slots == 0 .. NumSlots - 1

LengthOf ==
  [GetKeyMatrix |-> 4 * NumSlots, GetLedColors |-> 3 * NumSlots,
   GetProfile |-> ProfileLen, GetMacros |-> PageLen]

Settings == {"SetKeyMatrix", "SetMacros", "SetLedColors", "SetProfile"}

(* The four lengths differ: 504, 378, 128 and 512 bytes.                   *)
ASSUME FrameAssumption ==
  /\ ByteSize \in Nat \ {0, 1} /\ {1, Marker} \subseteq Byte
  /\ {NumSlots, PageLen, ProfileLen, ReportLen} \subseteq Nat \ {0}
  /\ NumLayers \in 1 .. 4 /\ NumPages \in 1 .. ByteSize
  /\ DOMAIN OpByte = DOMAIN LengthOf \union Settings
  /\ \A o, p \in DOMAIN OpByte : OpByte[o] \in Byte /\ (OpByte[o] = OpByte[p] => o = p)
  /\ {ModeAt, MarkerAt} \subseteq 0 .. ProfileLen - 1 /\ ModeAt # MarkerAt
  /\ \A op \in DOMAIN LengthOf : /\ HeaderLen + LengthOf[op] <= ReportLen
                                 /\ LengthOf[op] < ByteSize * ByteSize
  /\ \A o, p \in DOMAIN LengthOf : LengthOf[o] = LengthOf[p] => o = p
  /\ ReadLens \subseteq 0 .. ReportLen + 1

Image(n) == [1 .. n -> Byte]
Memories ==
  [layers : [1 .. NumLayers -> Image(LengthOf.GetKeyMatrix)],
   pages : [1 .. NumPages -> Image(PageLen)],
   colors : Image(LengthOf.GetLedColors), profile : Image(ProfileLen)]

(* A macro page may be short, everything else is written whole.            *)
Writable(w) ==
  \/ w.op = "SetKeyMatrix" /\ w.at \in Layers /\ w.data \in Image(LengthOf.GetKeyMatrix)
  \/ /\ w.op = "SetMacros" /\ w.at \in 0 .. NumPages - 1 /\ w.of \in Byte
     /\ w.data \in Seq(Byte) /\ Len(w.data) <= PageLen
  \/ w.op = "SetLedColors" /\ w.at = 0 /\ w.data \in Image(LengthOf.GetLedColors)
  \/ w.op = "SetProfile" /\ w.at = 0 /\ w.data \in Image(ProfileLen)

ASSUME DataAssumption ==
  /\ First \subseteq Memories
  /\ \A w \in Writes : Writable(w)
  /\ \A p \in Patches : p.slot \in Slots /\ p.value \in Image(4)

VARIABLES
  stores,       \* the keyboard's memory: [layers, pages, colors, profile]
  settling,     \* TRUE while a SetProfile is being applied
  pending,      \* the Get request it works on, or <<>>
  report,       \* the report it has prepared, report ID first
  waiting,      \* the read the host waits for, [op, at], or NoRequest
  taken         \* what the host read last, [op, at, data], or NoReply

vars == <<stores, settling, pending, report, waiting, taken>>

-----------------------------------------------------------------------------
(* Requests, as the host builds them *)

Zeroes(n) == [i \in 1 .. n |-> 0]
Filled(bytes, n) == bytes \o Zeroes(n - Len(bytes))

(* Mutant: a length that fits one byte.                                    *)
ShortHeader(op, byte1, byte3, byte4, length) ==
  <<OpByte[op], byte1, 0, byte3, byte4, length % ByteSize, 0>>
Header(op, byte1, byte3, byte4, length) ==
  <<OpByte[op], byte1, 0, byte3, byte4, length % ByteSize, length \div ByteSize>>

(* build_request, with cmd_val 0; byte1 is (table << 2) | layer, table 0.  *)
BuildRequest(op, byte1, length, payload) ==
  Filled(Header(op, byte1, 1, 0, length) \o payload, ReportLen)

(* Mutant: the page where other requests have their address.               *)
PageAsAddress(page) == BuildRequest("GetMacros", page, PageLen, <<>>)
BuildMacroGetPageRequest(page) ==
  Filled(Header("GetMacros", 0, 1, page, PageLen), ReportLen)

BuildMacroSetPageRequest(of, page, payload) ==
  Filled(Header("SetMacros", 0, of, page, Len(payload)) \o payload, ReportLen)

Getting(op, at) ==
  IF op = "GetMacros" THEN BuildMacroGetPageRequest(at)
  ELSE BuildRequest(op, at, LengthOf[op], <<>>)

Setting(w) ==
  IF w.op = "SetMacros" THEN BuildMacroSetPageRequest(w.of, w.at, w.data)
  ELSE BuildRequest(w.op, w.at, Len(w.data), w.data)

-----------------------------------------------------------------------------
(* Reports, as the firmware understands and makes them *)

OpOf(body) == CHOOSE op \in DOMAIN OpByte : OpByte[op] = body[1]
DataLength(body) == body[6] + ByteSize * body[7]
AddressOf(body) ==
  IF OpOf(body) \in {"GetMacros", "SetMacros"} THEN body[5] ELSE body[2] % 4
Payload(body) == SubSeq(body, HeaderLen + 1, HeaderLen + DataLength(body))

StoreFor(op, at) ==
  CASE op = "GetKeyMatrix" -> stores.layers[at + 1]
    [] op = "GetMacros" -> stores.pages[at + 1]
    [] op = "GetLedColors" -> stores.colors
    [] op = "GetProfile" -> stores.profile

Overlaid(old, new) == new \o SubSeq(old, Len(new) + 1, Len(old))

(* A Set report goes to its store, a Get report is worked on.              *)
Received(body) ==
  LET at == AddressOf(body) + 1
      data == Payload(body) IN
  CASE OpOf(body) = "SetKeyMatrix" -> [stores EXCEPT !.layers[at] = Overlaid(@, data)]
    [] OpOf(body) = "SetMacros" -> [stores EXCEPT !.pages[at] = Overlaid(@, data)]
    [] OpOf(body) = "SetLedColors" -> [stores EXCEPT !.colors = Overlaid(@, data)]
    [] OpOf(body) = "SetProfile" -> [stores EXCEPT !.profile = Overlaid(@, data)]
    [] OTHER -> stores

Send(body) ==
  /\ stores' = Received(body)
  /\ settling' = (settling \/ OpOf(body) = "SetProfile")
  /\ pending' = IF OpOf(body) \in DOMAIN LengthOf THEN body ELSE pending
  /\ UNCHANGED report

Blank == <<ReportId>> \o Zeroes(ReportLen)

(* The header is echoed; the data follows, as much as was asked for.       *)
Answered(body) ==
  <<ReportId>> \o Filled(SubSeq(body, 1, HeaderLen)
                           \o SubSeq(StoreFor(OpOf(body), AddressOf(body)), 1, DataLength(body)),
                         ReportLen)

Answer ==
  /\ pending # <<>>
  /\ report' = Answered(pending)
  /\ pending' = <<>>
  /\ UNCHANGED <<stores, settling, waiting, taken>>

Settle ==
  /\ settling /\ settling' = FALSE
  /\ UNCHANGED <<stores, pending, report, waiting, taken>>

-----------------------------------------------------------------------------
(* The host *)

Init ==
  /\ stores \in First
  /\ settling = FALSE
  /\ pending = <<>>
  /\ report = Blank
  /\ waiting = NoRequest
  /\ taken = NoReply

Reads == [op : {"GetKeyMatrix"}, at : Layers] \union [op : {"GetMacros"}, at : 0 .. NumPages - 1]
           \union [op : {"GetLedColors", "GetProfile"}, at : {0}]

ASSUME NothingAssumption ==
  /\ NoRequest \notin Reads \union [by : {Host}, req : Reads]
  /\ NoReply \notin [op : DOMAIN LengthOf, at : Nat, data : Seq(Byte)]

Ask(r) ==
  /\ waiting = NoRequest
  /\ Send(Getting(r.op, r.at))
  /\ waiting' = r
  /\ taken' = NoReply

(* parse_response, for the bytes that were read: no payload, and a panic,  *)
(* if the header is not there or promises more than there is.              *)
Complete(raw) ==
  /\ Len(raw) > HeaderLen
  /\ 1 + HeaderLen + raw[7] + ByteSize * raw[8] <= Len(raw)
ParseResponse(raw) ==
  SubSeq(raw, HeaderLen + 2, 1 + HeaderLen + raw[7] + ByteSize * raw[8])

(* The length assertions; a page is copied without one.                    *)
Expected(op, payload) == op = "GetMacros" \/ Len(payload) = LengthOf[op]
PageOf(payload) == SubSeq(Filled(payload, PageLen), 1, PageLen)

(* Mutant: the whole buffer, of which n bytes have been read.              *)
WholeBuffer(n) == Filled(SubSeq(report, 1, n), ReportLen + 1)
BytesRead(n) == SubSeq(report, 1, n)

(* get_feature_report into a fresh buffer.                                 *)
Take ==
  /\ waiting # NoRequest
  /\ \E n \in ReadLens :
       LET raw == BytesRead(n)
           payload == ParseResponse(raw) IN
       taken' = IF ~Complete(raw) \/ ~Expected(waiting.op, payload) THEN NoReply
                ELSE [op |-> waiting.op, at |-> waiting.at,
                      data |-> IF waiting.op = "GetMacros" THEN PageOf(payload) ELSE payload]
  /\ waiting' = NoRequest
  /\ UNCHANGED <<stores, settling, pending, report>>

Put(w) ==
  /\ waiting = NoRequest
  /\ Send(Setting(w))
  /\ taken' = NoReply
  /\ UNCHANGED waiting

Holds(op) == taken # NoReply /\ taken.op = op

(* set_keymap: four bytes of the layer that was read.                      *)
PatchedBytes(bytes, slot, value) ==
  [i \in 1 .. Len(bytes) |-> IF (i - 1) \div 4 = slot THEN value[((i - 1) % 4) + 1] ELSE bytes[i]]
Patch(p) ==
  /\ Holds("GetKeyMatrix")
  /\ Put([op |-> "SetKeyMatrix", at |-> taken.at, data |-> PatchedBytes(taken.data, p.slot, p.value)])

(* Mutant: the marker forgotten.                                           *)
ModeAlone(bytes) == [bytes EXCEPT ![ModeAt + 1] = 1]
SelfDefined(bytes) == [bytes EXCEPT ![ModeAt + 1] = 1, ![MarkerAt + 1] = Marker]
EnterSelfDefine ==
  /\ Holds("GetProfile")
  /\ Put([op |-> "SetProfile", at |-> 0, data |-> SelfDefined(taken.data)])

Next ==
  \/ Answer \/ Settle
  \/ \E r \in Reads : Ask(r)
  \/ Take
  \/ \E w \in Writes : Put(w)
  \/ \E p \in Patches : Patch(p)
  \/ EnterSelfDefine

Spec == Init /\ [][Next]_vars

-----------------------------------------------------------------------------
(* The same as Session sees it *)

Slotted(bytes) == [s \in Slots |-> SubSeq(bytes, 4 * s + 1, 4 * s + 4)]
Planes(bytes) == [s \in Slots |-> [c \in 0 .. 2 |-> bytes[s + c * NumSlots + 1]]]
Parts(bytes) ==
  [mode |-> <<bytes[ModeAt + 1], bytes[MarkerAt + 1]>>,
   rest |-> [i \in (1 .. ProfileLen) \ {ModeAt + 1, MarkerAt + 1} |-> bytes[i]]]

Meaning(op, data) ==
  CASE op \in {"GetKeyMatrix", "SetKeyMatrix"} -> Slotted(data)
    [] op \in {"GetMacros", "SetMacros"} -> data
    [] op \in {"GetLedColors", "SetLedColors"} -> Planes(data)
    [] op \in {"GetProfile", "SetProfile"} -> Parts(data)

RequestOf(body) == [op |-> OpOf(body), at |-> AddressOf(body)]

Reply ==
  IF report = Blank THEN NoReply
  ELSE LET body == Tail(report) IN
       [op |-> OpOf(body), at |-> AddressOf(body), data |-> Meaning(OpOf(body), Payload(body))]

Session == INSTANCE Session WITH
  Procs <- {Host},
  Values <- Image(4),
  PageImages <- Image(PageLen),
  Colors <- [0 .. 2 -> Byte],
  Modes <- Byte \X Byte,
  Rests <- [(1 .. ProfileLen) \ {ModeAt + 1, MarkerAt + 1} -> Byte],
  Exclusive <- TRUE,
  Prompt <- FALSE,
  matrix <- [l \in Layers |-> Slotted(stores.layers[l + 1])],
  macros <- [i \in 0 .. NumPages - 1 |-> stores.pages[i + 1]],
  colors <- Planes(stores.colors),
  profile <- Parts(stores.profile),
  asked <- IF pending = <<>> THEN NoRequest ELSE [by |-> Host, req |-> RequestOf(pending)],
  reply <- Reply,
  holders <- {Host}

ASSUME MeaningAssumption == NoReply \notin Session!Replies

-----------------------------------------------------------------------------
(* Properties *)

(* Whatever was sent and read, the bytes on both sides are well formed:    *)
(* seen as Session sees them, stores, request and report have their types. *)
TypeOK ==
  /\ pending = <<>> \/ Len(pending) = ReportLen
  /\ Len(report) = ReportLen + 1
  /\ report = Blank \/ Len(Payload(Tail(report))) = LengthOf[OpOf(Tail(report))]
  /\ Session!DeviceTypeOK

(* A write reaches its store and its layer or page, whole, and nothing     *)
(* else; a patch changes one slot of the layer that was read; the switch   *)
(* to SelfDefine the mode and nothing else; a read asks for what it names; *)
(* and the answer is what the store holds.                                 *)
Written(w) ==
  CASE w.op = "SetKeyMatrix" -> Session!SetKeyMatrix(w.at, Slotted(w.data))
    [] w.op = "SetMacros" -> Session!SetMacros(w.at, Overlaid(stores.pages[w.at + 1], w.data))
    [] w.op = "SetLedColors" -> Session!SetLedColors(Planes(w.data))
    [] w.op = "SetProfile" -> Session!SetProfile(Parts(w.data))

ReportsCarryRequests ==
  [][/\ \A w \in Writes : Put(w) => Written(w)
     /\ \A p \in Patches : Patch(p) =>
          Session!SetKeyMatrix(taken.at, [Slotted(taken.data) EXCEPT ![p.slot] = p.value])
     /\ EnterSelfDefine =>
          Session!SetProfile([Parts(taken.data) EXCEPT !.mode = <<1, Marker>>])
     /\ \A r \in Reads : Ask(r) => Session!SendRequest(Host, r)
     /\ Answer => Session!DeviceAnswers]_vars

(* What a read returns is what the report holds, or nothing: a short read  *)
(* never yields zeroes or bytes of an older report, and a report of        *)
(* another store is found out by its length, except as a macro page.       *)
TakenIsReply ==
  [][Take =>
       /\ taken' # NoReply /\ waiting.op # "GetMacros" =>
            /\ Session!LengthMatches(waiting.op)
            /\ Meaning(waiting.op, taken'.data) = Reply.data
       /\ taken' # NoReply /\ waiting.op = "GetMacros" /\ Session!LengthMatches("GetMacros") =>
            taken'.data = Reply.data]_vars
=============================================================================
