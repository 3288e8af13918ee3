------------------------------- MODULE Device -------------------------------
(***************************************************************************)
(* The keyboard, as rk-a72 sees it through HID feature reports: four       *)
(* stores (key matrix, macro pages, LED colours, active profile), the      *)
(* request it is working on and the one report a get_feature_report reads. *)
(*                                                                         *)
(* The firmware is not in the repository.  Everything here is what         *)
(* protocol.rs, session.rs and repository.rs rely on: a Set report takes   *)
(* effect when it is accepted, a Get report makes the device prepare an    *)
(* answer, and the report that can be read is the last one it prepared.    *)
(***************************************************************************)
EXTENDS Integers

CONSTANTS
  Procs,        \* running rk-a72 processes (they name who asked)
  NumLayers,    \* KeyMatrix layers (3 on the A72: normal, fn, fn2)
  Slots,        \* KeyMatrix slots, which are also the LED slots
  Values,       \* slot values
  NumPages,     \* pages of the macro table (8 on the A72)
  PageImages,   \* contents of a macro page
  Colors,       \* RGB triples
  Modes,        \* LED modes: LedModeSelection with its paired marker byte
  Rests,        \* the 126 other profile bytes
  NoRequest,    \* the device has nothing to answer
  NoReply       \* nothing has been prepared yet: the report reads as zeroes

ASSUME SizeAssumption == NumLayers \in Nat \ {0} /\ NumPages \in Nat \ {0}

VARIABLES
  matrix,       \* layer -> slot -> value
  macros,       \* page number -> page image
  colors,       \* slot -> colour
  profile,      \* [mode, rest]
  settling,     \* TRUE while a SetProfile is still being applied
  asked,        \* the Get request the device is working on, and who sent it
  reply         \* the report the next get_feature_report returns

stores == <<matrix, macros, colors, profile, settling>>
deviceVars == <<stores, asked, reply>>

Layers == 0 .. NumLayers - 1
Pages == 0 .. NumPages - 1
KeyBuffers == [Slots -> Values]
ColorBuffers == [Slots -> Colors]
Profiles == [mode : Modes, rest : Rests]

-----------------------------------------------------------------------------
(* Requests carry the opcode and the one address field it uses: the layer  *)
(* (byte1) for the key matrix, the page index for the macro table.         *)
GetKeyMatrix(layer) == [op |-> "GetKeyMatrix", at |-> layer]
GetMacros(page) == [op |-> "GetMacros", at |-> page]
GetLedColors == [op |-> "GetLedColors", at |-> 0]
GetProfile == [op |-> "GetProfile", at |-> 0]

Requests == {GetKeyMatrix(l) : l \in Layers} \union {GetMacros(i) : i \in Pages}
              \union {GetLedColors, GetProfile}

ASSUME NoRequestAssumption == NoRequest \notin [by : Procs, req : Requests]

(* What the device sends back for a request: the opcode and the address    *)
(* are echoed, the data is what the store holds when it prepares the reply *)
Answer(req) ==
  [op |-> req.op, at |-> req.at,
   data |-> CASE req.op = "GetKeyMatrix" -> matrix[req.at]
              [] req.op = "GetMacros" -> macros[req.at]
              [] req.op = "GetLedColors" -> colors
              [] req.op = "GetProfile" -> profile]

Replies == [op : {"GetKeyMatrix"}, at : Layers, data : KeyBuffers]
             \union [op : {"GetMacros"}, at : Pages, data : PageImages]
             \union [op : {"GetLedColors"}, at : {0}, data : ColorBuffers]
             \union [op : {"GetProfile"}, at : {0}, data : Profiles]

ASSUME NoReplyAssumption == NoReply \notin Replies

(* Payload length by opcode.  The four lengths differ, so the length       *)
(* checks of repository.rs tell the stores apart, but not two layers.      *)
PayloadLen(op) ==
  CASE op = "GetKeyMatrix" -> 504
    [] op = "GetMacros" -> 512
    [] op = "GetLedColors" -> 378
    [] op = "GetProfile" -> 128

ReplyLen == IF reply = NoReply THEN 0 ELSE PayloadLen(reply.op)

DeviceTypeOK ==
  /\ matrix \in [Layers -> KeyBuffers]
  /\ macros \in [Pages -> PageImages]
  /\ colors \in ColorBuffers
  /\ profile \in Profiles
  /\ settling \in BOOLEAN
  /\ asked \in [by : Procs, req : Requests] \union {NoRequest}
  /\ reply \in Replies \union {NoReply}

-----------------------------------------------------------------------------
(* The device prepares its answer to the pending request. *)
DeviceAnswers ==
  /\ asked # NoRequest
  /\ asked' = NoRequest
  /\ reply' = Answer(asked.req)
  /\ UNCHANGED stores

(* The device has finished applying a mode change. *)
DeviceSettles ==
  /\ settling
  /\ settling' = FALSE
  /\ UNCHANGED <<matrix, macros, colors, profile, asked, reply>>

(* The user picks a lighting effect or a brightness on the keyboard itself *)
UserSetsProfile(new) ==
  /\ profile # new
  /\ profile' = new
  /\ UNCHANGED <<matrix, macros, colors, settling, asked, reply>>

(* The four Set reports. *)
SetKeyMatrix(layer, buffer) ==
  /\ matrix' = [matrix EXCEPT ![layer] = buffer]
  /\ UNCHANGED <<macros, colors, profile, settling, asked, reply>>

SetMacros(page, image) ==
  /\ macros' = [macros EXCEPT ![page] = image]
  /\ UNCHANGED <<matrix, colors, profile, settling, asked, reply>>

SetLedColors(buffer) ==
  /\ colors' = buffer
  /\ UNCHANGED <<matrix, macros, profile, settling, asked, reply>>

SetProfile(new) ==
  /\ profile' = new
  /\ settling' = TRUE
  /\ UNCHANGED <<matrix, macros, colors, asked, reply>>
=============================================================================
