---------------------------- MODULE GameMessages ----------------------------
(***************************************************************************)
(* The payloads of the protocol (src/common: GameMessages.h, BinaryStream.h *)
(* and the message types of GameProtocol.h). Each message is a sequence of *)
(* fields, written and read one after the other; its layout names them.    *)
(* Numbers are little-endian. A byte has Base values, 256 in the code, so   *)
(* that the widest number fits what TLC can count.                         *)
(*                                                                         *)
(* A message is [type, fields]. decode's answer is [type, ok, fields].     *)
(***************************************************************************)
EXTENDS Integers, SequencesExt

CONSTANTS
  Base,            \* the number of values of a byte
  kMaxStringBytes  \* the length of the longest string

ASSUME CodecAssumption == Base \in Nat \ {0, 1} /\ kMaxStringBytes \in Nat

MsgType ==
  [HEARTBEAT_REQ |-> \h01, HEARTBEAT_RSP |-> \h02,
   LOGIN_REQ |-> \h10, LOGIN_RSP |-> \h11, REGISTER_REQ |-> \h12, REGISTER_RSP |-> \h13,
   MATCH_JOIN_REQ |-> \h30, MATCH_JOIN_RSP |-> \h31, MATCH_FOUND_NTF |-> \h32,
   MATCH_CANCEL_REQ |-> \h33, MATCH_CANCEL_RSP |-> \h34,
   HERO_SELECT_REQ |-> \h40, HERO_SELECT_RSP |-> \h41,
   BATTLE_START_NTF |-> \h42, ROOM_CLOSED_NTF |-> \h43,
   BATTLE_ATTACK_REQ |-> \h50, BATTLE_STATE_NTF |-> \h51, BATTLE_RESULT_NTF |-> \h52]

-----------------------------------------------------------------------------
(* BinaryWriter and BinaryReader. *)

Width == [u8 |-> 1, u16 |-> 2, u32 |-> 4, u64 |-> 8]

Byte == 0..(Base - 1)

\* What is left of a value when its n lowest bytes are shifted out.
ShiftRight(value, n) ==
  LET shifted[i \in 0..n] == IF i = 0 THEN value ELSE shifted[i - 1] \div Base
  IN  shifted[n]

WriteUnsigned(value, width) == [i \in 1..width |-> ShiftRight(value, i - 1) % Base]

\* One byte more, from the highest down: what the |= of the code add up to.
ShiftIn(value, byte) == Base * value + byte

ReadUnsigned(data, width) == FoldLeft(ShiftIn, 0, Reverse(SubSeq(data, 1, width)))

\* A "flag" is a bool whose reader takes any value but 0 for TRUE.
WriteField(kind, value) ==
  CASE kind \in {"bool", "flag"} -> <<IF value THEN 1 ELSE 0>>
    [] kind = "string"           -> WriteUnsigned(Len(value), Width["u32"]) \o value
    [] OTHER                     -> WriteUnsigned(value, Width[kind])

\* What a member of the struct can hold: a number fits its width.
CanHold(kind, value) ==
  CASE kind \in {"bool", "flag"} -> value \in BOOLEAN
    [] kind = "string"           -> value \in Seq(Byte)
    [] OTHER                     -> value \in Nat /\ ShiftRight(value, Width[kind]) = 0

\* The reader's has() and what else a field must satisfy.
CanRead(kind, data) ==
  CASE kind = "flag"   -> data # <<>>
    [] kind = "bool"   -> data # <<>> /\ data[1] \in {0, 1}
    [] kind = "string" -> /\ Len(data) >= Width["u32"]
                          /\ ReadUnsigned(data, Width["u32"]) <= kMaxStringBytes
                          /\ ReadUnsigned(data, Width["u32"]) <= Len(data) - Width["u32"]
    [] OTHER           -> Len(data) >= Width[kind]

\* How many bytes a field takes, and its value.
ReadBytes(kind, data) ==
  CASE kind \in {"bool", "flag"} -> 1
    [] kind = "string"           -> Width["u32"] + ReadUnsigned(data, Width["u32"])
    [] OTHER                     -> Width[kind]

ReadValue(kind, data) ==
  CASE kind \in {"bool", "flag"} -> data[1] # 0
    [] kind = "string"           -> SubSeq(data, Width["u32"] + 1, ReadBytes(kind, data))
    [] OTHER                     -> ReadUnsigned(data, Width[kind])

-----------------------------------------------------------------------------
(* The layouts: one for each pair of encode and decode. *)

LoginRequest == <<"string", "string">>
RegisterRequest == <<"string", "string">>
MatchJoinRequest == <<>>
MatchCancelRequest == <<>>
HeroSelectRequest == <<"u8">>
BattleAttackRequest == <<>>

\* An error code and its text.
Refusal == <<"u16", "string">>

LoginResponse(success) == <<"flag">> \o IF success THEN <<"u32", "u32", "string">> ELSE Refusal
RegisterResponse(success) == <<"flag">> \o IF success THEN <<"u32", "string">> ELSE Refusal
MatchJoinResponse(accepted) == <<"bool">> \o IF accepted THEN <<>> ELSE Refusal
MatchCancelResponse(accepted) == <<"bool">> \o IF accepted THEN <<>> ELSE Refusal
HeroSelectResponse(accepted) == <<"bool">> \o IF accepted THEN <<>> ELSE Refusal

MatchFoundNotification == <<"u64", "u32", "string", "u32">>
BattleStartNotification == <<"u64", "u8", "u8">>
BattleStateNotification == <<"u64", "u16", "u16", "bool">>
BattleResultNotification == <<"u64", "bool", "u32">>
RoomClosedNotification == <<"u64", "string">>

\* `yes` is the message's first byte, where that decides what follows. A heartbeat
\* has no payload.
Layout(type, yes) ==
  CASE type = "LOGIN_REQ"         -> LoginRequest
    [] type = "REGISTER_REQ"      -> RegisterRequest
    [] type = "MATCH_JOIN_REQ"    -> MatchJoinRequest
    [] type = "MATCH_CANCEL_REQ"  -> MatchCancelRequest
    [] type = "HERO_SELECT_REQ"   -> HeroSelectRequest
    [] type = "BATTLE_ATTACK_REQ" -> BattleAttackRequest
    [] type = "LOGIN_RSP"         -> LoginResponse(yes)
    [] type = "REGISTER_RSP"      -> RegisterResponse(yes)
    [] type = "MATCH_JOIN_RSP"    -> MatchJoinResponse(yes)
    [] type = "MATCH_CANCEL_RSP"  -> MatchCancelResponse(yes)
    [] type = "HERO_SELECT_RSP"   -> HeroSelectResponse(yes)
    [] type = "MATCH_FOUND_NTF"   -> MatchFoundNotification
    [] type = "BATTLE_START_NTF"  -> BattleStartNotification
    [] type = "BATTLE_STATE_NTF"  -> BattleStateNotification
    [] type = "BATTLE_RESULT_NTF" -> BattleResultNotification
    [] type = "ROOM_CLOSED_NTF"   -> RoomClosedNotification
    [] OTHER                      -> <<>>

Responses ==
  {"LOGIN_RSP", "REGISTER_RSP", "MATCH_JOIN_RSP", "MATCH_CANCEL_RSP", "HERO_SELECT_RSP"}

-----------------------------------------------------------------------------
LayoutOf(message) ==
  Layout(message.type, message.type \in Responses /\ message.fields[1])

IsMessage(message) ==
  /\ message.type \in DOMAIN MsgType
  /\ message.fields = [i \in DOMAIN LayoutOf(message) |-> message.fields[i]]
  /\ \A i \in DOMAIN LayoutOf(message) : CanHold(LayoutOf(message)[i], message.fields[i])

\* encode() succeeds: no string is too long.
Encodable(message) ==
  \A i \in DOMAIN message.fields :
    LayoutOf(message)[i] = "string" => Len(message.fields[i]) <= kMaxStringBytes

Encode(message) ==
  FlattenSeq([i \in DOMAIN message.fields |->
                WriteField(LayoutOf(message)[i], message.fields[i])])

\* The next field of a layout is read, unless one before it could not be.
ReadNext(result, kind) ==
  IF result.ok /\ CanRead(kind, result.rest)
    THEN [ok |-> TRUE, fields |-> Append(result.fields, ReadValue(kind, result.rest)),
          rest |-> SubSeq(result.rest, ReadBytes(kind, result.rest) + 1, Len(result.rest))]
    ELSE [result EXCEPT !.ok = FALSE]

ReadFields(layout, data) ==
  FoldLeft(ReadNext, [ok |-> TRUE, fields |-> <<>>, rest |-> data], layout)

Malformed(type) == [type |-> type, ok |-> FALSE, fields |-> <<>>]

\* Faulty variant, to confirm that HandledAsSent can fail: eof() is not asked for.
DecodeBeginning(type, data) ==
  LET result == ReadFields(Layout(type, data # <<>> /\ data[1] # 0), data) IN
  IF result.ok THEN [type |-> type, ok |-> TRUE, fields |-> result.fields]
  ELSE Malformed(type)

\* decode: every field can be read and nothing follows.
Decode(type, data) ==
  LET result == ReadFields(Layout(type, data # <<>> /\ data[1] # 0), data) IN
  IF result.ok /\ result.rest = <<>>
    THEN [type |-> type, ok |-> TRUE, fields |-> result.fields]
    ELSE Malformed(type)

=============================================================================
