------------------------------ MODULE RoomOps ------------------------------
(***************************************************************************)
(* The room operations of the protocol library: the operation structs of  *)
(* src/libraries/protocol/include/graphene/protocol/room.hpp and their     *)
(* validate() checks in src/libraries/protocol/room.cpp.  No evaluator and *)
(* no operation variant of this repository refers to them, so their only  *)
(* behaviour is the stateless check a node runs on an operation it is      *)
(* given: the model is a client submitting operations one after another    *)
(* and the verdict validate() gives each.                                  *)
(*                                                                         *)
(* A std::string is the bytes it holds.  A name or key is modelled as the  *)
(* sequence of its characters, each given as the number of bytes UTF-8     *)
(* encodes it in, so that Len is its length in characters and ByteSize is *)
(* what std::string::size() returns.                                       *)
(***************************************************************************)
EXTENDS Integers, Sequences, FiniteSets

CONSTANTS
    Accounts,       \* account_id_type values
    Rooms,          \* room_id_type values
    Participants,   \* room_participant_id_type values
    Amounts,        \* fee.amount values (share_type, signed)
    Names,          \* strings: sequences of UTF-8 character widths
    Keys            \* encrypted keys: sequences of UTF-8 character widths

VARIABLES
    op,             \* the operation last submitted
    valid           \* whether its validate() returned without FC_ASSERT failing

vars == <<op, valid>>

(* std::string::size(): the number of bytes, the j-th byte of the i-th   *)
(* character counted once.                                                 *)
ByteSize(s) == Cardinality(UNION {{<<i, j>> : j \in 1 .. s[i]} : i \in DOMAIN s})

(* The literal bound of the name checks, room.cpp lines 42 and 57. *)
NameSizeLimit == 256

(* The operation structs, room.hpp lines 40-140; base_operation's         *)
(* extensions carry nothing here.  room_rotate_key_operation is not        *)
(* declared in room.hpp: its fields are those room.cpp lines 100-102 use.  *)
RoomCreateOps ==
    [kind : {"room_create"}, fee : Amounts, owner : Accounts,
     name : Names, room_key : Keys]
RoomUpdateOps ==
    [kind : {"room_update"}, fee : Amounts, owner : Accounts, room : Rooms,
     name : Names]
RoomAddParticipantOps ==
    [kind : {"room_add_participant"}, fee : Amounts, owner : Accounts,
     room : Rooms, participant : Accounts, content_key : Keys]
RoomRemoveParticipantOps ==
    [kind : {"room_remove_participant"}, fee : Amounts, owner : Accounts,
     participant_id : Participants]
RoomRotateKeyOps ==
    [kind : {"room_rotate_key"}, fee : Amounts, new_room_key : Keys,
     participant_keys : UNION {[S -> Keys] : S \in SUBSET Accounts}]

RoomOperations ==
    RoomCreateOps \cup RoomUpdateOps \cup RoomAddParticipantOps
        \cup RoomRemoveParticipantOps \cup RoomRotateKeyOps

(* room_create_operation::validate, room.cpp lines 38-44. *)
ValidateRoomCreate(o) ==
    /\ o.fee >= 0
    /\ o.name # <<>>
    /\ ByteSize(o.name) <= NameSizeLimit
    /\ o.room_key # <<>>

(* room_update_operation::validate, room.cpp lines 53-58. *)
ValidateRoomUpdate(o) ==
    /\ o.fee >= 0
    /\ o.name # <<>>
    /\ ByteSize(o.name) <= NameSizeLimit

(* room_add_participant_operation::validate, room.cpp lines 67-71. *)
ValidateRoomAddParticipant(o) == o.fee >= 0 /\ o.content_key # <<>>

(* room_remove_participant_operation::validate, room.cpp lines 80-83. *)
ValidateRoomRemoveParticipant(o) == o.fee >= 0

(* room_rotate_key_operation::validate, room.cpp lines 98-103. *)
ValidateRoomRotateKey(o) ==
    /\ o.fee >= 0
    /\ o.new_room_key # <<>>
    /\ DOMAIN o.participant_keys # {}

(* validate() dispatched on the operation's type. *)
Validate(o) ==
    CASE o.kind = "room_create" -> ValidateRoomCreate(o)
      [] o.kind = "room_update" -> ValidateRoomUpdate(o)
      [] o.kind = "room_add_participant" -> ValidateRoomAddParticipant(o)
      [] o.kind = "room_remove_participant" -> ValidateRoomRemoveParticipant(o)
      [] o.kind = "room_rotate_key" -> ValidateRoomRotateKey(o)

Init ==
    /\ op \in RoomOperations
    /\ valid = Validate(op)

(* A client submits another operation and the node validates it. *)
Submit ==
    \E o \in RoomOperations :
        /\ op' = o
        /\ valid' = Validate(o)

Next == Submit

Spec == Init /\ [][Next]_vars

-----------------------------------------------------------------------------
TypeOK ==
    /\ op \in RoomOperations
    /\ valid \in BOOLEAN

(* The check room.hpp line 48 documents ("Room name (max 256 chars)") and  *)
(* the FC_ASSERT messages of room.cpp lines 42 and 57 state ("Room name    *)
(* too long (max 256 characters)"): a name is accepted when it has between *)
(* 1 and 256 characters, whatever bytes encode them.                       *)
DocumentedNameCheck(o) ==
    o.name # <<>> /\ Len(o.name) <= NameSizeLimit

(* The name check validate() makes on room_create and room_update accepts *)
(* exactly the names the header and the assertion messages describe.       *)
NameLimitInCharacters ==
    op.kind \in {"room_create", "room_update"} =>
        (valid <=> (Validate([op EXCEPT !.name = <<1>>]) /\ DocumentedNameCheck(op)))

=============================================================================
