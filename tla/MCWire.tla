------------------------------- MODULE MCWire -------------------------------
(***************************************************************************)
(* Every type of message, with strings of no byte and one, numbers whose   *)
(* bytes differ, both values of the bools, and a string that is too long.  *)
(* A byte has 12 values.                                                   *)
(***************************************************************************)
EXTENDS Wire

MCRequests ==
  {[type |-> "HEARTBEAT_REQ", fields |-> <<>>],
   [type |-> "LOGIN_REQ", fields |-> <<<<7>>, <<>>>>],
   [type |-> "REGISTER_REQ", fields |-> <<<<7>>, <<8>>>>],
   [type |-> "REGISTER_REQ", fields |-> <<<<>>, <<8, 9, 9>>>>],
   [type |-> "MATCH_JOIN_REQ", fields |-> <<>>],
   [type |-> "MATCH_CANCEL_REQ", fields |-> <<>>],
   [type |-> "HERO_SELECT_REQ", fields |-> <<3>>],
   [type |-> "BATTLE_ATTACK_REQ", fields |-> <<>>]}

MCAnswers ==
  {[type |-> "LOGIN_RSP", fields |-> <<TRUE, 2, 1010, <<7>>>>],
   [type |-> "LOGIN_RSP", fields |-> <<FALSE, 2, <<9>>>>],
   [type |-> "REGISTER_RSP", fields |-> <<TRUE, 2, <<7>>>>],
   [type |-> "REGISTER_RSP", fields |-> <<FALSE, 3, <<>>>>],
   [type |-> "MATCH_JOIN_RSP", fields |-> <<TRUE>>],
   [type |-> "MATCH_CANCEL_RSP", fields |-> <<FALSE, 5, <<9>>>>],
   [type |-> "HERO_SELECT_RSP", fields |-> <<FALSE, 6, <<>>>>],
   [type |-> "MATCH_FOUND_NTF", fields |-> <<13, 2, <<>>, 1000>>],
   [type |-> "BATTLE_START_NTF", fields |-> <<13, 1, 3>>],
   [type |-> "BATTLE_STATE_NTF", fields |-> <<13, 100, 70, FALSE>>],
   [type |-> "BATTLE_RESULT_NTF", fields |-> <<13, TRUE, 1035>>],
   [type |-> "ROOM_CLOSED_NTF", fields |-> <<13, <<7>>>>]}

=============================================================================
