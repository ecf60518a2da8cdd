----------------------------- MODULE RoomService -----------------------------
(***************************************************************************)
(* RoomService (src/server/game/Room.cc): the rooms two matched players    *)
(* share from MATCH_FOUND to the end of their battle, and the counter that *)
(* numbers them. A value R of the service is [nextRoomId, rooms].          *)
(***************************************************************************)
EXTENDS Naturals, UnorderedMap

\* GameMessages::HeroType.
NoHero == "None"
SelectableHeroes == {"Warrior", "Mage", "Archer"}

NoRooms == [nextRoomId |-> 1, rooms |-> <<>>]

HasRoom(R, id) == id \in DOMAIN R.rooms

\* The users a room is shared by.
Members(room) == {room.firstUserId, room.secondUserId}

\* create() returns 0 and changes nothing for a missing or a repeated user.
CanCreate(first, second) == first # 0 /\ second # 0 /\ first # second

CreateRoom(R, first, second) ==
  [nextRoomId |-> R.nextRoomId + 1,
   rooms |-> Put(R.rooms, R.nextRoomId,
                 [firstUserId |-> first, secondUserId |-> second,
                  firstHero |-> NoHero, secondHero |-> NoHero])]

RemoveRoom(R, id) == [R EXCEPT !.rooms = Erase(@, id)]

\* selectHero() returns true: a selectable hero, a member of the room, and no
\* hero confirmed by that member before.
CanSelectHero(R, id, user, hero) ==
  /\ hero \in SelectableHeroes
  /\ HasRoom(R, id)
  /\ \/ user = R.rooms[id].firstUserId /\ R.rooms[id].firstHero = NoHero
     \/ user = R.rooms[id].secondUserId /\ R.rooms[id].secondHero = NoHero

SelectHero(R, id, user, hero) ==
  IF user = R.rooms[id].firstUserId
    THEN [R EXCEPT !.rooms[id].firstHero = hero]
    ELSE [R EXCEPT !.rooms[id].secondHero = hero]

BothHeroesSelected(R, id) ==
  /\ HasRoom(R, id)
  /\ R.rooms[id].firstHero # NoHero
  /\ R.rooms[id].secondHero # NoHero

-----------------------------------------------------------------------------
\* The type of the service, for rooms of `users`.
Rooms(users) ==
  [firstUserId : users, secondUserId : users,
   firstHero : SelectableHeroes \cup {NoHero},
   secondHero : SelectableHeroes \cup {NoHero}]

IsRoomService(R, users) ==
  /\ DOMAIN R = {"nextRoomId", "rooms"}
  /\ R.nextRoomId \in Nat \ {0}
  /\ IsTable(R.rooms, Nat \ {0}, Rooms(users))

=============================================================================
