\* The 256 limit on a room's name is checked against std::string::size(),
\* in bytes, while room.hpp and the assertion message say characters.
CONSTANTS
    a1 = a1  a2 = a2  r1 = r1  p1 = p1
    Accounts <- MCAccounts
    Rooms <- MCRooms
    Participants <- MCParticipants
    Amounts <- MCAmounts
    Names <- MCNames
    Keys <- MCKeys
SPECIFICATION Spec
INVARIANTS NameLimitInCharacters
