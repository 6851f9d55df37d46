SPECIFICATION LobbySpec
CONSTANTS
  NoOne = NoOne
  Clients = {1, 2}
  Seats = {1, 2, 3}
  Capacity = {1, 2}
  MaxRooms = 1
  Missions = {FALSE, TRUE}
INVARIANT RecordsAgree
CHECK_DEADLOCK FALSE
