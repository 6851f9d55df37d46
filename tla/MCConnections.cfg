SPECIFICATION ConnSpec
CONSTANTS
  PerTick = 2
  QueueCap = 4
  Modulus = 8
  MaxTick = 4
  NoGame = NoGame
  Live = {"live"}
  Theirs = {"theirs"}
  Own = {"own"}
  MaxLog = 2
  MaxClicks = 4
  MaxRestarts = 1
  MaxQueue = 3
  Guests = {"ann", "bob"}
  Names = {"dux"}
  AddressOf <- OneAddress
  AddressFree = 1
  AccountFree = 2
  MaxDials = 3
  MaxKills = 1
  MaxWaits = 1
  N = 2
  Spots = {1}
  Features = {f1}
  MaxSites = 2
  MaxHp = 3
  MaxOrders = 1
INVARIANTS
  NothingLost InFlightIsExact
  WorldFollowsItsGame
  AccountHasOneOwner WhatWasCreatedStays GuessesAreMetered
  GroundIsFreed OneStructurePerSpot
PROPERTIES 
  FinishedStays AssignedHolds OrphanGoes
CHECK_DEADLOCK FALSE
