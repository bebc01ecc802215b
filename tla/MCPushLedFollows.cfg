CONSTANTS
  Drivers = {"button"}
  Users = {"u1"}
  Writers = {"u1"}
  MaxChanges = 2
SPECIFICATION PLSpec
PROPERTY LedFollows
