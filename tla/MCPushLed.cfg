CONSTANTS
  Drivers = {"sxi_sim", "button", "led", "button_old", "irq_mngr", "main"}
  Users = {"u1", "u2"}
  Writers = {"u1"}
  MaxChanges = 3
SPECIFICATION PLSpec
INVARIANTS NothingLeft FreesWhatItHolds LiveMeansReady
           SleeperHasFlag LedStaleOnlyIfMissed
PROPERTIES OnlyBoardPullsFiles ChangeWakesReader
