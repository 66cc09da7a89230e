SPECIFICATION Spec
CONSTANTS
  Tiles = {1, 2, 3}
  Other = 0
  Nobody = nobody
  Profiles <- AllRounds
INVARIANTS TypeOK RoundRecovered CertainIsRight LegalOrder DoraTiming OneDoubtConverts
  ReplayedAlike MajsoulRecovered MeldsKeepTheirTiles
PROPERTY NoAttemptTwice
CHECK_DEADLOCK FALSE
