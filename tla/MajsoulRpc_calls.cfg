SPECIFICATION FairSpec
CONSTANTS
  Calls = {a, b, c}
  NoCall = NoCall
  Modulus = 3
  CounterMod = 7
  Tries = 2
  Starts = {5}
INVARIANTS TypeOK NoLeak OwnResponseBeforeTimeout ClosedIsTrue
PROPERTIES EveryCallReturns
CHECK_DEADLOCK FALSE
