SPECIFICATION FairSpec
CONSTANTS
  Wallets = {1, 2, 3}
  Unchecked = {3}
  Keys = {1, 2}
  Groups = {g}
  Txns = {t1, t2}
  Amounts = {1, 2}
  t1 = t1
  t2 = t2
  MaxOps <- MCMaxOps
  NoLock = NoLock
  NoTxn = NoTxn
  Opening <- MCOpening
  OpeningLocks <- MCOpeningLocks
  OpeningLocked <- MCOpeningLocked
INVARIANTS Solvent LockedIsBacked NoWaitCycle
PROPERTIES ImplementsLedger EnteredEnds
CHECK_DEADLOCK FALSE
