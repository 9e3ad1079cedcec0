CONSTANT
  MaxRetries = 3
SPECIFICATION FairSpec
INVARIANTS TypeOK NoOrphanServer UserHasAHandle
PROPERTIES StartupSettles QuitFinishes CrashEndsApp
