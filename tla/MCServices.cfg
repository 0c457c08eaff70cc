CONSTANTS
  t3 = t3
  h1 = h1
  h2 = h2
  Tasks = {t1, t2, t3}
  Hosts = {h1, h2}
  Wants <- MCWants
  MaxEntries = 1
  NegativeTtl = FALSE
  MaxFlush = 1
  None = None
  Configs <- MCConfigs
  Queries = {"h", "k"}
  MaxAddrs = 2
  DerpConns = {"c1", "c2", "c3"}
  DerpKey <- MCDerpKey
  DerpCap = 1
  Callers = {"q1", "q2"}
  MaxConns = 2
  MaxIds = 3
  ShortIds = 2
  LongIds = 4
  MaxVersion = 1
  Refreshing = TRUE
SPECIFICATION ServicesSpec
INVARIANTS
  TypesOK CacheBounded SingleFlight AnswersRight TableSound
  AuthenticatedBeforeUse AnswersToOwner MixedOnlyByRace
PROPERTIES
  EveryCallReturns EditsLoaded
CHECK_DEADLOCK FALSE
