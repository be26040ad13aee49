SPECIFICATION FairSpec
CONSTANTS
  Plain = {pg, kv}
  Client = api
  Endpoints = {e1, e2}
  Nobody = nobody
INVARIANTS
  EveryFailureTold
PROPERTIES
  StatusComesBack
