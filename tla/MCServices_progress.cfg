SPECIFICATION ServicesSpec
CONSTANTS
  r1 = r1  pod = pod  x = x
  tab1 = tab1  tab2 = tab2  user = user  shop = shop
  screen = screen  poller = poller  export = export
  i1 = i1  ask1 = ask1  ask2 = ask2
  v1 = v1  v2 = v2
  None = None
  Replica = {r1}
  Key = {pod}
  Persistent = {pod}
  Value = {x}
  MaxEpoch = 1
  MaxSeq = 2
  MaxWatchers = 1
  MaxQueue = 2
  MaxWire = 1
  MaxLife = 1
  NoStream = NoStream
  Unrestricted = {}
  Client = {tab1, tab2}
  Subject = {user}
  SubjectOf <- MCSubjectOf
  Namespace = {shop}
  Scope <- MCScope
  RingSize = 1
  SubscriberBuffer = 1
  MaxConnections = 2
  MaxPerSubject = 2
  MaxSignals = 2
  MaxHubLife = 2
  NoNotice = NoNotice
  Caller = {screen, poller, export}
  FailureLimit = 2
  Cooldown = 1
  MaxConcurrent = 2
  MaxGeneration = 5
  Nobody = Nobody
  Lost = Lost
  Instance = {i1}
  Asker = {ask1, ask2}
  HomeOf <- MCHomeOf
  TTL = 2
  LockTTL = 2
  LockWait = 1
  RedisCooldown = 1
  Verifier = {v1, v2}
  MaxRotation = 3
  MinRefresh = 2
  Informer = {inf1, inf2}
  NoInformer = NoInformer
  MaxApiMoves = 1
  MaxHiccups = 1
  apod = apod  anode = anode  starting = starting  running = running
  AgentKey = {apod, anode}
  AgentValue = {starting, running}
  Announced = {apod}
  ReadOrder <- MCReadOrder
  NoSnapshot = NoSnapshot
  MaxMoves = 3
INVARIANTS GaugeAgrees NothingOutlivesItsInformer
PROPERTIES ReplicasConverge EveryoneIsTold ImplementsCircuit RecoveredIsUsed EveryCallReturns CurrentKeyIsAccepted ServedIsListed RegistryFollows FeedsAsAssumed
CHECK_DEADLOCK FALSE
