SPECIFICATION StoresSpec
CONSTANTS
  admin = admin  tab1 = tab1  root = root  user = user  shop = shop  bank = bank  elsewhere = elsewhere
  i1 = i1  i2 = i2  ask1 = ask1  ask2 = ask2
  draft1 = draft1  draft2 = draft2  author = author
  a1 = a1  a2 = a2  uid = uid  n2 = n2  gvr1 = gvr1  gvr2 = gvr2
  \* signals
  NoStream = NoStream
  Client = {admin, tab1}
  Subject = {root, user}
  SubjectOf <- MCSubjectOf
  Namespace = {shop}
  Scope <- MCScope
  Unrestricted = {admin}
  RingSize = 1
  SubscriberBuffer = 1
  MaxConnections = 2
  MaxPerSubject = 1
  MaxSignals = 2
  MaxHubLife = 2
  \* query cache
  Nobody = Nobody
  Lost = Lost
  Instance = {i1, i2}
  Asker = {ask1, ask2}
  HomeOf <- MCHomeOf
  TTL = 2
  LockTTL = 2
  LockWait = 1
  RedisCooldown = 1
  \* in-process cache
  CacheKey = {q1, q2, q3}
  Size = {1, 2, 3}
  Life = {1}
  MaxEntries = 2
  MaxLocalBytes = 4
  \* refresh of a session
  Tab = {t1, t2}
  NoHolder = NoHolder
  Orphan = Orphan
  MaxToken = 2
  MaxVersion = 3
  \* index of sessions
  Sid = {s1, s2, s3}
  Txn = {x1, x2, x3}
  MaxSessions = 2
  MaxLogins = 1
  IdleTTL = 2
  AbsoluteTTL = 3
  TransactionTTL = 1
  \* roles
  Request = {r1, r2}
  MaxChange = 2
  RolesTTL = 2
  TokenLife = 4
  \* query protection
  User = {u1, u2}
  Board = {b1, b2}
  UserRate = 1
  BoardRate = 1
  UserBurst = 2
  BoardBurst = 2
  UserLimit = 1
  BoardLimit = 1
  MaxIdentities = 1
  IdleTicks = 2
  \* drafts
  Page = {draft1, draft2}
  Account = {author}
  AccountOf <- MCAccountOf
  Publisher = {author}
  Lister = author
  DraftId = {1, 2, 3}
  Content = {c1, c2}
  MaxDrafts = 2
  PageLimit = 1
  MaxRevision = 2
  MaxInstant = 1
  Postgres = TRUE
  \* alerts
  Alert = {a1, a2}
  Uid = {uid}
  LabelOf <- MCLabelOf
  NamespaceOf <- MCNamespaceOf
  Unclaimed = Unclaimed
  AlertSpace = {n2, n3}
  ClusterWide = ClusterWide
  MaxAlerts = 1
  Interval = 1
  MaxBackoff = 3
  \* upstream circuit
  Caller = {call1, call2}
  None = None
  Threshold = 2
  Cooldown = 1
  Timeout = 2
  MaxGeneration = 6
  \* postings
  PostingKey = {1, 2, 3, 4, 5, 6, 7, 8, 9, 10}
  PostBatch = 1
  LeafBatch = 3
  LeafMax = 3
  LeafSplit = 2
  LeafMin = 2
  TreeFanout = 4
  TreeNodeMin = 2
  \* rows
  RowName = {1, 2, 3, 4, 5}
  RowWeight = {0, 1, 3}
  RowLeafMax = 2
  RowLeafSplit = 1
  RowLeafMin = 1
  RowFanout = 4
  RowNodeMin = 2
  RowGroup = 1
  RowBatch = 2
  LabelCap = 4
  MaxSuffix = 2
  \* search
  ObjectCount = 4
  GvrOf <- MCGvrOf
  NsOf <- MCNsOf
  NameOf <- MCNameOf
  TokenText <- MCTokenText
  BaseTokens <- MCBaseTokens
  LabelTokens = {{}, {1}, {3}}
  QueryText <- MCQueryText
  Unlimited = Unlimited
  UserScopes = {Unlimited, {1}, {1, 2}}
  SearchLimit = 1
  ScanFactor = 2
  ScanRowsMax = 2
  LabelTokensMax = 1
  NoRow = NoRow
  NoCursor = NoCursor
  MaxSearchMoves = 1
  \* partitions
  PartEvents <- MCPartEvents
  NameToken <- MCNameToken
  SpaceToken <- MCSpaceToken
  KindToken = 5
  PartLabelCap = 2
  MaxSuffixRows = 2
  MaxSlot = 3
  TreeLeafMax <- MCTreeLeafMax
  PageMax = 1
  BatchMax = 2
  MaxRowEvents = 4
  NoInput = NoInput
  NoBound = NoBound
  \* generations
  GvrOrder <- MCGvrOrder
  Walker = {w1, w2}
  IndexBytes = {1, 2}
  RetainedMax = 4
  OwnerMax = 3
  MaxLeases = 3
  NoLease = NoLease
  \* pages
  TableKey <- MCTableKey
  TableLabel = {1, 2}
  NamePrefixes = {{1, 2}}
  LabelSelectors = {{1}}
  PageLimits = {1}
  ListScanFactor = 2
  MaxListMoves = 2
  NoTableRow = NoTableRow
  NoList = NoList
  \* reviews
  ObjectsBefore <- MCObjects
  ObjectsAfter <- MCObjects
  NameKey = 1
  AnnotationsKey = 2
  VolatileKeys = {4}
  SecretKeys = {1}
  SensitiveNotes = {2}
  MaxChanges = 2
  MaxDiffDepth = 2
  MaxDiffNodes = 7
  Reviewer = {ask1, ask2}
  FieldValues = {1, 2}
  ReviewBurst = 1
  ReviewSlots = 1
  MaxObjectMoves = 2
  NoUid = NoUid
  \* screens
  PendingGrace = 1
  World <- MCWorld
  RoleSet <- MCRoleSet
  Question <- MCQuestion
  Again <- MCAgain
  Here = Here
  NoOwner = NoOwner
  NotFound = NotFound
  Nothing = Nothing
  EventLimit = 2
  UnhealthyLimit = 2
  Span = 1
  Millisecond = 2
  MaxClock = 2
  MaxScreens = 2
  \* groups of alerts
  RawAlert <- MCRawAlert
  MaxListed = 3
  PodCatalog <- MCPodCatalog
  AlertTarget <- MCAlertTarget
  AlertNow = 30
  Skew = 5
  \* readings of pods
  UsageCluster = {left, right}
  PodUid = {1, 2, 3}
  UidBytes <- MCUidBytes
  UsageReading = {0, 1}
  UsageLimits <- MCUsageLimits
INVARIANTS ScreensAgree NothingBeyondRoles ListsAreExact ReviewIsExact AnswersAreOfWhatWasSeen IndexIsRebuild SearchIsExact TreesAreExact CountersAgree NothingIsUsedTooLong SessionsAreRight NothingSkipped AlertsAreRight
PROPERTIES ResumeIsCompleteOrReset LockIsKept NoLostUpdate
CHECK_DEADLOCK FALSE
