SPECIFICATION SSpec
CONSTANTS
  Objects = {o1, o2}
  Ops = {1, 2, 3}
  Required <- MCRequired
  Optional <- MCOptional
  ReadOnly <- MCReadOnly
  NewData <- MCNewData
  Changes <- MCChanges
  Initial = Initial
  Absent = Absent
  None = None
  Classes <- MCClassNames
  Chain <- MCChain
  Declared <- MCDeclared
  Schemas <- MCSchemas
  Encoded <- MCEncoded
  Rank <- MCRank
  Bases <- MCBases
  Order <- MCOrder
  Made <- MCMade
  Settings <- MCSettings
  Sought <- MCSought
  Asked <- MCQueries
  Trees <- MCTrees
  Offered <- MCOffered
  ShapeLinks <- MCShapeLinks
  Segment <- MCSegment
  Iterators = {1, 2}
  MaxEvents = 3
  MaxNexts = 2
  Calls = {1, 2, 3}
  Passphrases = {"p1", "p2"}
  Requests = {1, 2}
  Perspectives = {"p1"}
  Nodes = {"n1"}
  Stamps = {"s1", "s2"}
  MaxLinks = 3
  Connections = {1, 2, 3}
  Listeners = {"l1", "l2"}
INVARIANTS SingleValued CleanIsStored FieldKept CreatedIsFound ReadersAgree IncludesWired EventsInOrder StatusIsTrue RevokedForGood QuadsOfLinks NoStrayHandler
PROPERTY ImplementsMemory
CHECK_DEADLOCK FALSE
SYMMETRY ObjectSymmetry
