\* Registry: two threads, two plugins of one kind, three instances. Key set: one
\* minting request, two verifying ones, three keys, one change of AUTH_SECRET.
SPECIFICATION ServiceSpec
CONSTANTS
  t1 = t1
  t2 = t2
  ollama = ollama
  litellm = litellm
  c1 = c1
  c2 = c2
  bad = bad
  v1 = v1
  v2 = v2
  None = None
  Threads = {t1, t2}
  Names = {ollama, litellm}
  Configs = {c1, c2, bad}
  BadConfigs = {bad}
  Installs <- SomeInstalls
  MaxBuilt = 3
  web = web
  m1 = m1
  q1 = q1
  q2 = q2
  k1 = k1
  k2 = k2
  k3 = k3
  Processes = {web}
  Minters = {m1}
  Readers = {q1, q2}
  ProcessOf <- OneProcess
  Kids = {k1, k2, k3}
  Secrets = 2
  NoKey = NoKey
  Foreign = {}
  NoFetch = NoFetch
  NoAnswer = NoAnswer
  RotateAfter = 3
  PublishFor = 6
  DeleteAfter = 6
  CacheFor = 2
  TokenLife = 1
  Leeway = 0
  Slow = 1
  MaxAge = 2
  MinInterval = 1
  FetchTimeout = 1
  MaxTime = 6
SYMMETRY Symmetry
INVARIANTS
  KeptIsCurrent
  ClosedIsForgotten
  KeysOutliveTokens
  RotationIsPickedUp
PROPERTIES
  BuiltOnce
