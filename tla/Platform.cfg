SPECIFICATION PlatformSpec
CONSTANTS
  h1 = h1
  c1 = c1
  c2 = c2
  east = east
  p = p
  Unasked = Unasked
  Host = {h1}
  Creation = {c1, c2}
  Region = {east}
  Profile = {p}
  RegionOf <- MCRegionOf
  ProfileOf <- MCProfileOf
  Setup <- MCSetup
  MaxMail = 1
  CreateWaits = TRUE
  m1 = m1
  m2 = m2
  VM = {m1, m2}
  CpuMode = {"off", "always", "hybrid"}
  Budget = 1
  IdleThreshold = 1
  Ops = {1, 2}
  Cgroups = {"always"}
  Sent = {"active-navigation"}
  base = base
  proxy = proxy
  l1 = l1
  l2 = l2
  l3 = l3
  Target = {base, proxy}
  BaseTarget = base
  Restore = {l1, l2, l3}
  TargetOf <- MCTargetOf
  MaxBuilds = 4
  k1 = k1
  k2 = k2
  k3 = k3
  k4 = k4
  va = va
  vb = vb
  tenant = tenant
  project = project
  region = region
  Unset = Unset
  PKey = {k1, k2, k3, k4}
  EnabledKey = {k1, k2, k3}
  Stamp = {tenant, project}
  Limit = {region}
  Value = {va, vb}
  StampOf <- MCStampOf
  LimitOf <- MCLimitOf
  MaxMade = 2
  s1 = s1
  s2 = s2
  b1 = b1
  b2 = b2
  b3 = b3
  Sess = {s1, s2}
  Box = {b1, b2, b3}
  MaxSessions = 2
  WarmSize = 2
  WarmReserve = 0
  WarmBuilders = 2
  KeepFailed = FALSE
  NSlots = 2
  Launch = {l1, l2, l3}
  Warm = {l1}
  MaxAttempts = 2
  Monitor = FALSE
  Asker = {q1, q2, q3}
  Reported = {"active-navigation", "interactive-idle"}
  Resends = 1
  CandidateId = {"a", "b", "c"}
  MaxProposals = 3
  MaxCandidates = 2
  MaxTime = 1
  Penalty = 10
  Infinity = 99
INVARIANTS
  PlatformTypeOK
  
  ClosedHostsAreFull
  PrioritiesSettle
  RestoresAreWhole
  
  SessionsStayWithTheirKey
  SlotsAreExclusive
  
  LoggedActivityHappened
  
PROPERTIES
  ImplementsIsolatedVMs
CHECK_DEADLOCK FALSE
SYMMETRY Symmetric
