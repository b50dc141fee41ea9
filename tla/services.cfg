SPECIFICATION MCSpec
CONSTANTS
  Absent = Absent
  i1 = i1
  k1 = k1
  Portfolio <- MCPortfolio
  Rank <- MCRank
  BatchSize = 2
  NoDate = Absent
  Callers = {x1, x2}
  Ceilings = {NoCeiling, 0, 1}
  NoCeiling = NoCeiling
  MaxSteps = 5
  Codes = {"k1", "k2", "k3", "DEFAULT"}
  Default = "DEFAULT"
  Entries <- MCEntries
  Control <- MCControl
  Named <- MCNamed
  StandIn = "k3"
  StandsFor = {"k1", "k2"}
  Elsewhere = {"k3"}
  Tenants = {"t1", "t2"}
  Deliveries <- MCDeliveries
  NotGiven = Absent
  CacheMax = 2
  MaxEvents = 4
  Routes = {"payment_failed", "portfolio_impact"}
  Threads = {u1, u2}
  Addresses <- MCAddresses
  RequestKeys <- MCRequestKeys
  NoRequestKey = NoRequestKey
  Window = 1
  RateMax = 1
  GlobalMax = 1
  MaxTracked = 1
  StoreMax = 1
  MaxTicks = 2
  MaxRequests = 4
  Clients = {c1, c2}
  Invoices = {i1}
  Calls = {q1}
  ReportIds <- MCReportIds
  NoReportId = NoReportId
  MaxReports = 2
  MaxFaults = 1
  BankCallers = {b1, b2}
  Providers = {"p", "q"}
  MaxAttempts = 2
  MaxCalls = 3
  ConsentClients = {"c1", "c2"}
  ConsentIds = {"i1"}
  NotStated = Absent
  StateTtl = 1
  AccessTtl = 1
  ConsentTtl = 2
  MaxDay = 3
  Writers = {"server", "cli"}
  FernetKeys = {"fk1", "fk2"}
  NoFernetKey = "none"
  Edits <- MCEdits
  Grants <- MCGrants
  MaxConfigOps = 3
  Migrators = {"p1", "p2"}
  Targets = {"acme", "other"}
  NoTarget = "none"
  RowIds = {1, 2, 3}
  MaxMgOps = 5
  Buckets <- MCBuckets
  HoldoutPct = 10
  MinArm = 1
  MaxLoopSteps = 5
  Shells = {"sh1", "sh2"}
  Persons = {"u1", "u2"}
  BillsOf <- MCBillsOf
  Retention = 0
  MaxAge = 2
  Torn = Torn
  Never = Never
  MaxGdOps = 3
  TenantIds = {"t1", "t2"}
  NoTenant = NoTenant
  Handlers = {"h1", "h2"}
  Bootstraps = {"route", "cli"}
  RolesAsked = {"platform_admin", "tenant_admin", "tenant_viewer"}
  Wanted = {"tenants.create", "tenants.suspend", "tenants.resume", "tenants.offboard", "tokens.create", "tokens.revoke", "decide.write"}
  MaxTokens = 3
  MaxAsked = 2
INVARIANTS
  CeilingHolds
  PortfolioIsHonest
  TextsAreClean
  ReturnCodesAgree
  AnswersItsOwnFailure
  WindowsHold
  CountsAddUp
  AlertsOnTheSecond
  StateIsHonest
  ConfigHolds
  OneOwnerAndNoIdTwice
  ReportDescribesTheCohort
  ErasureHolds
  AccessHolds
PROPERTIES
  KeepsDecisionContract
CHECK_DEADLOCK FALSE
