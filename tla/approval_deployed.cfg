SPECIFICATION Spec
CONSTANTS
  a1 = a1
  a2 = a2
  s1 = s1
  in_a = in_a
  in_b = in_b
  cus = cus
  NoInvoice = NoInvoice
  NoRequest = NoRequest
  Requests = {a1, a2}
  Invoices = {in_a, in_b}
  Customers = {cus}
  CustomerOf <- MCCustomerOf
  Sweepers = {s1}
  MaxTouches = 1
  Cooldown = 1
  TTL = 1
  MaxClock = 3
  MaxCrashes = 1
  MaxErrors = 1
  MaxPauses = 1
SYMMETRY Symmetry
INVARIANTS
  TypeOK
  RequestsAreHonest
  SuspensionHolds
PROPERTIES
  ClearWhenSent
  SkipIsRemembered
  KeepsApprovalContract
