SPECIFICATION Spec
CONSTANTS
  a1 = a1
  a2 = a2
  s1 = s1
  s2 = s2
  in_a = in_a
  in_b = in_b
  cus = cus
  NoInvoice = NoInvoice
  NoRequest = NoRequest
  Requests = {a1}
  Invoices = {in_a}
  Customers = {cus}
  CustomerOf <- MCCustomerOf
  SubjectOf <- OwnSubject
  Sweepers = {s1}
  MaxTouches = 1
  Cooldown = 1
  TTL = 2
  Grace = 1
  Evidence <- SomeEvidence
  MaxClock = 3
  MaxFaults = 0
VIEW View
INVARIANTS
  StaleDraftGone
