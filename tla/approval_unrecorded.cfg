SPECIFICATION Spec
CONSTANTS
  a1 = a1
  a2 = a2
  s1 = s1
  in_a = in_a
  in_b = in_b
  cus = cus
  NoInvoice = NoInvoice
  NoRequest = NoRequest
  Requests = {a1}
  Invoices = {in_a}
  Customers = {cus}
  CustomerOf <- MCCustomerOf
  Sweepers = {s1}
  MaxTouches = 1
  Cooldown = 1
  TTL = 1
  MaxClock = 3
  MaxCrashes = 0
  MaxErrors = 0
  MaxPauses = 0
INVARIANTS
  ExpiryIsRecorded
