SPECIFICATION PairSpec
CONSTANTS
  a1 = a1
  a2 = a2
  s1 = s1
  s2 = s2
  in_a = in_a
  in_b = in_b
  r1 = r1
  r2 = r2
  bill_a = bill_a
  bill_b = bill_b
  w1 = w1
  w2 = w2
  NoSub = NoSub
  cus = cus
  NoInvoice = NoInvoice
  NoRequest = NoRequest
  Requests = {a1}
  Invoices = {in_a}
  Customers = {cus}
  CustomerOf <- MCCustomerOf
  SubjectOf <- OwnSubject
  Sweepers = {s1, s2}
  MaxTouches = 1
  Cooldown = 1
  TTL = 2
  Grace = 1
  Evidence <- SomeEvidence
  MaxClock = 3
  MaxFaults = 1
VIEW PairView
SYMMETRY PairSymmetry
INVARIANTS
  TypeOK
  RefusalsHold
  CountIsHonest
  OneHandlerPerEvent
  EachBillItsOwn
PROPERTIES
  KeepsMailboxContract
