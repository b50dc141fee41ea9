SPECIFICATION FairSpec
CONSTANTS
  w1 = w1
  w2 = w2
  in_a = in_a
  in_b = in_b
  cus = cus
  sub_a = sub_a
  sub_b = sub_b
  NoInvoice = NoInvoice
  NoSub = NoSub
  Workers = {w1}
  Invoices = {in_a}
  Customers = {cus}
  Subs = {sub_a, sub_b}
  Events = {"fail_a", "paid_a", "cancel_a", "blank"}
  Body <- CloseBody
  CustomerOf <- MCCustomerOf
  Amounts = {1, 2}
  MaxTouches = 1
  Cooldown = 1
  SharedLock = TRUE
  MaxClock = 1
  MaxCrashes = 0
  MaxErrors = 2
PROPERTIES
  EveryEventLands
  PaymentsSettle
