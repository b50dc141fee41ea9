SPECIFICATION Spec
CONSTANTS
  w1 = w1
  w2 = w2
  in_a = in_a
  in_b = in_b
  cus = cus
  sub_a = sub_a
  sub_b = sub_b
  NoInvoice = NoInvoice
  NoSub = NoSub
  Workers = {w1}
  Invoices = {in_a, in_b}
  Customers = {cus}
  Subs = {sub_a, sub_b}
  Events = {"fail_a", "fail_b", "paid_a", "cancel_a"}
  Body <- ChurnBody
  CustomerOf <- MCCustomerOf
  Amounts = {1, 2}
  MaxTouches = 1
  Cooldown = 1
  SharedLock = TRUE
  MaxClock = 1
  MaxCrashes = 0
  MaxErrors = 0
PROPERTIES
  ChurnStaysInSubscription
