\* Two designs, two revisions each, two calls at a time.
SPECIFICATION OrdersSpec
CONSTANTS
  Design = {d1, d2}
  Product <- OneProduct
  Client = {c1, c2}
  Request = {q1}
  Fingerprint = {f1, f2}
  NoRequest = NoRequest
  Bill <- SmallBill
  Available <- TwoPieces
  MaxRevision = 2
  MaxOrders = 2
SYMMETRY Symmetry
INVARIANTS
  OrdersTypeOK
  ReservationsAreBacked
  OrdersFulfilTheirRevision
PROPERTIES
  CreatesOnce
CHECK_DEADLOCK FALSE
