\* A delete that an update overtakes.
SPECIFICATION OrdersSpec
CONSTANTS
  Design = {d1, d2}
  Product <- OneProduct
  Client = {c1, c2}
  Request = {q1}
  Fingerprint = {f1, f2}
  NoRequest = NoRequest
  Bill <- SmallBill
  Available <- TwoPieces
  MaxRevision = 2
  MaxOrders = 3
SYMMETRY Symmetry
PROPERTIES
  DeletesTheConfirmedRevision
CHECK_DEADLOCK FALSE
