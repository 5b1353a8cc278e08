\* Two sessions, of which one goes on, and two calls at a time; spreads of two
\* cards, two of the three recommended designs.
SPECIFICATION GuidedSpec
CONSTANTS
  x = x
  y = y
  z = z
  None = None
  Session = {s1, s2}
  Continued = {s1}
  Client = {c1, c2}
  Operation = {o1, o2}
  Fingerprint = {f1, f2}
  Position = {p1, p2}
  Slots = 2
  Design = {x, y, z}
  Trio <- TwoTrios
  Question = {q1, q2}
SYMMETRY Symmetry
INVARIANTS
  AnswersAgree
PROPERTIES
  OperationsTakeEffectOnce
  AcceptedStepsStand
CHECK_DEADLOCK FALSE
