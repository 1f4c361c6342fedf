\* Increments of both kinds by three processors, in any order, for ever.
SPECIFICATION AtomicSpec
CONSTANTS
  Processors = {p1, p2, p3}
  Width      = 3
PROPERTIES
  ImplementsCounter
  SomebodyCounts
