\* Two sessions; the application may let the loop run dry at any moment.
SPECIFICATION FairSpec
CONSTANTS
  Threads = {t1, t2}
  Workers = {w1, w2}
  MaxEvents = 2
  NoBaton = NoBaton
INVARIANTS
  TypeOK
  LossOnlyRaced
PROPERTIES
  ImplementsStream
  EveryEventDelivered
\* Every thread stops after MaxEvents events, and the process may exit.
CHECK_DEADLOCK FALSE
