\* One session and one pool thread are enough: the loop reads the count for its
\* decrement, the session's second event adds to it, and the loop's write of what
\* it had read, less one, undoes the addition.
SPECIFICATION Spec
CONSTANTS
  Threads = {t1}
  Workers = {w1}
  MaxEvents = 2
  NoBaton = NoBaton
SYMMETRY Symmetry
INVARIANT ExitLosesNothing
CHECK_DEADLOCK FALSE
