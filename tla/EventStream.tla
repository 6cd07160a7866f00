------------------------------ MODULE EventStream ------------------------------
(***************************************************************************)
(* What generator_emit (generator.cc) promises the JavaScript side: an     *)
(* event handed to it is in flight until the callback has run with it, and *)
(* the callback runs with it at most once.  It promises no order.          *)
(* Generator implements this module; Session is composed with it.          *)
(***************************************************************************)
CONSTANT Event

VARIABLES inflight,   \* events whose baton libuv holds
          delivered   \* events the JavaScript callback has been called with

vars == <<inflight, delivered>>

Init == inflight = {} /\ delivered = {}

Emit(e) ==
  /\ e \notin inflight \cup delivered
  /\ inflight' = inflight \cup {e}
  /\ UNCHANGED delivered

Deliver(e) ==
  /\ e \in inflight
  /\ inflight' = inflight \ {e}
  /\ delivered' = delivered \cup {e}

Next == \E e \in Event : Emit(e) \/ Deliver(e)

Spec == Init /\ [][Next]_vars
================================================================================
