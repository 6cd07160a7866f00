--------------------------------- MODULE Life ----------------------------------
(***************************************************************************)
(* What a Session object promises its listeners: what connect() answers,   *)
(* which events a session can have to tell, in which order they come       *)
(* about, and when the listeners may hear of them.  Listeners may hear     *)
(* events in another order than they came about in, but none twice, none   *)
(* of a session that was refused, and none while a connect() is at work.   *)
(* Session implements this module.                                         *)
(***************************************************************************)
EXTENDS Integers

CONSTANTS Sessions, MaxUpdates

VARIABLES
  opened,   \* of each session: "no", "busy" inside connect(), "yes", "refused"
  told,     \* the events that have come about
  heard     \* those the listeners have been called with

vars == <<opened, told, heard>>

EventOf(s, kind, n) == [session |-> s, kind |-> kind, n |-> n]

Idle == \A s \in Sessions : opened[s] # "busy"

Init ==
  /\ opened = [s \in Sessions |-> "no"]
  /\ told = {}
  /\ heard = {}

Refuse(s) ==
  /\ Idle
  /\ opened[s] = "no"
  /\ opened' = [opened EXCEPT ![s] = "refused"]
  /\ UNCHANGED <<told, heard>>

Begin(s) ==
  /\ Idle
  /\ opened[s] = "no"
  /\ opened' = [opened EXCEPT ![s] = "busy"]
  /\ UNCHANGED <<told, heard>>

Accept(s) ==
  /\ opened[s] = "busy"
  /\ opened' = [opened EXCEPT ![s] = "yes"]
  /\ UNCHANGED <<told, heard>>

\* Something happens to a session that has begun and not closed.
Tell(s, e) ==
  /\ opened[s] \in {"busy", "yes"}
  /\ EventOf(s, "close", 0) \notin told
  /\ e \notin told
  /\ told' = told \cup {e}
  /\ UNCHANGED <<opened, heard>>

\* An update follows the connect event and the update before it.
Update(s, n) ==
  /\ EventOf(s, "connect", 0) \in told
  /\ n > 1 => EventOf(s, "update", n - 1) \in told
  /\ Tell(s, EventOf(s, "update", n))

Hear(e) ==
  /\ Idle
  /\ e \in told \ heard
  /\ opened[e.session] = "yes"
  /\ heard' = heard \cup {e}
  /\ UNCHANGED <<opened, told>>

Next ==
  \/ \E s \in Sessions :
       \/ Refuse(s) \/ Begin(s) \/ Accept(s)
       \/ Tell(s, EventOf(s, "connect", 0))
       \/ Tell(s, EventOf(s, "close", 0))
       \/ \E n \in 1 .. MaxUpdates : Update(s, n)
  \/ \E e \in told : Hear(e)

Spec == Init /\ [][Next]_vars
================================================================================
