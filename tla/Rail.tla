---------------------------------- MODULE Rail -----------------------------------
(***************************************************************************)
(* The remote application channel (rail.cc): at each handshake of the      *)
(* server the client sends its orders and starts the application.  The     *)
(* handler runs on the channel's thread and does not look whether an order *)
(* could be sent, so that the server may miss any of them.                 *)
(***************************************************************************)
EXTENDS Integers, Sequences, FiniteSets

CONSTANTS LanguageBar,     \* settings->RemoteAppLanguageBarSupported
          MaxRailOpens,    \* bound: times the channel is opened
          MaxHandshakes,   \* bound: handshakes of the server
          MaxLost          \* bound: orders of one handshake that are not sent

ASSUME RailAssumption ==
  /\ LanguageBar \in BOOLEAN
  /\ {MaxRailOpens, MaxHandshakes, MaxLost} \subseteq Nat

VARIABLES
  rail,        \* nctx->rail: "null" or "open"
  railOpens,   \* how often the channel has been opened
  handshakes,  \* number of handshakes so far
  orders,      \* what the server has received
  missing      \* history: the orders that could not be sent

railVars == <<rail, railOpens, handshakes, orders, missing>>

RailInit ==
  /\ rail = "null"
  /\ railOpens = 0
  /\ handshakes = 0
  /\ orders = << >>
  /\ missing = {}

RailConnected ==
  /\ rail = "null"
  /\ railOpens < MaxRailOpens
  /\ rail' = "open"
  /\ railOpens' = railOpens + 1
  /\ UNCHANGED <<handshakes, orders, missing>>

RailDisconnected ==
  /\ rail = "open"
  /\ rail' = "null"
  /\ UNCHANGED <<railOpens, handshakes, orders, missing>>

Orders == {"ClientHandshake", "ClientInformation", "ClientLanguageBarInfo",
           "ClientSystemParam", "ClientExecute"}

\* The orders of one handshake; the language bar's only if there is one.
Wanted == Orders \ (IF LanguageBar THEN {} ELSE {"ClientLanguageBarInfo"})

OrderOf(order, n) == [order |-> order, handshake |-> n]

\* What the server receives of the n-th handshake's order.
Sent(order, lost, n) == IF order \in lost THEN << >> ELSE <<OrderOf(order, n)>>

\* Mutant of ClientOrders: the application is started first.
ClientOrdersExecFirst(lost, n) ==
  Sent("ClientHandshake", lost, n) \o Sent("ClientExecute", lost, n)
    \o Sent("ClientInformation", lost, n) \o Sent("ClientSystemParam", lost, n)

\* The orders that answer a handshake, in their order.
ClientOrders(lost, n) ==
  Sent("ClientHandshake", lost, n)
    \o Sent("ClientInformation", lost, n)
    \o (IF LanguageBar THEN Sent("ClientLanguageBarInfo", lost, n) ELSE << >>)
    \o Sent("ClientSystemParam", lost, n)
    \o Sent("ClientExecute", lost, n)

\* node_rail_server_handshake.
ServerHandshake(lost) ==
  /\ rail = "open"
  /\ handshakes < MaxHandshakes
  /\ handshakes' = handshakes + 1
  /\ orders' = orders \o ClientOrders(lost, handshakes + 1)
  /\ missing' = missing \cup {OrderOf(order, handshakes + 1) : order \in lost \cap Wanted}
  /\ UNCHANGED <<rail, railOpens>>

--------------------------------------------------------------------------------
\* Order a may come before b: the answer to a handshake begins with the client's
\* own handshake and ends with the start of the application (MS-RDPERP).
Precedes(a, b) ==
  /\ a # b
  /\ a.handshake <= b.handshake
  /\ a.handshake = b.handshake =>
       b.order # "ClientHandshake" /\ a.order # "ClientExecute"

\* However often the channel is opened again and whichever orders are lost: for
\* each of its handshakes the server starts the application exactly once, unless
\* that very order could not be sent, and likewise receives each other order,
\* whatever became of the orders before it; and it starts the application after
\* the other orders of that handshake and before those of the next, for the
\* handler neither stops at a failure nor repeats (rail.cc:3-52).
OrdersInSequence ==
  /\ \A i, j \in DOMAIN orders : i < j => Precedes(orders[i], orders[j])
  /\ \A n \in 1 .. handshakes, order \in Wanted :
       (\E i \in DOMAIN orders : orders[i] = OrderOf(order, n))
         <=> OrderOf(order, n) \notin missing
================================================================================
