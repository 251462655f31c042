----------------------------- MODULE SessionSlot -----------------------------
(***************************************************************************)
(* What transport_gateway.py promises of its single-session slot: "Accept  *)
(* a single live client connection"; "atomically claim the single-session  *)
(* slot and only then" start a session; release both together, once.       *)
(***************************************************************************)
CONSTANTS Conn, NoConn

VARIABLES
  holder,    \* the connection that owns the slot, or NoConn
  session,   \* the connection whose session is attached, or NoConn
  served     \* the connections that have ever owned the slot

slot == <<holder, session, served>>

Init == holder = NoConn /\ session = NoConn /\ served = {}

Take(c) ==
  /\ holder = NoConn /\ c \notin served
  /\ holder' = c /\ served' = served \cup {c}
  /\ UNCHANGED session

Bind(c) ==
  /\ holder = c /\ session = NoConn
  /\ session' = c
  /\ UNCHANGED <<holder, served>>

Free(c) ==
  /\ holder = c
  /\ holder' = NoConn /\ session' = NoConn
  /\ UNCHANGED served

Next == \E c \in Conn : Take(c) \/ Bind(c) \/ Free(c)

Spec == Init /\ [][Next]_slot
=============================================================================
