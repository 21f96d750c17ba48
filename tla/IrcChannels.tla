---------------------------- MODULE IrcChannels -----------------------------
(***************************************************************************)
(* What the users of an IRC server are promised about its channels (the    *)
(* comments on the channel operations of Server.hpp and on JOIN, PART,     *)
(* KICK and MODE in CommandHandler.cpp), without connections, loops,       *)
(* pointers or command lines.                                              *)
(***************************************************************************)
CONSTANTS User, ChanName

VARIABLES
  connected, \* the users with a session
  members,   \* members[c]: the users of channel c; it exists while there are any
  ops        \* ops[c]: its operators

vars == <<connected, members, ops>>

Init ==
  /\ connected = {}
  /\ members = [c \in ChanName |-> {}]
  /\ ops = [c \in ChanName |-> {}]

Connect(u) ==
  /\ u \notin connected
  /\ connected' = connected \cup {u}
  /\ UNCHANGED <<members, ops>>

\* A session is over when its user has left every channel.
Disconnect(u) ==
  /\ u \in connected
  /\ \A c \in ChanName : u \notin members[c]
  /\ connected' = connected \ {u}
  /\ UNCHANGED <<members, ops>>

\* Who creates a channel by entering it becomes its operator, nobody else does.
Enter(u, S) ==
  /\ u \in connected
  /\ members' = [c \in ChanName |-> IF c \in S THEN members[c] \cup {u} ELSE members[c]]
  /\ ops' = [c \in ChanName |->
       IF c \in S /\ members[c] = {} THEN {u} ELSE ops[c]]
  /\ UNCHANGED connected

\* The operators left when u leaves: no channel is left without one.
Successors(u, c) ==
  LET rest == members[c] \ {u}
      left == ops[c] \ {u}
  IN IF left # {} THEN {left}
     ELSE IF rest = {} THEN {{}}
     ELSE {{heir} : heir \in rest}

\* PART, QUIT, or being kicked.
Leave(u, S) ==
  /\ \A c \in S : u \in members[c]
  /\ members' = [c \in ChanName |-> IF c \in S THEN members[c] \ {u} ELSE members[c]]
  /\ ops' \in [ChanName -> SUBSET User]
  /\ \A c \in ChanName : IF c \in S THEN ops'[c] \in Successors(u, c) ELSE ops'[c] = ops[c]
  /\ UNCHANGED connected

\* MODE +o or -o: only users of the channel hold the rank.
SetRank(c, u) ==
  /\ u \in members[c]
  /\ \/ ops' = [ops EXCEPT ![c] = @ \cup {u}]
     \/ ops' = [ops EXCEPT ![c] = @ \ {u}]
  /\ UNCHANGED <<connected, members>>

Close ==
  /\ connected' = {}
  /\ members' = [c \in ChanName |-> {}]
  /\ ops' = [c \in ChanName |-> {}]

Next ==
  \/ \E u \in User :
       \/ Connect(u) \/ Disconnect(u)
       \/ \E S \in SUBSET ChanName : Enter(u, S) \/ Leave(u, S)
       \/ \E c \in ChanName : SetRank(c, u)
  \/ Close

Spec == Init /\ [][Next]_vars

=============================================================================
