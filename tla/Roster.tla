------------------------------- MODULE Roster -------------------------------
(***************************************************************************)
(* What the player pool promises, without packets, queues and restarts:    *)
(* one connection at a time has a place, it becomes a member there at most *)
(* once, a member who goes is disconnected, and everybody on the line has  *)
(* a list of the members that follows each who comes and each who goes.    *)
(***************************************************************************)
EXTENDS Integers

CONSTANTS
    Places,  \* where a connection, and a member, can be
    People,  \* who can call
    Nobody

VARIABLES
    line,    \* who is connected at each place
    member,  \* who is a member there; may have hung up already
    list     \* the members that whoever is on the line has been told of

rosterVars == <<line, member, list>>

Members == {i \in Places : member[i] # Nobody}

RosterInit ==
    /\ line = [i \in Places |-> Nobody]
    /\ member = [i \in Places |-> Nobody]
    /\ list = [i \in Places |-> {}]

\* A caller whom nobody knows any more gets a line, perhaps at the place of a
\* member who has hung up.
Call(i, p) ==
    /\ line[i] = Nobody
    /\ \A k \in Places : line[k] # p /\ member[k] # p
    /\ line' = [line EXCEPT ![i] = p]
    /\ UNCHANGED <<member, list>>

HangUp(i) ==
    /\ line[i] # Nobody
    /\ line' = [line EXCEPT ![i] = Nobody]
    /\ list' = [list EXCEPT ![i] = {}]
    /\ UNCHANGED member

\* The newcomer is told of all others, and all others of the newcomer.
Enter(i) ==
    /\ line[i] # Nobody
    /\ member[i] = Nobody
    /\ member' = [member EXCEPT ![i] = line[i]]
    /\ list' = [c \in Places |->
                   IF c = i THEN Members
                   ELSE IF line[c] # Nobody THEN list[c] \cup {i} ELSE list[c]]
    /\ UNCHANGED line

\* The members at K leave.  Who of them is still on the line is disconnected;
\* a caller who has the place of one by now may be, too.
Leave(K, cut) ==
    /\ K \subseteq Members
    /\ cut \subseteq K
    /\ \A i \in K : line[i] = member[i] => i \in cut
    /\ member' = [i \in Places |-> IF i \in K THEN Nobody ELSE member[i]]
    /\ line' = [i \in Places |-> IF i \in cut THEN Nobody ELSE line[i]]
    /\ list' = [i \in Places |-> IF i \in cut THEN {} ELSE list[i] \ K]

RosterNext ==
    \/ \E i \in Places, p \in People : Call(i, p)
    \/ \E i \in Places : HangUp(i)
    \/ \E i \in Places : Enter(i)
    \/ \E K \in SUBSET Places : \E cut \in SUBSET K : Leave(K, cut)

RosterSpec == RosterInit /\ [][RosterNext]_rosterVars
=============================================================================
