---------------------------- MODULE HttpPromise ----------------------------
(***************************************************************************)
(* What the HTTP native promises, without slots, threads and callbacks: a  *)
(* request takes one of Places, keeps it until its answer is there, and at *)
(* most one script is told the answer, once.                               *)
(***************************************************************************)
EXTENDS Integers, FiniteSets

CONSTANTS
    Requests,  \* requests that can be made
    Scripts,   \* who can be told
    Places,    \* how many can be open at a time
    Nobody     \* not told yet

VARIABLES
    asked,     \* requests that were accepted
    answered,  \* requests whose answer is complete
    open,      \* requests that have a place
    told       \* who was told the answer

promiseVars == <<asked, answered, open, told>>

PromiseInit ==
    /\ asked = {}
    /\ answered = {}
    /\ open = {}
    /\ told = [r \in Requests |-> Nobody]

Ask(r) ==
    /\ r \notin asked
    /\ Cardinality(open) < Places
    /\ asked' = asked \cup {r}
    /\ open' = open \cup {r}
    /\ UNCHANGED <<answered, told>>

Answer(r) ==
    /\ r \in open \ answered
    /\ answered' = answered \cup {r}
    /\ UNCHANGED <<asked, open, told>>

Tell(r, s) ==
    /\ r \in open \cap answered
    /\ told[r] = Nobody
    /\ told' = [told EXCEPT ![r] = s]
    /\ UNCHANGED <<asked, answered, open>>

Close(r) ==
    /\ r \in open \cap answered
    /\ open' = open \ {r}
    /\ UNCHANGED <<asked, answered, told>>

PromiseNext ==
    \E r \in Requests :
        Ask(r) \/ Answer(r) \/ Close(r) \/ \E s \in Scripts : Tell(r, s)

PromiseSpec == PromiseInit /\ [][PromiseNext]_promiseVars
=============================================================================
