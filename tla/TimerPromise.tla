---------------------------- MODULE TimerPromise ----------------------------
(***************************************************************************)
(* What SetTimer and KillTimer promise a script, without the list, the pass *)
(* through it and the countdown: a handle is given out once; it is called  *)
(* while its script is there, one call at a time, a handle for one call    *)
(* once; only that call, KillTimer or the end of its script takes it back, *)
(* and the server, when it is its turn, takes back nothing.                *)
(***************************************************************************)
EXTENDS Integers

CONSTANTS
    Scripts,  \* who can set timers
    Handles   \* what SetTimer can return

VARIABLES
    open,     \* scripts that are there
    given,    \* handles returned so far
    on,       \* of each script, its handles still to be called
    once,     \* those of all scripts' that are for one call
    turn,     \* who acts: "scripts" or the "server"
    calling   \* the handle being called, if any

promiseVars == <<open, given, on, once, turn, calling>>

PromiseInit ==
    /\ open = Scripts
    /\ given = {}
    /\ on = [s \in Scripts |-> {}]
    /\ once = {}
    /\ turn = "scripts"
    /\ calling = {}

Open(s) ==
    /\ turn = "scripts"
    /\ s \notin open
    /\ open' = open \cup {s}
    /\ UNCHANGED <<given, on, once, turn, calling>>

\* A script takes all its handles with it.
Close(s) ==
    /\ turn = "scripts"
    /\ s \in open
    /\ open' = open \ {s}
    /\ on' = [on EXCEPT ![s] = {}]
    /\ once' = once \ on[s]
    /\ UNCHANGED <<given, turn, calling>>

Give(s, t, repeating) ==
    /\ turn = "scripts"
    /\ s \in open
    /\ t \notin given
    /\ given' = given \cup {t}
    /\ on' = [on EXCEPT ![s] = @ \cup {t}]
    /\ once' = IF repeating THEN once ELSE once \cup {t}
    /\ UNCHANGED <<open, turn, calling>>

\* Any script can take back any handle.
TakeBack(t) ==
    /\ turn = "scripts"
    /\ on' = [s \in Scripts |-> on[s] \ {t}]
    /\ once' = once \ {t}
    /\ UNCHANGED <<open, given, turn, calling>>

\* The server looks for something to call; finds nothing more; or calls.
Look ==
    /\ turn = "scripts"
    /\ calling = {}
    /\ turn' = "server"
    /\ UNCHANGED <<open, given, on, once, calling>>

Rest ==
    /\ turn = "server"
    /\ turn' = "scripts"
    /\ UNCHANGED <<open, given, on, once, calling>>

Call(s, t) ==
    /\ turn = "server"
    /\ s \in open
    /\ t \in on[s]
    /\ turn' = "scripts"
    /\ calling' = {t}
    /\ on' = [on EXCEPT ![s] = @ \ (once \cap {t})]
    /\ once' = once \ {t}
    /\ UNCHANGED <<open, given>>

\* The call is over, and perhaps all there was to call.
CallEnds ==
    /\ calling # {}
    /\ calling' = {}
    /\ turn' \in {"scripts", "server"}
    /\ UNCHANGED <<open, given, on, once>>

PromiseNext ==
    \/ \E s \in Scripts : Open(s) \/ Close(s)
    \/ \E s \in Scripts, t \in Handles :
           Call(s, t) \/ \E repeating \in BOOLEAN : Give(s, t, repeating)
    \/ \E t \in Handles : TakeBack(t)
    \/ Look
    \/ Rest
    \/ CallEnds

PromiseSpec == PromiseInit /\ [][PromiseNext]_promiseVars
=============================================================================
