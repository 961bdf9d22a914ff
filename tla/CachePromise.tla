---------------------------- MODULE CachePromise ---------------------------
(***************************************************************************)
(* What the transport cache promises its callers, without files, configs   *)
(* and a lock: a table that is only added to, with one entry per key.  Who *)
(* asks is answered in one step, once, with the entry of its key, or with  *)
(* a new one if there is none; or never, and then leaves no trace.         *)
(***************************************************************************)

CONSTANTS Callers, Nothing

VARIABLES
    wanted,     \* per caller: the key it asked for
    given,      \* per caller: its answer
    table       \* set of entries, each a key and what it stands for

vars == <<wanted, given, table>>

Init ==
    /\ wanted = [t \in Callers |-> Nothing]
    /\ given  = [t \in Callers |-> Nothing]
    /\ table  = {}

(* Any key may be asked for.                                               *)
Ask(t) ==
    /\ wanted[t] = Nothing
    /\ wanted'[t] # Nothing
    /\ wanted' = [wanted EXCEPT ![t] = wanted'[t]]
    /\ UNCHANGED <<given, table>>

Waits(t)   == wanted[t] # Nothing /\ given[t] = Nothing
Entries(t) == {e \in table : e.key = wanted[t]}

Find(t) ==
    /\ Waits(t)
    /\ \E e \in Entries(t) : given' = [given EXCEPT ![t] = e.transport]
    /\ UNCHANGED <<wanted, table>>

(* What a new entry stands for is not this module's concern.               *)
Make(t) ==
    /\ Waits(t)
    /\ Entries(t) = {}
    /\ given'[t] # Nothing
    /\ given' = [given EXCEPT ![t] = given'[t]]
    /\ table' = table \cup {[key |-> wanted[t], transport |-> given'[t]]}
    /\ UNCHANGED wanted

Next == \E t \in Callers : Ask(t) \/ Find(t) \/ Make(t)

Spec == Init /\ [][Next]_vars
=============================================================================
