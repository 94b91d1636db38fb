------------------------------ MODULE OneShot -------------------------------
(***************************************************************************)
(* What a one-time credential promises.  Its holder (a node that is to be  *)
(* enrolled, a deployment that needs its source or its image) is given one *)
(* at a time; a later one replaces it; it runs out by itself; and it is    *)
(* used at most once, while it is the one that counts.                     *)
(***************************************************************************)
CONSTANTS Holders, Tokens, NoToken

VARIABLES
    issued,     \* <<holder, token>> ever given
    live,       \* the one that counts
    spent       \* <<holder, token>> ever honoured

vars == <<issued, live, spent>>

\* some holders have been given theirs before, and used it
Init ==
    /\ issued \in SUBSET (Holders \X Tokens)
    /\ live = [h \in Holders |-> NoToken]
    /\ spent = issued

Issue(h, t) ==
    /\ <<h, t>> \notin issued
    /\ issued' = issued \union {<<h, t>>}
    /\ live' = [live EXCEPT ![h] = t]
    /\ UNCHANGED spent

Honour(h) ==
    /\ live[h] # NoToken
    /\ spent' = spent \union {<<h, live[h]>>}
    /\ live' = [live EXCEPT ![h] = NoToken]
    /\ UNCHANGED issued

RunOut(h) ==
    /\ live' = [live EXCEPT ![h] = NoToken]
    /\ UNCHANGED <<issued, spent>>

Next == \E h \in Holders : Honour(h) \/ RunOut(h) \/ \E t \in Tokens : Issue(h, t)

Spec == Init /\ [][Next]_vars
=============================================================================
