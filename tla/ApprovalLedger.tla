--------------------------- MODULE ApprovalLedger ---------------------------
(***************************************************************************)
(* What an approval promises the person who gave it.  A use is spent only  *)
(* while the approval is not revoked, never more often than it allows, and *)
(* every execution under it has a use of its own.                          *)
(***************************************************************************)
EXTENDS Naturals, FiniteSets

CONSTANTS
    Refs,
    Requests,
    Limits,         \* how many uses an approval may be given
    Unlimited

VARIABLES
    allowed,        \* approval -> uses it allows, Unlimited, or 0 before it is given
    revoked,        \* approvals taken back
    spent,          \* approval -> uses
    executed        \* approval -> requests executed under it

vars == <<allowed, revoked, spent, executed>>

\* some may have been given, or taken back, already: none is used
Init ==
    /\ allowed \in [Refs -> Limits \union {0}]
    /\ revoked \in SUBSET Refs
    /\ spent = [a \in Refs |-> 0]
    /\ executed = [a \in Refs |-> {}]

Issue(a) ==
    /\ allowed[a] = 0
    /\ \E n \in Limits : allowed' = [allowed EXCEPT ![a] = n]
    /\ UNCHANGED <<revoked, spent, executed>>

Revoke(a) ==
    /\ revoked' = revoked \union {a}
    /\ UNCHANGED <<allowed, spent, executed>>

Spend(a) ==
    /\ allowed[a] # 0 /\ a \notin revoked
    /\ allowed[a] # Unlimited => spent[a] < allowed[a]
    /\ spent' = [spent EXCEPT ![a] = @ + 1]
    /\ UNCHANGED <<allowed, revoked, executed>>

Execute(a, r) ==
    /\ r \notin executed[a]
    /\ Cardinality(executed[a]) < spent[a]
    /\ executed' = [executed EXCEPT ![a] = @ \union {r}]
    /\ UNCHANGED <<allowed, revoked, spent>>

Next == \E a \in Refs : Issue(a) \/ Revoke(a) \/ Spend(a) \/ \E r \in Requests : Execute(a, r)

Spec == Init /\ [][Next]_vars
=============================================================================
