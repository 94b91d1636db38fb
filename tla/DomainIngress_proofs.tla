------------------------- MODULE DomainIngress_proofs -------------------------
(***************************************************************************)
(* Proofs about DomainIngress, for any nodes, domains, requests and        *)
(* connections: the rows of domains and reconciliations agree and none is  *)
(* forgotten, results decide only what they own, and ACTIVE was verified   *)
(* where the domain is.                                                    *)
(***************************************************************************)
EXTENDS DomainIngress, SequenceTheorems, FiniteSetTheorems, TLAPS

RunType == [node: Nodes, status: {"RUNNING", "SUCCEEDED", "FAILED"}, routes: SUBSET Domains]
UsedType == [calls: Nat, readies: Nat, ticks: Nat, mishaps: Nat]
WaitType == [conn: Conns, cmd: Command]
Sending == {"send", "unsent"}

RunsOK == run \in Seq(RunType)
StateOK ==
    /\ ready \in [Services -> Nodes \union {NoNode}]
    /\ sockets \in [Nodes -> 0..MaxConns] /\ link \in [Nodes -> 0..MaxConns]
    /\ conn \in [Conns -> {"none", "open", "closing", "closed"}]
    /\ broken \subseteq Conns
    /\ applied \subseteq DOMAIN run
    /\ verified \subseteq Domains \X Nodes
FilesOK == file \in [Nodes -> SUBSET Domains] /\ live \in [Nodes -> SUBSET Domains]
UsedOK == used \in UsedType

\* A row that belongs to a reconciliation is one of its routes, on its node, or
\* is being deleted and is none.  ACTIVE was verified on the node of the row.
RowInv(d) ==
    /\ Row(d) => domain[d].node \in Nodes
    /\ domain[d].recon # 0 =>
          /\ Row(d) /\ domain[d].recon \in DOMAIN run
          /\ run[domain[d].recon].node = domain[d].node
          /\ domain[d].status \in {"CONFIGURING", "ACTIVE", "DELETING"}
          /\ domain[d].status # "DELETING" <=> d \in run[domain[d].recon].routes
    /\ domain[d].status = "CONFIGURING" =>
          domain[d].recon # 0 /\ run[domain[d].recon].status = "RUNNING" /\ ~domain[d].due
    /\ domain[d].status = "ACTIVE" => <<d, domain[d].node>> \in verified
RowsInv == domain \in [Domains -> RowType] /\ \A d \in Domains : RowInv(d)

\* What calls, commands and results say of a reconciliation is what its row
\* says; and what was found to answer is verified as long as the
\* reconciliation owns the row.
Names(x, n) == x.run \in DOMAIN run /\ run[x.run].node = n /\ run[x.run].routes = x.routes
Reports(e, n) ==
    /\ Names(e, n)
    /\ e.applied => e.run \in applied /\ \A d \in e.ok : domain[d].recon = e.run => <<d, n>> \in verified

\* A result that is being recorded is of a reconciliation that still runs, or
\* owns nothing any more but what is being deleted.
Owes(r) == run[r].status = "RUNNING" \/ \A d \in Domains : domain[d].recon = r => domain[d].status = "DELETING"
CallInv(c) ==
    /\ CallOK(call[c])
    /\ call[c].pc = "send" => Names(call[c], Head(call[c].todo))
    /\ call[c].pc = "unsent" => call[c].run \in DOMAIN run /\ run[call[c].run].node = Head(call[c].todo)
    /\ call[c].pc = "result" => c \in Conns /\ Reports(call[c].event, c[1]) /\ Owes(call[c].event.run)
    /\ call[c].pc \in {"open", "move"} => c \in Conns
    /\ call[c].pc = "open" => call[c].todo = <<c[1]>>
CallsInv == DOMAIN call = Callers /\ \A c \in Callers : CallInv(c)

WaitingAt(n) ==
    \A i \in DOMAIN waiting[n] :
        LET w == waiting[n][i] IN w.conn[1] = n /\ conn[w.conn] # "none" /\ Names(w.cmd, n)
WaitingInv == waiting \in [Nodes -> Seq(WaitType)] /\ \A n \in Nodes : WaitingAt(n)
QueueAt(c) == \A i \in DOMAIN queue[c] : queue[c][i].type = "ingress" => Reports(queue[c][i], c[1])
QueueInv == queue \in [Conns -> Seq(EventType)] /\ \A c \in Conns : QueueAt(c)

\* A connection is one its Agent dialled, and uses or lost.
ConnInv ==
    /\ \A c \in Conns :
          /\ conn[c] = "none" => call[c] = Idle
          /\ conn[c] # "none" => c \in broken \/ link[c[1]] = c[2]
    /\ \A n \in Nodes : sockets[n] # 0 => conn[<<n, sockets[n]>>] # "none"

\* A reconciliation that runs owns its routes, or is going to be superseded.
RunningInv ==
    \A r \in DOMAIN run : run[r].status = "RUNNING" =>
        \A d \in run[r].routes : d \in On(run[r].node) => domain[d].recon = r \/ Renewed(run[r].node)
AttendedInv ==
    \A d \in Domains : domain[d].status = "CONFIGURING" => Attended(domain[d].node, domain[d].recon)

Typed == RunsOK /\ StateOK /\ FilesOK /\ UsedOK
Linked == RowsInv /\ CallsInv /\ WaitingInv /\ QueueInv
IngressInv == Typed /\ Linked /\ ConnInv /\ RunningInv /\ AttendedInv

-----------------------------------------------------------------------------
(* Sequences *)

LEMMA Elements ==
    ASSUME NEW S, NEW s \in Seq(S)
    PROVE  DOMAIN s = 1..Len(s) /\ Len(s) \in Nat /\ \A i \in DOMAIN s : s[i] \in S
BY LenProperties, ElementOfSeq

LEMMA EditSeq ==
    ASSUME NEW S, NEW s \in Seq(S), NEW i \in DOMAIN s, NEW e \in S
    PROVE  /\ [s EXCEPT ![i] = e] \in Seq(S) /\ DOMAIN [s EXCEPT ![i] = e] = DOMAIN s
           /\ \A k \in DOMAIN s : [s EXCEPT ![i] = e][k] = IF k = i THEN e ELSE s[k]
BY ExceptSeq, LenProperties

LEMMA Grows ==
    ASSUME NEW S, NEW s \in Seq(S), NEW e \in S
    PROVE  /\ Append(s, e) \in Seq(S) /\ Len(s) \in Nat
           /\ DOMAIN s = 1..Len(s) /\ DOMAIN Append(s, e) = 1..(Len(s) + 1)
           /\ Append(s, e)[Len(s) + 1] = e
           /\ \A i \in DOMAIN s : Append(s, e)[i] = s[i] /\ i \in DOMAIN Append(s, e)
           /\ \A i \in DOMAIN Append(s, e) : i \in DOMAIN s \/ i = Len(s) + 1
           /\ Len(s) + 1 \in DOMAIN Append(s, e)
<1>1. /\ Append(s, e) \in Seq(S) /\ Len(Append(s, e)) = Len(s) + 1 /\ Len(s) \in Nat
      /\ DOMAIN s = 1..Len(s)
      /\ \A i \in 1..Len(s) : Append(s, e)[i] = s[i]
      /\ Append(s, e)[Len(s) + 1] = e
  BY AppendProperties, LenProperties
<1>2. DOMAIN Append(s, e) = 1..(Len(s) + 1)
  BY <1>1, LenProperties
<1>3. QED
  BY <1>1, <1>2

\* A prefix holds nothing else.
LEMMA Prefix ==
    ASSUME NEW S, NEW s \in Seq(S), NEW k \in 0..Len(s)
    PROVE  /\ SubSeq(s, 1, k) \in Seq(S) /\ DOMAIN SubSeq(s, 1, k) = 1..k
           /\ \A i \in 1..k : SubSeq(s, 1, k)[i] = s[i] /\ i \in DOMAIN s
<1>1. Len(s) \in Nat /\ DOMAIN s = 1..Len(s) /\ \A i \in DOMAIN s : s[i] \in S
  BY Elements
<1>2. /\ SubSeq(s, 1, k) \in Seq(S) /\ Len(SubSeq(s, 1, k)) = k
      /\ \A i \in 1..(k - 1 + 1) : SubSeq(s, 1, k)[i] = s[1 + i - 1]
  BY <1>1, SubSeqProperties
<1>3. QED
  BY <1>1, <1>2, Elements

\* The rest of a queue holds nothing else, and all but its head.
LEMMA Rest ==
    ASSUME NEW S, NEW s \in Seq(S), s # <<>>
    PROVE  /\ Tail(s) \in Seq(S) /\ Head(s) \in S /\ Head(s) = s[1] /\ 1 \in DOMAIN s
           /\ Len(Tail(s)) = Len(s) - 1
           /\ \A i \in DOMAIN Tail(s) : i + 1 \in DOMAIN s /\ Tail(s)[i] = s[i + 1]
           /\ \A i \in DOMAIN s : i # 1 => i - 1 \in DOMAIN Tail(s) /\ Tail(s)[i - 1] = s[i]
<1>1. /\ Tail(s) \in Seq(S) /\ Head(s) \in S /\ Len(Tail(s)) = Len(s) - 1
      /\ \A i \in 1..Len(Tail(s)) : Tail(s)[i] = s[i + 1]
  BY HeadTailProperties
<1>2. DOMAIN s = 1..Len(s) /\ Len(s) \in Nat /\ Len(s) # 0 /\ DOMAIN Tail(s) = 1..Len(Tail(s))
  BY <1>1, Elements, EmptySeq
<1>3. Head(s) = s[1]
  BY <1>2
<1>4. QED
  BY <1>1, <1>2, <1>3

LEMMA WithoutOne ==
    ASSUME NEW S, NEW s \in Seq(S), NEW i \in DOMAIN s
    PROVE  /\ Without(s, i) \in Seq(S)
           /\ \A k \in DOMAIN Without(s, i) : \E j \in DOMAIN s : Without(s, i)[k] = s[j]
           /\ \A j \in DOMAIN s : j # i => \E k \in DOMAIN Without(s, i) : Without(s, i)[k] = s[j]
<1> DEFINE a == SubSeq(s, 1, i - 1)
           b == SubSeq(s, i + 1, Len(s))
<1>1. DOMAIN s = 1..Len(s) /\ Len(s) \in Nat /\ \A j \in DOMAIN s : s[j] \in S
  BY Elements
<1>2. i \in 1..Len(s) /\ i - 1 \in Int /\ i + 1 \in Int /\ Len(s) \in Int
  BY <1>1
<1>3. /\ a \in Seq(S) /\ Len(a) = i - 1
      /\ \A k \in 1..(i - 1) : a[k] = s[k]
  <2>1. \A k \in 1..(i - 1) : s[k] \in S
    BY <1>1, <1>2
  <2>2. /\ a \in Seq(S) /\ Len(a) = (IF 1 <= i - 1 THEN i - 1 - 1 + 1 ELSE 0)
        /\ \A k \in 1..(i - 1 - 1 + 1) : a[k] = s[1 + k - 1]
    BY <1>2, <2>1, SubSeqProperties
  <2>3. QED
    BY <1>2, <2>2
<1>4. /\ b \in Seq(S) /\ Len(b) = Len(s) - i
      /\ \A k \in 1..(Len(s) - i) : b[k] = s[i + k]
  <2>1. \A k \in (i + 1)..Len(s) : s[k] \in S
    BY <1>1, <1>2
  <2>2. /\ b \in Seq(S) /\ Len(b) = (IF i + 1 <= Len(s) THEN Len(s) - (i + 1) + 1 ELSE 0)
        /\ \A k \in 1..(Len(s) - (i + 1) + 1) : b[k] = s[(i + 1) + k - 1]
    BY <1>2, <2>1, SubSeqProperties
  <2>3. QED
    BY <1>2, <2>2
<1> HIDE DEF a, b
<1>5. LET t == a \o b
      IN  /\ t \in Seq(S) /\ Len(t) = Len(s) - 1
          /\ \A k \in 1..(Len(s) - 1) : t[k] = IF k <= i - 1 THEN a[k] ELSE b[k - (i - 1)]
  <2>1. /\ a \o b \in Seq(S) /\ Len(a \o b) = Len(a) + Len(b)
        /\ \A k \in 1..(Len(a) + Len(b)) : (a \o b)[k] = IF k <= Len(a) THEN a[k] ELSE b[k - Len(a)]
    BY <1>3, <1>4, ConcatProperties
  <2>2. Len(a) + Len(b) = Len(s) - 1
    BY <1>2, <1>3, <1>4
  <2>3. QED
    BY <1>3, <2>1, <2>2
<1>6. Without(s, i) = a \o b
  BY DEF Without, a, b
<1> DEFINE t == Without(s, i)
<1>7. /\ t \in Seq(S) /\ DOMAIN t = 1..(Len(s) - 1)
      /\ \A k \in 1..(Len(s) - 1) : t[k] = IF k <= i - 1 THEN a[k] ELSE b[k - (i - 1)]
  BY <1>5, <1>6, Elements
<1> HIDE DEF t
<1>8. ASSUME NEW k \in DOMAIN t PROVE \E j \in DOMAIN s : t[k] = s[j]
  <2>1. CASE k <= i - 1
    BY <1>1, <1>2, <1>3, <1>7, <2>1
  <2>2. CASE ~(k <= i - 1)
    <3>1. k - (i - 1) \in 1..(Len(s) - i) /\ i + (k - (i - 1)) = k + 1
      BY <1>2, <1>7, <2>2
    <3>2. t[k] = s[k + 1] /\ k + 1 \in DOMAIN s
      BY <1>1, <1>4, <1>7, <2>2, <3>1
    <3>3. QED
      BY <3>2
  <2>3. QED
    BY <2>1, <2>2
<1>9. ASSUME NEW j \in DOMAIN s, j # i PROVE \E k \in DOMAIN t : t[k] = s[j]
  <2>1. CASE j < i
    <3>1. j \in 1..(i - 1) /\ j \in 1..(Len(s) - 1) /\ j <= i - 1
      BY <1>1, <1>2, <2>1
    <3>2. QED
      BY <1>3, <1>7, <3>1
  <2>2. CASE j > i
    <3>0. i \in Nat /\ j \in Nat /\ i >= 1 /\ j <= Len(s) /\ Len(s) \in Nat
      BY <1>1
    <3>1. j - 1 \in 1..(Len(s) - 1) /\ ~(j - 1 <= i - 1) /\ (j - 1) - (i - 1) = j - i
          /\ j - i \in 1..(Len(s) - i) /\ i + (j - i) = j
      BY <3>0, <2>2
    <3>2. t[j - 1] = s[j]
      BY <1>4, <1>7, <3>1
    <3>3. QED
      BY <1>7, <3>1, <3>2
  <2>3. QED
    BY <1>1, <1>2, <1>9, <2>1, <2>2
<1>10. QED
  BY <1>7, <1>8, <1>9 DEF t

-----------------------------------------------------------------------------
(* Calls *)

LEMMA WhoCalls ==
    /\ Conns \subseteq Callers /\ Users \subseteq Callers /\ Timer \in Callers
    /\ \A u \in Users : u \notin Conns
    /\ Timer \notin Conns
    /\ \A c \in Conns : c[1] \in Nodes /\ c[2] \in 1..MaxConns /\ c = <<c[1], c[2]>>
    /\ \A n \in Nodes, i \in 1..MaxConns : <<n, i>> \in Conns
BY CallersAssumption DEF Callers, Conns, Users, Timer

\* What a call holds at each point.
LEMMA CallFields ==
    ASSUME NEW x, CallOK(x)
    PROVE  /\ x.pc \in {"idle", "open", "read", "transact", "insert", "move", "result"} \union Sending
           /\ x.pc = "idle" => x = Idle
           /\ x.pc \in {"open", "read", "transact"} \union Sending => x.todo \in Todo
           /\ x.pc = "transact" => x.routes \subseteq Domains /\ x.deleting \subseteq Domains
           /\ x.pc = "send" => x.routes \subseteq Domains
           /\ x.pc \in Sending => x.run \in Nat \ {0}
           /\ x.pc = "insert" => x.domain \in Domains /\ x.node \in Nodes
           /\ x.pc = "move" => x.service \in Services
           /\ x.pc = "result" => x.event \in Result /\ x.counts \in [x.event.routes -> Nat]
<1>1. CASE x \in CallType
  <2>1. x = Idle => x.pc = "idle"
    BY DEF Idle
  <2>2. QED
    BY <1>1, <2>1 DEF CallType, Sending, Idle
<1>2. CASE DOMAIN x = {"pc", "event", "counts"} /\ x.pc = "result"
           /\ x.event \in Result /\ x.counts \in [x.event.routes -> Nat]
  BY <1>2 DEF Sending
<1>3. QED
  BY <1>1, <1>2 DEF CallOK

LEMMA CallMade ==
    /\ CallOK(Idle) /\ Idle.pc = "idle"
    /\ \A q \in Todo : CallOK(Reading(q)) /\ Reading(q).pc = "read" /\ Reading(q).todo = q
    /\ \A q \in Todo : CallOK([pc |-> "open", todo |-> q])
    /\ \A q \in Todo, S, D \in SUBSET Domains :
          CallOK([pc |-> "transact", todo |-> q, routes |-> S, deleting |-> D])
    /\ \A q \in Todo, r \in Nat \ {0}, S \in SUBSET Domains :
          CallOK([pc |-> "send", todo |-> q, run |-> r, routes |-> S])
    /\ \A q \in Todo, r \in Nat \ {0} : CallOK([pc |-> "unsent", todo |-> q, run |-> r])
    /\ \A d \in Domains, n \in Nodes : CallOK([pc |-> "insert", domain |-> d, node |-> n])
    /\ \A s \in Services : CallOK([pc |-> "move", service |-> s])
    /\ \A e \in Result : \A t \in [e.routes -> Nat] : CallOK([pc |-> "result", event |-> e, counts |-> t])
BY DEF CallOK, CallType, Idle, Reading

\* The nodes a call has yet to go through, and those after the first.
Has(q, n) == \E i \in DOMAIN q : q[i] = n
Later(q, n) == \E i \in 2..Len(q) : q[i] = n

LEMMA TodoIs ==
    ASSUME NEW q \in Todo
    PROVE  /\ q \in Seq(Nodes) /\ Head(q) \in Nodes /\ Has(q, Head(q))
           /\ \A n : Has(q, n) => n = Head(q) \/ Later(q, n)
           /\ \A n : Later(q, n) => Has(q, n)
           /\ CallOK(Finish(q)) /\ Finish(q).pc \in {"idle", "read"}
           /\ \A n : Later(q, n) => Finish(q).pc = "read" /\ Has(Finish(q).todo, n)
<1>1. q \in Seq(Nodes) /\ q # <<>>
  BY DEF Todo
<1>2. /\ Tail(q) \in Seq(Nodes) /\ Head(q) \in Nodes /\ Head(q) = q[1] /\ 1 \in DOMAIN q
      /\ Len(Tail(q)) = Len(q) - 1
      /\ \A i \in DOMAIN q : i # 1 => i - 1 \in DOMAIN Tail(q) /\ Tail(q)[i - 1] = q[i]
  BY <1>1, Rest
<1>3. DOMAIN q = 1..Len(q) /\ Len(q) \in Nat
  BY <1>1, Elements
<1>4. ASSUME ~(Len(q) <= 1)
      PROVE  Tail(q) \in Todo /\ Finish(q) = Reading(Tail(q))
  <2>1. Len(Tail(q)) # 0
    BY <1>2, <1>3, <1>4
  <2>2. Tail(q) # <<>>
    BY <2>1, EmptySeq
  <2>3. QED
    BY <1>2, <1>4, <2>2 DEF Todo, Finish
<1>5. Len(q) <= 1 => Finish(q) = Idle
  BY DEF Finish
<1>6. CallOK(Finish(q)) /\ Finish(q).pc \in {"idle", "read"}
  BY <1>4, <1>5, CallMade
<1>7. ASSUME NEW n, Later(q, n) PROVE Finish(q).pc = "read" /\ Has(Finish(q).todo, n)
  <2>1. PICK i \in 2..Len(q) : q[i] = n
    BY <1>7 DEF Later
  <2>2. ~(Len(q) <= 1) /\ i \in DOMAIN q /\ i # 1
    BY <1>3, <2>1
  <2>3. Has(Tail(q), n)
    BY <1>2, <2>1, <2>2 DEF Has
  <2>4. QED
    BY <1>4, <2>2, <2>3, CallMade
<1>8. \A n : Later(q, n) => Has(q, n)
  BY <1>3 DEF Later, Has
<1>9. \A n : Has(q, n) => n = Head(q) \/ Later(q, n)
  <2>1. ASSUME NEW i \in DOMAIN q PROVE i = 1 \/ i \in 2..Len(q)
    BY <1>3
  <2>2. QED
    BY <1>2, <2>1 DEF Has, Later
<1>10. QED
  BY <1>1, <1>2, <1>6, <1>7, <1>8, <1>9 DEF Has

LEMMA OneTodo ==
    ASSUME NEW n \in Nodes
    PROVE  <<n>> \in Todo /\ Has(<<n>>, n) /\ Head(<<n>>) = n
BY DEF Todo, Has

\* A list of the nodes of a set, and one that ends with a node.
LEMMA OrderTodo ==
    ASSUME NEW S \in SUBSET Nodes, NEW q \in Orders(S)
    PROVE  /\ q \in Seq(Nodes) /\ (S # {} => q \in Todo)
           /\ \A n \in Nodes : Append(q, n) \in Todo /\ Has(Append(q, n), n)
           /\ \A n \in Nodes, m \in S : Has(Append(q, n), m)
<1>1. Cardinality(S) \in Nat
  BY NodesAssumption, FS_Subset, FS_CardinalityType
<1>2. q \in [1..Cardinality(S) -> S] /\ \A n \in S : Has(q, n)
  BY DEF Orders, Has
<1>3. q \in Seq(Nodes)
  BY <1>1, <1>2, SeqDef
<1>4. ASSUME S # {} PROVE q # <<>>
  <2>1. PICK n \in S : Has(q, n)
    BY <1>2, <1>4
  <2>2. QED
    BY <2>1 DEF Has
<1>5. ASSUME NEW n \in Nodes
      PROVE  /\ Append(q, n) \in Todo /\ Has(Append(q, n), n)
             /\ \A m : Has(q, m) => Has(Append(q, n), m)
  <2>1. /\ Append(q, n) \in Seq(Nodes) /\ Len(q) \in Nat
        /\ DOMAIN Append(q, n) = 1..(Len(q) + 1)
        /\ Append(q, n)[Len(q) + 1] = n
        /\ \A i \in DOMAIN q : Append(q, n)[i] = q[i] /\ i \in DOMAIN Append(q, n)
    BY <1>3, Grows
  <2>2. Len(q) + 1 \in DOMAIN Append(q, n)
    BY <2>1
  <2>3. Has(Append(q, n), n) /\ \A m : Has(q, m) => Has(Append(q, n), m)
    BY <2>1, <2>2 DEF Has
  <2>4. Append(q, n) # <<>>
    BY <2>3 DEF Has
  <2>5. QED
    BY <2>1, <2>3, <2>4 DEF Todo
<1>6. QED
  BY <1>2, <1>3, <1>4, <1>5 DEF Todo

\* The call that is advanced, and the others.
LEMMA StepIs ==
    ASSUME DOMAIN call = Callers, NEW c \in Callers, NEW x, Step(c, x)
    PROVE  DOMAIN call' = Callers /\ call'[c] = x /\ \A w \in Callers : w # c => call'[w] = call[w]
BY DEF Step

-----------------------------------------------------------------------------
(* What the invariant gives, and what a step leaves of it *)

LEMMA RunsAre ==
    ASSUME RunsOK
    PROVE  /\ DOMAIN run = 1..Len(run) /\ Len(run) \in Nat /\ 0 \notin DOMAIN run
           /\ \A r \in DOMAIN run : run[r] \in RunType
BY Elements DEF RunsOK

LEMMA TypeFollows == IngressInv => TypeOK
<1> SUFFICES ASSUME IngressInv PROVE TypeOK
  OBVIOUS
<1>1. Typed /\ RowsInv /\ CallsInv /\ WaitingInv /\ QueueInv
  BY DEF IngressInv, Linked
<1>2. ASSUME NEW d \in Domains PROVE domain[d].recon <= Len(run) /\ (Row(d) => domain[d].node \in Nodes)
  <2>1. domain[d] \in RowType /\ RowInv(d)
    BY <1>1 DEF RowsInv
  <2>2. domain[d].recon # 0 => domain[d].recon \in DOMAIN run
    BY <2>1 DEF RowInv
  <2>3. domain[d].recon \in Nat
    BY <2>1 DEF RowType
  <2>4. QED
    BY <1>1, <2>1, <2>2, <2>3, RunsAre DEF Typed, RowInv
<1>3. DOMAIN call = Callers /\ \A c \in Callers : CallOK(call[c])
  BY <1>1 DEF CallsInv, CallInv
<1>4. QED
  BY <1>1, <1>2, <1>3 DEF TypeOK, Typed, RunsOK, StateOK, FilesOK, UsedOK, RowsInv, WaitingInv, QueueInv,
       RunType, UsedType, WaitType

\* A reconciliation keeps what it is of, and never runs again.
RunsGoOn ==
    /\ RunsOK'
    /\ \A r \in DOMAIN run :
          /\ r \in DOMAIN run' /\ run'[r].node = run[r].node /\ run'[r].routes = run[r].routes
          /\ run'[r].status = "RUNNING" => run[r].status = "RUNNING"

\* A row stays with its reconciliation, leaves it or is taken over by a new
\* one; and whoever ends a reconciliation takes its rows along.
Kept ==
    /\ RunsGoOn
    /\ applied \subseteq applied'
    /\ \A c \in Conns : conn[c] # "none" => conn'[c] # "none"
    /\ \A d \in Domains :
          \/ domain'[d].recon = domain[d].recon /\ (domain[d].status = "DELETING" => domain'[d].status = "DELETING")
          \/ domain'[d].recon \notin DOMAIN run
    /\ \A r \in DOMAIN run, d \in Domains :
          run[r].status = "RUNNING" /\ run'[r].status # "RUNNING" /\ domain'[d].recon = r =>
              domain'[d].status = "DELETING"
    /\ \A v \in verified : v \in verified' \/ (domain'[v[1]].recon = 0 /\ domain'[v[1]].status = "PENDING")

\* Most steps change no row.
LEMMA NothingWritten ==
    ASSUME RunsOK, UNCHANGED <<domain, run>>, applied \subseteq applied', verified \subseteq verified',
           \A c \in Conns : conn[c] # "none" => conn'[c] # "none"
    PROVE  Kept
<1>1. RunsGoOn
  BY DEF RunsGoOn, RunsOK
<1>2. QED
  BY <1>1 DEF Kept

LEMMA NamesStay ==
    ASSUME RunsGoOn, NEW x, NEW n, Names(x, n)
    PROVE  Names(x, n)'
BY DEF RunsGoOn, Names

LEMMA ReportsStay ==
    ASSUME RunsOK, Kept, NEW e, e.ok \subseteq Domains, NEW n, Reports(e, n)
    PROVE  Reports(e, n)'
<1>1. Names(e, n)' /\ e.run \in DOMAIN run /\ 0 \notin DOMAIN run
  BY NamesStay, RunsAre DEF Kept, Reports, Names
<1>2. ASSUME e.applied, NEW d \in e.ok, domain'[d].recon = e.run PROVE <<d, n>> \in verified'
  <2>1. domain[d].recon = e.run
    BY <1>1, <1>2 DEF Kept
  <2>2. <<d, n>> \in verified
    BY <1>2, <2>1 DEF Reports
  <2>3. <<d, n>>[1] = d /\ e.run # 0
    BY <1>1
  <2>4. QED
    BY <1>2, <2>2, <2>3 DEF Kept
<1>3. QED
  BY <1>1, <1>2 DEF Reports, Kept

LEMMA OwesStays ==
    ASSUME RunsOK, Kept, NEW r \in DOMAIN run, Owes(r)
    PROVE  Owes(r)'
<1>1. CASE run[r].status = "RUNNING"
  BY <1>1 DEF Kept, Owes
<1>2. CASE \A d \in Domains : domain[d].recon = r => domain[d].status = "DELETING"
  BY <1>2 DEF Kept, Owes
<1>3. QED
  BY <1>1, <1>2 DEF Owes

LEMMA ConfiguringIs ==
    ASSUME RowsInv, NEW d \in Domains, domain[d].status = "CONFIGURING"
    PROVE  /\ domain[d].node \in Nodes /\ domain[d].recon \in DOMAIN run /\ d \in On(domain[d].node)
           /\ run[domain[d].recon].node = domain[d].node /\ run[domain[d].recon].status = "RUNNING"
           /\ d \in run[domain[d].recon].routes /\ ~domain[d].due
<1>1. RowInv(d)
  BY DEF RowsInv
<1>2. domain[d].recon # 0 /\ run[domain[d].recon].status = "RUNNING" /\ ~domain[d].due
  BY <1>1 DEF RowInv
<1>3. Row(d)
  BY DEF Row
<1>4. QED
  BY <1>1, <1>2, <1>3 DEF RowInv, On

\* What the row of a domain says is still true of it.
LEMMA RowStays ==
    ASSUME RunsOK, Kept, NEW d \in Domains, RowInv(d),
           domain'[d].status = domain[d].status, domain'[d].node = domain[d].node,
           domain'[d].recon = domain[d].recon, domain'[d].due => domain[d].due,
           domain'[d].due \in BOOLEAN, domain[d].due \in BOOLEAN
    PROVE  RowInv(d)'
<1>1. Row(d)' <=> Row(d)
  BY DEF Row
<1>2. Row(d)' => domain'[d].node \in Nodes
  BY <1>1 DEF RowInv
<1>3. domain'[d].recon # 0 =>
          /\ Row(d)' /\ domain'[d].recon \in DOMAIN run'
          /\ run'[domain'[d].recon].node = domain'[d].node
          /\ domain'[d].status \in {"CONFIGURING", "ACTIVE", "DELETING"}
          /\ domain'[d].status # "DELETING" <=> d \in run'[domain'[d].recon].routes
  BY <1>1 DEF RowInv, Kept, RunsGoOn
<1>4. domain'[d].status = "CONFIGURING" =>
          domain'[d].recon # 0 /\ run'[domain'[d].recon].status = "RUNNING" /\ ~domain'[d].due
  <2>1. domain[d].status = "CONFIGURING" =>
            domain[d].recon # 0 /\ run[domain[d].recon].status = "RUNNING" /\ ~domain[d].due
            /\ domain[d].recon \in DOMAIN run
    BY DEF RowInv
  <2>2. QED
    BY <2>1 DEF Kept
<1>5. domain'[d].status = "ACTIVE" => <<d, domain'[d].node>> \in verified'
  <2>1. <<d, domain[d].node>>[1] = d
    OBVIOUS
  <2>2. QED
    BY <2>1 DEF RowInv, Kept
<1>6. QED
  BY <1>2, <1>3, <1>4, <1>5 DEF RowInv

LEMMA RowsStay ==
    ASSUME RunsOK, Kept, RowsInv, domain' = domain
    PROVE  RowsInv'
<1>1. ASSUME NEW d \in Domains PROVE RowInv(d)'
  <2>1. domain[d] \in RowType /\ RowInv(d)
    BY DEF RowsInv
  <2>2. QED
    BY <2>1, RowStays DEF RowType
<1>2. QED
  BY <1>1 DEF RowsInv

LEMMA ResultIs ==
    ASSUME NEW e \in Result
    PROVE  /\ e.type = "ingress" /\ e.run \in Nat \ {0} /\ e.routes \subseteq Domains
           /\ e.applied \in BOOLEAN /\ e.ok \subseteq Domains
BY DEF Result

LEMMA CallStays ==
    ASSUME RunsOK, Kept, NEW c \in Callers, CallInv(c), call'[c] = call[c]
    PROVE  CallInv(c)'
<1>1. CallOK(call[c]) /\ CallOK(call'[c])
  BY DEF CallInv
<1>2. call[c].pc = "send" => Names(call[c], Head(call[c].todo))'
  BY NamesStay DEF CallInv, Kept, Names, RunsGoOn
<1>3. call[c].pc = "unsent" => call[c].run \in DOMAIN run' /\ run'[call[c].run].node = Head(call[c].todo)
  BY DEF CallInv, Kept, RunsGoOn
<1>4. ASSUME call[c].pc = "result"
      PROVE  c \in Conns /\ Reports(call[c].event, c[1])' /\ Owes(call[c].event.run)'
  <2>1. PICK e : e = call[c].event
    OBVIOUS
  <2>2. e \in Result /\ c \in Conns /\ Reports(e, c[1]) /\ Owes(e.run) /\ call'[c].event = e
    BY <1>1, <1>4, <2>1, CallFields DEF CallInv
  <2>3. e.run \in DOMAIN run
    BY <2>2 DEF Reports, Names
  <2>4. Reports(e, c[1])' /\ Owes(e.run)'
    BY <2>2, <2>3, ResultIs, ReportsStay, OwesStays
  <2>5. QED
    BY <2>1, <2>2, <2>4
<1>5. QED
  BY <1>1, <1>2, <1>3, <1>4 DEF CallInv

LEMMA CallsStay ==
    ASSUME RunsOK, Kept, CallsInv, call' = call
    PROVE  CallsInv'
BY CallStays DEF CallsInv

LEMMA OneCall ==
    ASSUME RunsOK, Kept, CallsInv, NEW c \in Callers, NEW x, Step(c, x), CallInv(c)'
    PROVE  CallsInv'
<1>1. DOMAIN call' = Callers /\ \A w \in Callers : w # c => call'[w] = call[w]
  BY StepIs DEF CallsInv
<1>2. ASSUME NEW w \in Callers PROVE CallInv(w)'
  <2>1. CASE w = c
    BY <2>1
  <2>2. CASE w # c
    BY <1>1, <2>2, CallStays DEF CallsInv
  <2>3. QED
    BY <2>1, <2>2
<1>3. QED
  BY <1>1, <1>2 DEF CallsInv

\* A command that waits was already there, or names its reconciliation.
LEMMA WaitingGoes ==
    ASSUME Kept, WaitingInv, waiting' \in [Nodes -> Seq(WaitType)],
           \A n \in Nodes : \A k \in DOMAIN waiting'[n] :
               \/ \E j \in DOMAIN waiting[n] : waiting'[n][k] = waiting[n][j]
               \/ LET w == waiting'[n][k]
                  IN  /\ w.conn[1] = n /\ conn'[w.conn] # "none"
                      /\ w.cmd.run \in DOMAIN run' /\ run'[w.cmd.run].node = n
                      /\ run'[w.cmd.run].routes = w.cmd.routes
    PROVE  WaitingInv'
<1>1. ASSUME NEW n \in Nodes, NEW k \in DOMAIN waiting'[n]
      PROVE  LET w == waiting'[n][k]
             IN  /\ w.conn[1] = n /\ conn'[w.conn] # "none"
                 /\ w.cmd.run \in DOMAIN run' /\ run'[w.cmd.run].node = n
                 /\ run'[w.cmd.run].routes = w.cmd.routes
  <2>1. CASE \E j \in DOMAIN waiting[n] : waiting'[n][k] = waiting[n][j]
    <3>1. PICK j \in DOMAIN waiting[n] : waiting'[n][k] = waiting[n][j]
      BY <2>1
    <3>2. PICK w : w = waiting[n][j]
      OBVIOUS
    <3>3. w \in WaitType /\ w.conn[1] = n /\ conn[w.conn] # "none" /\ Names(w.cmd, n)
      BY <3>1, <3>2, Elements DEF WaitingInv, WaitingAt
    <3>4. conn'[w.conn] # "none"
      BY <3>3 DEF WaitType, Kept
    <3>5. Names(w.cmd, n)'
      BY <3>3, NamesStay DEF Kept
    <3>6. waiting'[n][k] = w
      BY <3>1, <3>2
    <3>7. QED
      BY <3>3, <3>4, <3>5, <3>6 DEF Names
  <2>2. CASE ~ \E j \in DOMAIN waiting[n] : waiting'[n][k] = waiting[n][j]
    BY <2>2
  <2>3. QED
    BY <2>1, <2>2
<1>2. QED
  BY <1>1 DEF WaitingInv, WaitingAt, Names

LEMMA WaitingStays ==
    ASSUME Kept, WaitingInv, waiting' = waiting
    PROVE  WaitingInv'
BY WaitingGoes DEF WaitingInv

\* An event was already queued, or reports what its reconciliation says.
LEMMA QueueGoes ==
    ASSUME RunsOK, Kept, QueueInv, queue' \in [Conns -> Seq(EventType)],
           \A c \in Conns : \A k \in DOMAIN queue'[c] :
               \/ \E j \in DOMAIN queue[c] : queue'[c][k] = queue[c][j]
               \/ queue'[c][k].type = "ingress" =>
                      \E e : e = queue'[c][k] /\ Reports(e, c[1])'
    PROVE  QueueInv'
<1>1. ASSUME NEW c \in Conns, NEW k \in DOMAIN queue'[c], queue'[c][k].type = "ingress"
      PROVE  Reports(queue[c][k], c[1])'
  <2>1. CASE \E j \in DOMAIN queue[c] : queue'[c][k] = queue[c][j]
    <3>1. PICK j \in DOMAIN queue[c] : queue'[c][k] = queue[c][j]
      BY <2>1
    <3>2. PICK e : e = queue[c][j]
      OBVIOUS
    <3>3. e \in EventType /\ e.type = "ingress" /\ Reports(e, c[1])
      BY <1>1, <3>1, <3>2, Elements DEF QueueInv, QueueAt
    <3>4. e \in Result
      BY <3>3 DEF EventType
    <3>5. Reports(e, c[1])'
      BY <3>3, <3>4, ReportsStay, ResultIs
    <3>6. queue'[c][k] = e
      BY <3>1, <3>2
    <3>7. QED
      BY <3>5, <3>6
  <2>2. CASE ~ \E j \in DOMAIN queue[c] : queue'[c][k] = queue[c][j]
    <3>1. PICK e : e = queue'[c][k] /\ Reports(e, c[1])'
      BY <1>1, <2>2
    <3>2. QED
      BY <3>1
  <2>3. QED
    BY <2>1, <2>2
<1>2. QED
  BY <1>1 DEF QueueInv, QueueAt

LEMMA QueueStays ==
    ASSUME RunsOK, Kept, QueueInv, queue' = queue
    PROVE  QueueInv'
BY QueueGoes DEF QueueInv

LEMMA ConnsStay ==
    ASSUME ConnInv, UNCHANGED <<conn, sockets, link>>, broken \subseteq broken',
           \A c \in Conns : conn[c] = "none" => call'[c] = call[c]
    PROVE  ConnInv'
BY DEF ConnInv

-----------------------------------------------------------------------------
(* What is going to be superseded, and what is attended to *)

Brings(w, n) ==
    \/ call[w].pc \in {"read", "transact"} /\ Has(call[w].todo, n)
    \/ call[w].pc = "open" /\ w[1] = n /\ InMap(w)
    \/ call[w].pc \in Sending /\ Later(call[w].todo, n)
WireAt(n) ==
    /\ sockets'[n] = sockets[n] /\ broken \subseteq broken'
    /\ \A i \in 1..MaxConns : conn[<<n, i>>] = "closing" => conn'[<<n, i>>] = "closing"

LEMMA RenewedIs ==
    ASSUME NEW n
    PROVE  /\ Renewed(n) <=> \/ \E w \in Callers : Brings(w, n)
                             \/ \E i \in 1..MaxConns : conn[<<n, i>>] = "closing"
                             \/ <<n, sockets[n]>> \in broken
           /\ Renewed(n)' <=> \/ \E w \in Callers : Brings(w, n)'
                              \/ \E i \in 1..MaxConns : conn'[<<n, i>>] = "closing"
                              \/ <<n, sockets'[n]>> \in broken'
BY DEF Renewed, Coming, Brings, Has, Later, Sending

LEMMA RenewedGoes ==
    ASSUME NEW n, WireAt(n), \A w \in Callers : Brings(w, n) => Brings(w, n)' \/ Renewed(n)'
    PROVE  Renewed(n) => Renewed(n)'
BY RenewedIs DEF WireAt

LEMMA BringsStays ==
    ASSUME NEW w \in Callers, call'[w] = call[w], NEW n, sockets'[n] = sockets[n]
    PROVE  Brings(w, n) => Brings(w, n)'
BY DEF Brings, InMap

\* Who holds a reconciliation of a node.
CallHolds(w, n, r) ==
    \/ call[w].pc \in Sending /\ call[w].run = r
    \/ w \in Conns /\ w = <<n, sockets[n]>> /\ call[w].pc = "result" /\ call[w].event.run = r
AgentHolds(n, r) ==
    \E i \in DOMAIN waiting[n] : waiting[n][i].cmd.run = r /\ waiting[n][i].conn = <<n, sockets[n]>>
WireHolds(n, r) ==
    \E c \in Conns : c = <<n, sockets[n]>>
        /\ \E i \in DOMAIN queue[c] : queue[c][i].type = "ingress" /\ queue[c][i].run = r
Misses(n, r) == \E d \in run[r].routes : d \notin On(n)

LEMMA AttendedIs ==
    ASSUME NEW n, NEW r
    PROVE  /\ Attended(n, r) <=> \/ Renewed(n) \/ Misses(n, r)
                                 \/ \E w \in Callers : CallHolds(w, n, r)
                                 \/ AgentHolds(n, r) \/ WireHolds(n, r)
           /\ Attended(n, r)' <=> \/ Renewed(n)' \/ Misses(n, r)'
                                  \/ \E w \in Callers : CallHolds(w, n, r)'
                                  \/ AgentHolds(n, r)' \/ WireHolds(n, r)'
<1>1. Conns \subseteq Callers
  BY WhoCalls
<1>2. QED
  BY <1>1 DEF Attended, CallHolds, AgentHolds, WireHolds, Misses, Sending

LEMMA CallHoldsStays ==
    ASSUME NEW w \in Callers, call'[w] = call[w], NEW n, sockets'[n] = sockets[n], NEW r
    PROVE  CallHolds(w, n, r) => CallHolds(w, n, r)'
BY DEF CallHolds

LEMMA AgentHoldsStays ==
    ASSUME NEW n, waiting'[n] = waiting[n], sockets'[n] = sockets[n], NEW r
    PROVE  AgentHolds(n, r) => AgentHolds(n, r)'
BY DEF AgentHolds

LEMMA WireHoldsStays ==
    ASSUME NEW n, \A c \in Conns : c[1] = n => queue'[c] = queue[c], sockets'[n] = sockets[n], NEW r
    PROVE  WireHolds(n, r) => WireHolds(n, r)'
BY DEF WireHolds

LEMMA MissesStays ==
    ASSUME RunsGoOn, NEW n, On(n)' \subseteq On(n), NEW r \in DOMAIN run
    PROVE  Misses(n, r) => Misses(n, r)'
BY DEF Misses, RunsGoOn

\* A reconciliation that runs owns what it did, or is going to be superseded.
Over(n) == \A r \in DOMAIN run : run[r].node = n => run[r].status # "RUNNING"
LEMMA RunningGoes ==
    ASSUME RunsOK, RunningInv, RunsGoOn, DOMAIN run' = DOMAIN run,
           \A n \in Nodes : Over(n)' \/ ((Renewed(n) => Renewed(n)') /\ (On(n)' \subseteq On(n) \/ Renewed(n)')),
           \A n \in Nodes : \A d \in On(n) :
               \/ domain'[d].recon = domain[d].recon \/ Renewed(n)'
               \/ domain[d].recon # 0 => run'[domain[d].recon].status # "RUNNING"
    PROVE  RunningInv'
<1>1. ASSUME NEW r \in DOMAIN run', run'[r].status = "RUNNING", NEW d \in run'[r].routes, d \in On(run[r].node)'
      PROVE  domain'[d].recon = r \/ Renewed(run[r].node)'
  <2>1. PICK n : n = run[r].node
    OBVIOUS
  <2>2. n \in Nodes /\ r \in DOMAIN run /\ run'[r].node = n /\ d \in run[r].routes /\ run[r].status = "RUNNING"
        /\ r # 0
    BY <1>1, <2>1, RunsAre DEF RunsGoOn, RunType
  <2>3. d \in On(n)' /\ ~Over(n)'
    BY <1>1, <2>2 DEF Over
  <2>4. CASE Renewed(n)'
    BY <2>2, <2>4
  <2>5. CASE ~Renewed(n)'
    <3>1. d \in On(n) /\ ~Renewed(n)
      BY <2>2, <2>3, <2>5
    <3>2. domain[d].recon = r
      BY <2>1, <2>2, <3>1 DEF RunningInv
    <3>3. QED
      BY <1>1, <2>2, <2>5, <3>1, <3>2
  <2>6. QED
    BY <2>4, <2>5
<1>2. QED
  BY <1>1 DEF RunningInv

\* What is still configured is attended to, if each holder is followed.
LEMMA AttendedGoes ==
    ASSUME RowsInv, AttendedInv,
           \A d \in Domains : domain'[d].status = "CONFIGURING" =>
               /\ domain[d].status = "CONFIGURING"
               /\ domain'[d].node = domain[d].node /\ domain'[d].recon = domain[d].recon,
           \A d \in Domains, n \in Nodes, r \in DOMAIN run :
               domain[d].status = "CONFIGURING" /\ domain'[d].status = "CONFIGURING"
               /\ domain[d].node = n /\ domain[d].recon = r
               /\ run[r].node = n /\ run[r].status = "RUNNING" /\ Attended(n, r) => Attended(n, r)'
    PROVE  AttendedInv'
<1>1. ASSUME NEW d \in Domains, domain'[d].status = "CONFIGURING"
      PROVE  Attended(domain[d].node, domain[d].recon)'
  <2>1. PICK n : n = domain[d].node
    OBVIOUS
  <2>2. PICK r : r = domain[d].recon
    OBVIOUS
  <2>3. domain[d].status = "CONFIGURING" /\ domain'[d].node = n /\ domain'[d].recon = r
    BY <1>1, <2>1, <2>2
  <2>4. n \in Nodes /\ r \in DOMAIN run /\ run[r].node = n /\ run[r].status = "RUNNING"
    BY <2>1, <2>2, <2>3, ConfiguringIs
  <2>5. Attended(n, r)
    BY <2>1, <2>2, <2>3 DEF AttendedInv
  <2>6. Attended(n, r)'
    BY <1>1, <2>1, <2>2, <2>3, <2>4, <2>5
  <2>7. QED
    BY <2>3, <2>6
<1>2. QED
  BY <1>1 DEF AttendedInv

\* A step of one call that leaves the connections alone.
LEMMA CallSupersedes ==
    ASSUME DOMAIN call = Callers, NEW c \in Callers, NEW x, Step(c, x), UNCHANGED <<sockets, conn, broken>>,
           NEW n, Brings(c, n) => Brings(c, n)' \/ Renewed(n)'
    PROVE  Renewed(n) => Renewed(n)'
<1>1. WireAt(n)
  BY DEF WireAt
<1>2. \A w \in Callers : Brings(w, n) => Brings(w, n)' \/ Renewed(n)'
  BY StepIs, BringsStays
<1>3. QED
  BY <1>1, <1>2, RenewedGoes

LEMMA CallAttends ==
    ASSUME DOMAIN call = Callers, NEW c \in Callers, NEW x, Step(c, x), RunsGoOn, NEW n, sockets'[n] = sockets[n],
           Renewed(n) => Renewed(n)', On(n)' \subseteq On(n) \/ Renewed(n)', NEW r \in DOMAIN run,
           CallHolds(c, n, r) \/ AgentHolds(n, r) \/ WireHolds(n, r) => Attended(n, r)'
    PROVE  Attended(n, r) => Attended(n, r)'
<1>1. ASSUME NEW w \in Callers, CallHolds(w, n, r) PROVE Attended(n, r)'
  BY <1>1, StepIs, CallHoldsStays, AttendedIs
<1>2. Misses(n, r) => Attended(n, r)'
  BY MissesStays, AttendedIs
<1>3. QED
  BY <1>1, <1>2, AttendedIs

LEMMA CallMoves ==
    ASSUME IngressInv, NEW c \in Callers, NEW x, Step(c, x),
           UNCHANGED <<domain, run, sockets, conn, broken, link, applied, verified>>,
           StateOK', FilesOK', UsedOK',
           c \in Conns => conn[c] # "none",
           Kept => CallInv(c)' /\ WaitingInv' /\ QueueInv',
           \A n \in Nodes : Brings(c, n) => Brings(c, n)' \/ Renewed(n)',
           \A n \in Nodes, r \in DOMAIN run :
               run[r].node = n /\ run[r].status = "RUNNING"
               /\ (CallHolds(c, n, r) \/ AgentHolds(n, r) \/ WireHolds(n, r)) => Attended(n, r)'
    PROVE  IngressInv'
<1>1. RunsOK /\ RowsInv /\ CallsInv /\ ConnInv /\ RunningInv /\ AttendedInv /\ DOMAIN call = Callers
  BY DEF IngressInv, Typed, Linked, CallsInv
<1>2. Kept
  BY <1>1, NothingWritten
<1>3. RunsOK' /\ RowsInv'
  BY <1>1, <1>2, RowsStay DEF RunsOK
<1>4. CallsInv'
  BY <1>1, <1>2, OneCall
<1>5. ConnInv'
  <2>1. \A w \in Conns : w \in Callers /\ (conn[w] = "none" => w # c)
    BY WhoCalls
  <2>2. QED
    BY <1>1, <2>1, StepIs, ConnsStay
<1>6. \A n \in Nodes : (Renewed(n) => Renewed(n)') /\ On(n)' = On(n)
  <2>1. \A n \in Nodes : Renewed(n) => Renewed(n)'
    BY <1>1, CallSupersedes
  <2>2. QED
    BY <2>1 DEF On, Row
<1>7. RunningInv'
  BY <1>1, <1>2, <1>6, RunningGoes DEF Kept
<1>8. AttendedInv'
  <2>1. ASSUME NEW n \in Nodes, NEW r \in DOMAIN run, run[r].node = n, run[r].status = "RUNNING", Attended(n, r)
        PROVE  Attended(n, r)'
    BY <1>1, <1>2, <1>6, <2>1, CallAttends DEF Kept
  <2>2. \A d \in Domains : domain'[d].status = domain[d].status /\ domain'[d].node = domain[d].node
                           /\ domain'[d].recon = domain[d].recon
    OBVIOUS
  <2>3. \A d \in Domains : domain'[d].status = "CONFIGURING" =>
            /\ domain[d].status = "CONFIGURING"
            /\ domain'[d].node = domain[d].node /\ domain'[d].recon = domain[d].recon
    BY <2>2
  <2>4. \A d \in Domains, n \in Nodes, r \in DOMAIN run :
            domain[d].status = "CONFIGURING" /\ domain'[d].status = "CONFIGURING"
            /\ domain[d].node = n /\ domain[d].recon = r
            /\ run[r].node = n /\ run[r].status = "RUNNING" /\ Attended(n, r) => Attended(n, r)'
    BY <2>1
  <2>5. QED
    BY <1>1, <2>3, <2>4, AttendedGoes
<1>9. QED
  BY <1>2, <1>3, <1>4, <1>5, <1>7, <1>8 DEF IngressInv, Typed, Linked

LEMMA StateStays ==
    ASSUME StateOK, UNCHANGED <<run, ready, sockets, link, conn, broken, applied, verified>>
    PROVE  StateOK'
BY DEF StateOK

LEMMA CallAlone ==
    ASSUME IngressInv, NEW c \in Callers, NEW x, Step(c, x),
           UNCHANGED <<rows, sockets, conn, wire, agent>>, UsedOK',
           c \in Conns => conn[c] # "none",
           Kept => CallInv(c)',
           \A n \in Nodes : Brings(c, n) => Brings(c, n)' \/ Renewed(n)',
           \A n \in Nodes, r \in DOMAIN run :
               run[r].node = n /\ run[r].status = "RUNNING" /\ CallHolds(c, n, r) => Attended(n, r)'
    PROVE  IngressInv'
<1>1. UNCHANGED <<domain, run, ready, sockets, conn, broken, queue, link, waiting, file, live, applied, verified>>
  BY DEF rows, wire, agent
<1>2. StateOK' /\ FilesOK'
  BY <1>1, StateStays DEF IngressInv, Typed, FilesOK
<1>3. Kept => CallInv(c)' /\ WaitingInv' /\ QueueInv'
  BY <1>1, WaitingStays, QueueStays DEF IngressInv, Typed, Linked
<1>4. \A n \in Nodes, r \in DOMAIN run :
          run[r].node = n /\ run[r].status = "RUNNING"
          /\ (CallHolds(c, n, r) \/ AgentHolds(n, r) \/ WireHolds(n, r)) => Attended(n, r)'
  BY <1>1, AgentHoldsStays, WireHoldsStays, AttendedIs
<1>5. QED
  BY <1>1, <1>2, <1>3, <1>4, CallMoves

LEMMA Busy ==
    ASSUME IngressInv, NEW c \in Callers
    PROVE  /\ CallInv(c) /\ CallOK(call[c]) /\ DOMAIN call = Callers
           /\ call[c].pc # "idle" => (c \in Conns => conn[c] # "none")
BY CallMade DEF IngressInv, Linked, CallsInv, CallInv, ConnInv

-----------------------------------------------------------------------------
(* reconcileNodeIngress *)

LEMMA RoutesAre ==
    ASSUME NEW n
    PROVE  Routable(n) \subseteq Domains /\ Deleting(n) \subseteq Domains
BY DEF Routable, Deleting, On

LEMMA ReadRowsStep ==
    ASSUME IngressInv, NEW c \in Callers, ReadRows(c)
    PROVE  IngressInv'
<1> DEFINE q == call[c].todo
<1>1. CallInv(c) /\ CallOK(call[c]) /\ DOMAIN call = Callers /\ (c \in Conns => conn[c] # "none")
  BY Busy DEF ReadRows
<1>2. call[c].pc \in {"open", "read"} /\ q \in Todo
  BY <1>1, CallFields DEF ReadRows
<1>3. PICK x : x = [pc |-> "transact", todo |-> q, routes |-> Routable(Head(q)), deleting |-> Deleting(Head(q))]
  OBVIOUS
<1>4. Step(c, x) /\ UNCHANGED <<rows, sockets, conn, wire, agent, used>>
  BY <1>3 DEF ReadRows
<1>5. CallOK(x) /\ x.pc = "transact" /\ x.todo = q
  BY <1>2, <1>3, CallMade, RoutesAre
<1>6. call'[c] = x
  BY <1>1, <1>4, StepIs
<1>7. CallInv(c)'
  BY <1>5, <1>6 DEF CallInv
<1>8. ASSUME NEW n \in Nodes, Brings(c, n) PROVE Brings(c, n)'
  <2>1. Has(q, n)
    <3>1. CASE call[c].pc = "read"
      BY <3>1, <1>8 DEF Brings, Sending
    <3>2. CASE call[c].pc = "open"
      <4>1. c[1] = n /\ q = <<n>>
        BY <1>1, <1>8, <3>2 DEF Brings, Sending, CallInv
      <4>2. QED
        BY <4>1, OneTodo
    <3>3. QED
      BY <1>2, <3>1, <3>2
  <2>2. QED
    BY <1>5, <1>6, <2>1 DEF Brings
<1>9. \A n \in Nodes, r \in DOMAIN run : ~CallHolds(c, n, r)
  BY <1>2 DEF CallHolds, Sending
<1>10. UsedOK'
  BY <1>4 DEF UsedOK, IngressInv, Typed
<1>11. QED
  BY <1>1, <1>4, <1>7, <1>8, <1>9, <1>10, CallAlone

LEMMA NotConnectedStep ==
    ASSUME IngressInv, NEW c \in Callers, NotConnected(c)
    PROVE  IngressInv'
<1> DEFINE q == call[c].todo
<1>1. CallInv(c) /\ CallOK(call[c]) /\ DOMAIN call = Callers /\ (c \in Conns => conn[c] # "none")
  BY Busy DEF NotConnected
<1>2. call[c].pc = "send" /\ q \in Todo /\ call[c].run \in Nat \ {0}
  BY <1>1, CallFields DEF NotConnected, Sending
<1>3. PICK x : x = [pc |-> "unsent", todo |-> q, run |-> call[c].run]
  OBVIOUS
<1>4. Step(c, x) /\ UNCHANGED <<rows, sockets, conn, wire, agent, used>>
  BY <1>3 DEF NotConnected
<1>5. CallOK(x) /\ x.pc = "unsent" /\ x.todo = q /\ x.run = call[c].run
  BY <1>2, <1>3, CallMade
<1>6. call'[c] = x
  BY <1>1, <1>4, StepIs
<1>7. CallInv(c)'
  <2>1. x.run \in DOMAIN run /\ run[x.run].node = Head(x.todo)
    BY <1>1, <1>2, <1>5 DEF CallInv, Names
  <2>2. UNCHANGED run
    BY <1>4 DEF rows
  <2>3. QED
    BY <1>5, <1>6, <2>1, <2>2 DEF CallInv
<1>8. ASSUME NEW n \in Nodes, Brings(c, n) PROVE Brings(c, n)'
  BY <1>2, <1>5, <1>6, <1>8 DEF Brings, Sending
<1>9. ASSUME NEW n \in Nodes, NEW r \in DOMAIN run, CallHolds(c, n, r) PROVE Attended(n, r)'
  <2>1. CallHolds(c, n, r)'
    BY <1>2, <1>5, <1>6, <1>9 DEF CallHolds, Sending
  <2>2. QED
    BY <2>1, AttendedIs
<1>10. UsedOK'
  BY <1>4 DEF UsedOK, IngressInv, Typed
<1>11. QED
  BY <1>1, <1>4, <1>7, <1>8, <1>9, <1>10, CallAlone

LEMMA AbandonOpenStep ==
    ASSUME IngressInv, NEW c \in Conns, AbandonOpen(c)
    PROVE  IngressInv'
<1>0. c \in Callers
  BY WhoCalls
<1>1. CallInv(c) /\ CallOK(call[c]) /\ DOMAIN call = Callers /\ conn[c] # "none"
  BY <1>0, Busy DEF AbandonOpen
<1>2. call[c].pc = "open"
  BY DEF AbandonOpen
<1>4. Step(c, Idle) /\ UNCHANGED <<rows, sockets, conn, wire, agent, used>>
  BY DEF AbandonOpen
<1>6. call'[c] = Idle
  BY <1>0, <1>1, <1>4, StepIs
<1>7. CallInv(c)'
  BY <1>6, CallMade DEF CallInv
<1>8. ASSUME NEW n \in Nodes, Brings(c, n) PROVE Renewed(n)'
  <2>1. c[1] = n /\ sockets[n] = c[2] /\ c \in broken
    BY <1>2, <1>8 DEF Brings, Sending, InMap, AbandonOpen
  <2>2. <<n, sockets'[n]>> \in broken'
    BY <1>4, <2>1, WhoCalls DEF wire
  <2>3. QED
    BY <2>2, RenewedIs
<1>9. \A n \in Nodes, r \in DOMAIN run : ~CallHolds(c, n, r)
  BY <1>2 DEF CallHolds, Sending
<1>10. UsedOK'
  BY <1>4 DEF UsedOK, IngressInv, Typed
<1>11. QED
  BY <1>0, <1>1, <1>4, <1>7, <1>8, <1>9, <1>10, CallAlone

\* A result that is refused is of a reconciliation that lost a row.
LEMMA LostRow ==
    ASSUME IngressInv, NEW n \in Nodes, NEW r \in DOMAIN run, run[r].node = n, run[r].status = "RUNNING",
           NEW d \in run[r].routes, d \notin On(n) \/ domain[d].recon # r
    PROVE  Renewed(n) \/ Misses(n, r)
BY DEF IngressInv, RunningInv, Misses

LEMMA LoseResultStep ==
    ASSUME IngressInv, NEW c \in Conns, LoseResult(c)
    PROVE  IngressInv'
<1>0. c \in Callers
  BY WhoCalls
<1>1. CallInv(c) /\ CallOK(call[c]) /\ DOMAIN call = Callers /\ conn[c] # "none"
  BY <1>0, Busy DEF LoseResult
<1>2. call[c].pc = "result"
  BY DEF LoseResult
<1>4. Step(c, Idle) /\ UNCHANGED <<rows, sockets, conn, wire, agent, used>>
  BY DEF LoseResult
<1>6. call'[c] = Idle
  BY <1>0, <1>1, <1>4, StepIs
<1>7. CallInv(c)'
  BY <1>6, CallMade DEF CallInv
<1>8. \A n \in Nodes : ~Brings(c, n)
  BY <1>2 DEF Brings, Sending
<1>9. ASSUME NEW n \in Nodes, NEW r \in DOMAIN run, run[r].node = n, run[r].status = "RUNNING", CallHolds(c, n, r)
      PROVE  Attended(n, r)'
  <2>1. PICK e : e = call[c].event
    OBVIOUS
  <2>2. e.run = r /\ c[1] = n /\ Names(e, n) /\ ~Owns(n, e)
    BY <1>1, <1>2, <1>9, <2>1 DEF CallHolds, Sending, CallInv, Reports, LoseResult
  <2>3. PICK d \in run[r].routes : d \notin On(n) \/ domain[d].recon # r
    BY <2>2 DEF Owns, Names
  <2>4. Renewed(n) \/ Misses(n, r)
    BY <1>9, <2>3, LostRow
  <2>5. (Renewed(n) => Renewed(n)') /\ (Misses(n, r) => Misses(n, r)')
    <3>1. UNCHANGED <<sockets, conn, broken, domain, run>>
      BY <1>4 DEF rows, wire
    <3>2. Renewed(n) => Renewed(n)'
      BY <1>0, <1>1, <1>4, <1>8, <3>1, CallSupersedes
    <3>3. QED
      BY <3>1, <3>2 DEF Misses, On, Row
  <2>6. QED
    BY <2>4, <2>5, AttendedIs
<1>10. UsedOK'
  BY <1>4 DEF UsedOK, IngressInv, Typed
<1>11. QED
  BY <1>0, <1>1, <1>4, <1>7, <1>8, <1>9, <1>10, CallAlone

\* A command reaches the Agent, or a connection whose end will be noticed.
LEMMA SendStep ==
    ASSUME IngressInv, NEW c \in Callers, Send(c)
    PROVE  IngressInv'
<1> DEFINE q == call[c].todo
           h == Head(q)
           to == <<h, sockets[h]>>
<1>1. CallInv(c) /\ CallOK(call[c]) /\ DOMAIN call = Callers /\ (c \in Conns => conn[c] # "none")
  BY Busy DEF Send
<1>2. call[c].pc = "send" /\ q \in Todo /\ call[c].run \in Nat \ {0} /\ call[c].routes \subseteq Domains
  BY <1>1, CallFields DEF Send, Sending
<1>3. /\ h \in Nodes /\ CallOK(Finish(q)) /\ Finish(q).pc \in {"idle", "read"}
      /\ \A n : Later(q, n) => Finish(q).pc = "read" /\ Has(Finish(q).todo, n)
  BY <1>2, TodoIs
<1>4. /\ Step(c, Finish(q))
      /\ UNCHANGED <<domain, run, ready, sockets, conn, broken, queue, link, file, live, applied, verified, used>>
  BY DEF Send, rows, wire
<1>5. call'[c] = Finish(q)
  BY <1>1, <1>4, StepIs
<1>6. CallInv(c)'
  BY <1>3, <1>5 DEF CallInv
<1>7. PICK w : w = [conn |-> to, cmd |-> [run |-> call[c].run, routes |-> call[c].routes]]
  OBVIOUS
<1>8. /\ Typed /\ WaitingInv /\ QueueInv /\ ConnInv
  BY DEF IngressInv, Linked
<1>9. /\ to \in Conns /\ conn[to] # "none" /\ w \in WaitType
      /\ w.conn = to /\ to[1] = h /\ w.cmd.run = call[c].run /\ Names(w.cmd, h)
  <2>1. sockets[h] \in 0..MaxConns /\ sockets[h] # 0
    BY <1>3, <1>8 DEF Typed, StateOK, Send
  <2>2. to \in Conns /\ to[1] = h
    BY <1>3, <2>1, WhoCalls, ConnectedAssumption
  <2>3. conn[to] # "none"
    BY <1>3, <1>8, <2>1 DEF ConnInv
  <2>4. w \in WaitType
    BY <1>2, <1>7, <2>2 DEF WaitType, Command
  <2>5. Names(w.cmd, h)
    BY <1>1, <1>2, <1>7 DEF CallInv, Names
  <2>6. QED
    BY <1>7, <2>2, <2>3, <2>4, <2>5
<1>10. waiting' = IF to \in broken THEN waiting ELSE [waiting EXCEPT ![h] = Append(@, w)]
  BY <1>7 DEF Send
<1>11. /\ waiting' \in [Nodes -> Seq(WaitType)]
       /\ \A n \in Nodes : waiting'[n] = waiting[n] \/ (n = h /\ waiting'[n] = Append(waiting[n], w))
       /\ to \notin broken => waiting'[h] = Append(waiting[h], w)
  <2>1. waiting \in [Nodes -> Seq(WaitType)]
    BY <1>8 DEF WaitingInv
  <2>2. Append(waiting[h], w) \in Seq(WaitType)
    BY <1>3, <1>9, <2>1, Grows
  <2>3. QED
    BY <1>3, <1>10, <2>1, <2>2
<1>12. \A n \in Nodes : /\ \A j \in DOMAIN waiting[n] : j \in DOMAIN waiting'[n] /\ waiting'[n][j] = waiting[n][j]
                        /\ \A k \in DOMAIN waiting'[n] :
                               \/ k \in DOMAIN waiting[n] /\ waiting'[n][k] = waiting[n][k]
                               \/ n = h /\ waiting'[n][k] = w
  <2>1. TAKE n \in Nodes
  <2>2. CASE waiting'[n] = waiting[n]
    BY <2>2
  <2>3. CASE n = h /\ waiting'[n] = Append(waiting[n], w)
    <3>1. waiting[n] \in Seq(WaitType)
      BY <1>8 DEF WaitingInv
    <3>2. /\ Append(waiting[n], w)[Len(waiting[n]) + 1] = w
          /\ \A j \in DOMAIN waiting[n] : /\ j \in DOMAIN Append(waiting[n], w)
                                         /\ Append(waiting[n], w)[j] = waiting[n][j]
          /\ \A k \in DOMAIN Append(waiting[n], w) : k \in DOMAIN waiting[n] \/ k = Len(waiting[n]) + 1
      BY <1>9, <3>1, Grows
    <3>3. QED
      BY <2>3, <3>2
  <2>4. QED
    BY <1>11, <2>2, <2>3
<1>13. Kept => WaitingInv'
  <2>1. ASSUME Kept PROVE WaitingInv'
    <3>1. \A n \in Nodes : \A k \in DOMAIN waiting'[n] :
             \/ \E j \in DOMAIN waiting[n] : waiting'[n][k] = waiting[n][j]
             \/ LET v == waiting'[n][k]
                IN  /\ v.conn[1] = n /\ conn'[v.conn] # "none"
                    /\ v.cmd.run \in DOMAIN run' /\ run'[v.cmd.run].node = n
                    /\ run'[v.cmd.run].routes = v.cmd.routes
      BY <1>4, <1>9, <1>12 DEF Names
    <3>2. QED
      BY <1>8, <1>11, <2>1, <3>1, WaitingGoes
  <2>2. QED
    BY <2>1
<1>14. Kept => QueueInv'
  BY <1>4, <1>8, QueueStays DEF Typed
<1>15. ASSUME NEW n \in Nodes, Brings(c, n) PROVE Brings(c, n)'
  BY <1>2, <1>3, <1>5, <1>15 DEF Brings, Sending
<1>16. ASSUME NEW n \in Nodes, NEW r \in DOMAIN run, run[r].node = n, CallHolds(c, n, r) PROVE Attended(n, r)'
  <2>1. n = h /\ call[c].run = r
    BY <1>1, <1>2, <1>16 DEF CallHolds, Sending, CallInv, Names
  <2>2. CASE to \in broken
    <3>1. <<n, sockets'[n]>> \in broken'
      BY <1>4, <2>1, <2>2
    <3>2. QED
      BY <3>1, RenewedIs, AttendedIs
  <2>3. CASE to \notin broken
    <3>1. waiting[h] \in Seq(WaitType)
      BY <1>3, <1>8 DEF WaitingInv
    <3>2. \E k \in DOMAIN waiting'[h] : waiting'[h][k] = w
      <4>1. Len(waiting[h]) + 1 \in DOMAIN Append(waiting[h], w) /\ Append(waiting[h], w)[Len(waiting[h]) + 1] = w
        BY <1>9, <3>1, Grows
      <4>2. QED
        BY <1>11, <2>3, <4>1
    <3>3. AgentHolds(n, r)'
      BY <1>4, <1>9, <2>1, <3>2 DEF AgentHolds
    <3>4. QED
      BY <3>3, AttendedIs
  <2>4. QED
    BY <2>2, <2>3
<1>17. ASSUME NEW n \in Nodes, NEW r \in DOMAIN run, AgentHolds(n, r) PROVE Attended(n, r)'
  <2>1. AgentHolds(n, r)'
    BY <1>4, <1>12, <1>17 DEF AgentHolds
  <2>2. QED
    BY <2>1, AttendedIs
<1>18. ASSUME NEW n \in Nodes, NEW r \in DOMAIN run, WireHolds(n, r) PROVE Attended(n, r)'
  BY <1>4, <1>18, WireHoldsStays, AttendedIs
<1>19. StateOK' /\ FilesOK' /\ UsedOK'
  BY <1>4, <1>8, StateStays DEF Typed, FilesOK, UsedOK
<1>20. QED
  BY <1>1, <1>4, <1>6, <1>13, <1>14, <1>15, <1>16, <1>17, <1>18, <1>19, CallMoves

-----------------------------------------------------------------------------
(* Requests that read first, and the retry timer *)

LEMMA UsedCounts ==
    ASSUME UsedOK
    PROVE  /\ used' = used => UsedOK'
           /\ used' = [used EXCEPT !.calls = @ + 1] => UsedOK'
           /\ used' = [used EXCEPT !.readies = @ + 1] => UsedOK'
           /\ used' = [used EXCEPT !.ticks = @ + 1] => UsedOK'
           /\ used' = [used EXCEPT !.mishaps = @ + 1] => UsedOK'
BY DEF UsedOK, UsedType

\* A call that begins owed nothing yet.
LEMMA IdleOwes ==
    ASSUME NEW c, call[c] = Idle
    PROVE  (\A n : ~Brings(c, n)) /\ (\A n, r : ~CallHolds(c, n, r))
BY CallMade DEF Brings, CallHolds, Sending

LEMMA CreateDomainStep ==
    ASSUME IngressInv, NEW u \in Users, NEW d \in Domains, CreateDomain(u, d)
    PROVE  IngressInv'
<1>1. u \in Callers /\ u \notin Conns /\ DOMAIN call = Callers
  BY WhoCalls, Busy
<1>2. call[u] = Idle /\ UNCHANGED <<rows, sockets, conn, wire, agent>>
  BY DEF CreateDomain, Request
<1>3. UsedOK'
  BY UsedCounts DEF CreateDomain, Request, IngressInv, Typed
<1>4. PICK x : x = [pc |-> "insert", domain |-> d, node |-> ready[ServiceOf[d]]]
  OBVIOUS
<1>5. ready[ServiceOf[d]] \in Nodes
  BY ServiceAssumption DEF IngressInv, Typed, StateOK, CreateDomain
<1>6. Step(u, x) /\ CallOK(x) /\ x.pc = "insert"
  BY <1>4, <1>5, CallMade DEF CreateDomain
<1>7. CallInv(u)'
  BY <1>1, <1>6, StepIs DEF CallInv
<1>8. QED
  BY <1>1, <1>2, <1>3, <1>6, <1>7, IdleOwes, CallAlone

LEMMA RetryTickStep == IngressInv /\ RetryTick => IngressInv'
<1> SUFFICES ASSUME IngressInv, RetryTick PROVE IngressInv'
  OBVIOUS
<1> DEFINE due == {domain[d].node : d \in {e \in Domains : domain[e].status = "PENDING" /\ domain[e].due}}
           there == {n \in due : sockets[n] # 0}
<1>1. Timer \in Callers /\ Timer \notin Conns /\ DOMAIN call = Callers
  BY WhoCalls, Busy
<1>2. call[Timer] = Idle /\ UNCHANGED <<rows, sockets, conn, wire, agent>>
  BY DEF RetryTick
<1>3. UsedOK'
  BY UsedCounts DEF RetryTick, IngressInv, Typed
<1>4. there \in SUBSET Nodes /\ there # {}
  <2>1. ASSUME NEW d \in Domains, domain[d].status = "PENDING" PROVE domain[d].node \in Nodes
    BY <2>1 DEF IngressInv, Linked, RowsInv, RowInv, Row
  <2>2. QED
    BY <2>1 DEF RetryTick
<1>5. PICK q \in Orders(there) : Step(Timer, Reading(q))
  BY DEF RetryTick
<1>6. q \in Todo
  BY <1>4, OrderTodo
<1>7. CallOK(Reading(q)) /\ Reading(q).pc = "read"
  BY <1>6, CallMade
<1>8. CallInv(Timer)'
  BY <1>1, <1>5, <1>7, StepIs DEF CallInv
<1>9. QED
  BY <1>1, <1>2, <1>3, <1>5, <1>8, IdleOwes, CallAlone

-----------------------------------------------------------------------------
(* The message queue of a connection *)

\* A step of no call that loses no connection.
LEMMA NoCallMoves ==
    ASSUME IngressInv, UNCHANGED <<domain, run, call, sockets, conn>>,
           broken \subseteq broken', applied \subseteq applied', verified \subseteq verified',
           StateOK', FilesOK', UsedOK', ConnInv', Kept => WaitingInv' /\ QueueInv',
           \A n \in Nodes, r \in DOMAIN run :
               run[r].node = n /\ run[r].status = "RUNNING"
               /\ (AgentHolds(n, r) \/ WireHolds(n, r)) => Attended(n, r)'
    PROVE  IngressInv'
<1>1. RunsOK /\ RowsInv /\ CallsInv /\ RunningInv /\ AttendedInv
  BY DEF IngressInv, Typed, Linked
<1>2. Kept
  BY <1>1, NothingWritten
<1>3. RunsOK' /\ RowsInv' /\ CallsInv'
  BY <1>1, <1>2, RowsStay, CallsStay DEF RunsOK
<1>4. \A n \in Nodes : (Renewed(n) => Renewed(n)') /\ On(n)' = On(n)
  <2>1. \A n \in Nodes : WireAt(n)
    BY DEF WireAt
  <2>2. \A n \in Nodes, w \in Callers : Brings(w, n) => Brings(w, n)'
    BY BringsStays
  <2>3. QED
    BY <2>1, <2>2, RenewedGoes DEF On, Row
<1>5. RunningInv'
  BY <1>1, <1>2, <1>4, RunningGoes DEF Kept
<1>6. ASSUME NEW n \in Nodes, NEW r \in DOMAIN run, run[r].node = n, run[r].status = "RUNNING", Attended(n, r)
      PROVE  Attended(n, r)'
  <2>1. Misses(n, r) => Misses(n, r)'
    BY <1>2, <1>4, MissesStays DEF Kept
  <2>2. \A w \in Callers : CallHolds(w, n, r) => CallHolds(w, n, r)'
    BY CallHoldsStays
  <2>3. QED
    BY <1>4, <1>6, <2>1, <2>2, AttendedIs
<1>7. AttendedInv'
  <2>1. \A d \in Domains : domain'[d].status = "CONFIGURING" =>
            /\ domain[d].status = "CONFIGURING"
            /\ domain'[d].node = domain[d].node /\ domain'[d].recon = domain[d].recon
    OBVIOUS
  <2>2. \A d \in Domains, n \in Nodes, r \in DOMAIN run :
            domain[d].status = "CONFIGURING" /\ domain'[d].status = "CONFIGURING"
            /\ domain[d].node = n /\ domain[d].recon = r
            /\ run[r].node = n /\ run[r].status = "RUNNING" /\ Attended(n, r) => Attended(n, r)'
    BY <1>6
  <2>3. QED
    BY <1>1, <2>1, <2>2, AttendedGoes
<1>8. QED
  BY <1>2, <1>3, <1>5, <1>7 DEF IngressInv, Typed, Linked

LEMMA EventTaken ==
    ASSUME RunsOK, QueueInv, NEW c \in Conns, queue[c] # <<>>, Taken(c)
    PROVE  /\ Event(c) \in EventType /\ Event(c) = queue[c][1] /\ 1 \in DOMAIN queue[c]
           /\ \A w \in Conns : w # c => queue'[w] = queue[w]
           /\ \A j \in DOMAIN queue[c] : j # 1 => \E k \in DOMAIN queue'[c] : queue'[c][k] = queue[c][j]
           /\ Kept => QueueInv'
<1>1. queue \in [Conns -> Seq(EventType)]
  BY DEF QueueInv
<1>2. queue[c] \in Seq(EventType) /\ queue[c] # <<>>
  BY <1>1
<1>3. /\ Tail(queue[c]) \in Seq(EventType) /\ Head(queue[c]) \in EventType /\ Head(queue[c]) = queue[c][1]
      /\ 1 \in DOMAIN queue[c]
      /\ \A i \in DOMAIN Tail(queue[c]) : i + 1 \in DOMAIN queue[c] /\ Tail(queue[c])[i] = queue[c][i + 1]
      /\ \A i \in DOMAIN queue[c] : i # 1 => i - 1 \in DOMAIN Tail(queue[c]) /\ Tail(queue[c])[i - 1] = queue[c][i]
  BY <1>2, Rest
<1>4. queue'[c] = Tail(queue[c]) /\ queue' \in [Conns -> Seq(EventType)] /\ \A w \in Conns : w # c => queue'[w] = queue[w]
  BY <1>1, <1>3 DEF Taken
<1>5. \A w \in Conns : \A k \in DOMAIN queue'[w] : \E j \in DOMAIN queue[w] : queue'[w][k] = queue[w][j]
  <2>1. \A k \in DOMAIN queue'[c] : \E j \in DOMAIN queue[c] : queue'[c][k] = queue[c][j]
    BY <1>3, <1>4
  <2>2. QED
    BY <1>4, <2>1
<1>6. Kept => QueueInv'
  BY <1>4, <1>5, QueueGoes
<1>7. ASSUME NEW j \in DOMAIN queue[c], j # 1 PROVE \E k \in DOMAIN queue'[c] : queue'[c][k] = queue[c][j]
  <2>1. j - 1 \in DOMAIN queue'[c] /\ queue'[c][j - 1] = queue[c][j]
    BY <1>3, <1>4, <1>7
  <2>2. QED
    BY <2>1
<1>8. QED
  BY <1>3, <1>4, <1>6, <1>7 DEF Event

\* Only its first event leaves the queue.
LEMMA WireHoldsTaken ==
    ASSUME RunsOK, QueueInv, NEW c \in Conns, queue[c] # <<>>, Taken(c),
           NEW n, NEW r, sockets'[n] = sockets[n], WireHolds(n, r)
    PROVE  WireHolds(n, r)' \/ (c = <<n, sockets[n]>> /\ Event(c).type = "ingress" /\ Event(c).run = r)
<1>1. PICK w \in Conns : /\ w = <<n, sockets[n]>>
                         /\ \E i \in DOMAIN queue[w] : queue[w][i].type = "ingress" /\ queue[w][i].run = r
  BY DEF WireHolds
<1>2. PICK i \in DOMAIN queue[w] : queue[w][i].type = "ingress" /\ queue[w][i].run = r
  BY <1>1
<1>3. CASE w # c \/ i # 1
  <2>1. \E k \in DOMAIN queue'[w] : queue'[w][k].type = "ingress" /\ queue'[w][k].run = r
    BY <1>2, <1>3, EventTaken
  <2>2. QED
    BY <1>1, <2>1 DEF WireHolds
<1>4. CASE w = c /\ i = 1
  BY <1>1, <1>2, <1>4, EventTaken
<1>5. QED
  BY <1>3, <1>4

LEMMA DropEventStep ==
    ASSUME IngressInv, NEW c \in Conns, DropEvent(c)
    PROVE  IngressInv'
<1>1. /\ UNCHANGED <<domain, run, call, sockets, conn, broken, link, ready, waiting, file, live, applied, verified, used>>
      /\ queue[c] # <<>> /\ Taken(c)
  BY DEF DropEvent, rows, api, agent, Serves
<1>2. Typed /\ WaitingInv /\ QueueInv /\ ConnInv
  BY DEF IngressInv, Linked
<1>3. StateOK' /\ FilesOK' /\ UsedOK' /\ ConnInv'
  BY <1>1, <1>2, StateStays, ConnsStay DEF Typed, FilesOK, UsedOK
<1>4. Kept => WaitingInv' /\ QueueInv'
  BY <1>1, <1>2, WaitingStays, EventTaken DEF Typed
<1>5. ASSUME NEW n \in Nodes, NEW r \in DOMAIN run, WireHolds(n, r) PROVE Attended(n, r)'
  <2>1. CASE c = <<n, sockets[n]>>
    <3>1. InMap(c)
      BY <2>1 DEF InMap
    <3>2. <<n, sockets'[n]>> \in broken'
      BY <1>1, <2>1, <3>1 DEF DropEvent
    <3>3. QED
      BY <3>2, RenewedIs, AttendedIs
  <2>2. CASE c # <<n, sockets[n]>>
    BY <1>1, <1>2, <1>5, <2>2, WireHoldsTaken, AttendedIs DEF Typed
  <2>3. QED
    BY <2>1, <2>2
<1>6. \A n \in Nodes, r \in DOMAIN run : AgentHolds(n, r) => Attended(n, r)'
  BY <1>1, AgentHoldsStays, AttendedIs
<1>7. QED
  BY <1>1, <1>3, <1>4, <1>5, <1>6, NoCallMoves

LEMMA RecordReadyStep ==
    ASSUME IngressInv, NEW c \in Conns, RecordReady(c)
    PROVE  IngressInv'
<1>0. c \in Callers /\ c[1] \in Nodes
  BY WhoCalls
<1>1. /\ UNCHANGED <<domain, run, sockets, conn, broken, link, waiting, file, live, applied, verified, used>>
      /\ queue[c] # <<>> /\ Taken(c) /\ call[c] = Idle /\ conn[c] = "open" /\ Event(c).type = "ready"
      /\ ready' = [ready EXCEPT ![Event(c).service] = c[1]]
      /\ Step(c, [pc |-> "move", service |-> Event(c).service])
  BY DEF RecordReady, agent, Serves
<1>2. Typed /\ WaitingInv /\ QueueInv /\ DOMAIN call = Callers
  BY DEF IngressInv, Linked, CallsInv
<1>3. Event(c) \in EventType /\ Event(c).service \in Services
  <2>1. Event(c) \in EventType
    BY <1>1, <1>2, EventTaken DEF Typed
  <2>2. QED
    BY <1>1, <2>1, ResultIs DEF EventType
<1>4. PICK x : x = [pc |-> "move", service |-> Event(c).service]
  OBVIOUS
<1>5. Step(c, x) /\ CallOK(x) /\ x.pc = "move"
  BY <1>1, <1>3, <1>4, CallMade
<1>6. CallInv(c)'
  BY <1>0, <1>2, <1>5, StepIs DEF CallInv
<1>7. StateOK' /\ FilesOK' /\ UsedOK'
  BY <1>0, <1>1, <1>2, <1>3 DEF Typed, StateOK, FilesOK, UsedOK
<1>8. Kept => WaitingInv' /\ QueueInv'
  BY <1>1, <1>2, WaitingStays, EventTaken DEF Typed
<1>9. ASSUME NEW n \in Nodes, NEW r \in DOMAIN run, AgentHolds(n, r) \/ WireHolds(n, r)
      PROVE  Attended(n, r)'
  BY <1>1, <1>2, <1>9, AgentHoldsStays, WireHoldsTaken, AttendedIs DEF Typed
<1>10. QED
  BY <1>0, <1>1, <1>5, <1>6, <1>7, <1>8, <1>9, IdleOwes, CallMoves

LEMMA ReadResultStep ==
    ASSUME IngressInv, NEW c \in Conns, ReadResult(c)
    PROVE  IngressInv'
<1>0. c \in Callers /\ c[1] \in Nodes /\ c = <<c[1], c[2]>>
  BY WhoCalls
<1>1. PICK e : e = Event(c)
  OBVIOUS
<1>2. /\ UNCHANGED <<domain, run, ready, sockets, conn, broken, link, waiting, file, live, applied, verified, used>>
      /\ queue[c] # <<>> /\ Taken(c) /\ call[c] = Idle /\ conn[c] = "open" /\ e.type = "ingress" /\ InMap(c)
      /\ \/ Current(c, e) /\ Step(c, [pc |-> "result", event |-> e, counts |-> [d \in e.routes |-> domain[d].retry + 1]])
         \/ ~Current(c, e) /\ UNCHANGED call
  BY <1>1 DEF ReadResult, rows, agent, Serves
<1>3. /\ Typed /\ RowsInv /\ WaitingInv /\ QueueInv /\ ConnInv /\ RunningInv /\ DOMAIN call = Callers
  BY DEF IngressInv, Linked, CallsInv
<1>4. e \in Result /\ Reports(e, c[1])
  <2>1. e \in EventType /\ e = queue[c][1] /\ 1 \in DOMAIN queue[c]
    BY <1>1, <1>2, <1>3, EventTaken DEF Typed
  <2>2. QED
    BY <1>2, <1>3, <2>1 DEF EventType, QueueInv, QueueAt
<1>5. e.run \in DOMAIN run /\ run[e.run].node = c[1] /\ run[e.run].routes = e.routes
  BY <1>4 DEF Reports, Names
<1>6. StateOK' /\ FilesOK' /\ UsedOK'
  BY <1>2, <1>3, StateStays DEF Typed, FilesOK, UsedOK
<1>7. Kept => WaitingInv' /\ QueueInv'
  BY <1>2, <1>3, WaitingStays, EventTaken DEF Typed
\* What waits for this event, when it is refused or taken up.
<1>8. ASSUME NEW n \in Nodes, NEW r \in DOMAIN run, AgentHolds(n, r) \/ WireHolds(n, r)
      PROVE  Attended(n, r)' \/ (c = <<n, sockets[n]>> /\ e.run = r)
  BY <1>1, <1>2, <1>3, <1>8, AgentHoldsStays, WireHoldsTaken, AttendedIs DEF Typed
<1>9. CASE Current(c, e)
  <2>1. PICK x : x = [pc |-> "result", event |-> e, counts |-> [d \in e.routes |-> domain[d].retry + 1]]
    OBVIOUS
  <2>2. [d \in e.routes |-> domain[d].retry + 1] \in [e.routes -> Nat]
    BY <1>3, <1>4, ResultIs DEF RowsInv, RowType
  <2>3. CallOK(x) /\ x.pc = "result" /\ x.event = e /\ Step(c, x)
    BY <1>2, <1>4, <1>9, <2>1, <2>2, CallMade
  <2>4. call'[c] = x
    BY <1>0, <1>3, <2>3, StepIs
  <2>5. Kept => CallInv(c)'
    <3>1. Owes(e.run)
      BY <1>9 DEF Current, Owes
    <3>2. ASSUME Kept PROVE Reports(e, c[1])' /\ Owes(e.run)'
      BY <1>3, <1>4, <1>5, <3>1, <3>2, ReportsStay, ResultIs, OwesStays DEF Typed
    <3>3. call'[c].event = e /\ call'[c].pc = "result" /\ CallOK(call'[c])
      BY <2>3, <2>4
    <3>4. QED
      BY <3>2, <3>3 DEF CallInv
  <2>6. ASSUME NEW n \in Nodes, NEW r \in DOMAIN run, c = <<n, sockets[n]>>, e.run = r PROVE Attended(n, r)'
    <3>1. CallHolds(c, n, r)'
      BY <1>2, <2>3, <2>4, <2>6 DEF CallHolds
    <3>2. QED
      BY <1>0, <3>1, AttendedIs
  <2>7. \A n \in Nodes, r \in DOMAIN run :
            run[r].node = n /\ run[r].status = "RUNNING"
            /\ (CallHolds(c, n, r) \/ AgentHolds(n, r) \/ WireHolds(n, r)) => Attended(n, r)'
    BY <1>2, <1>8, <2>6, IdleOwes
  <2>8. QED
    BY <1>0, <1>2, <1>6, <1>7, <2>3, <2>5, <2>7, IdleOwes, CallMoves
<1>10. CASE ~Current(c, e)
  <2>1. UNCHANGED call
    BY <1>2, <1>10
  <2>2. ASSUME NEW n \in Nodes, NEW r \in DOMAIN run, run[r].status = "RUNNING", c = <<n, sockets[n]>>, e.run = r
        PROVE  Attended(n, r)'
    <3>1. c[1] = n /\ Known(n, r) # run[r].routes
      BY <1>5, <1>10, <2>2 DEF Current
    <3>2. Known(n, r) \subseteq run[r].routes
      <4>1. ASSUME NEW d \in Known(n, r) PROVE d \in run[r].routes
        <5>1. d \in Domains /\ domain[d].recon = r /\ domain[d].status # "DELETING" /\ r # 0
          BY <1>3, RunsAre DEF Known, On, Typed
        <5>2. RowInv(d)
          BY <1>3, <5>1 DEF RowsInv
        <5>3. QED
          BY <5>1, <5>2 DEF RowInv
      <4>2. QED
        BY <4>1
    <3>3. PICK d \in run[r].routes : d \notin Known(n, r)
      BY <3>1, <3>2
    <3>4. d \notin On(n) \/ domain[d].recon # r
      <4>1. ASSUME d \in On(n), domain[d].recon = r PROVE FALSE
        <5>1. d \in Domains /\ r # 0 /\ RowInv(d)
          BY <1>3, <4>1, RunsAre DEF On, RowsInv, Typed
        <5>2. domain[d].status \in {"CONFIGURING", "ACTIVE", "DELETING"} /\ domain[d].status # "DELETING"
          BY <3>3, <4>1, <5>1 DEF RowInv
        <5>3. QED
          BY <3>3, <4>1, <5>2 DEF Known
      <4>2. QED
        BY <4>1
    <3>5. Renewed(n) \/ Misses(n, r)
      BY <1>5, <2>2, <3>1, <3>4, LostRow
    <3>6. Renewed(n) => Renewed(n)'
      <4>1. WireAt(n) /\ \A w \in Callers : Brings(w, n) => Brings(w, n)'
        BY <1>2, <2>1, BringsStays DEF WireAt
      <4>2. QED
        BY <4>1, RenewedGoes
    <3>7. Misses(n, r) => Misses(n, r)'
      BY <1>2 DEF Misses, On, Row
    <3>8. QED
      BY <3>5, <3>6, <3>7, AttendedIs
  <2>3. ConnInv'
    BY <1>2, <1>3, <2>1, ConnsStay
  <2>4. \A n \in Nodes, r \in DOMAIN run :
            run[r].node = n /\ run[r].status = "RUNNING"
            /\ (AgentHolds(n, r) \/ WireHolds(n, r)) => Attended(n, r)'
    BY <1>8, <2>2
  <2>5. QED
    BY <1>2, <1>6, <1>7, <2>1, <2>3, <2>4, NoCallMoves
<1>11. QED
  BY <1>9, <1>10

-----------------------------------------------------------------------------
(* The Agent *)

LEMMA QueueGrows ==
    ASSUME RunsOK, QueueInv, NEW c \in Conns, NEW e \in EventType, queue' = [queue EXCEPT ![c] = Append(@, e)]
    PROVE  /\ Kept /\ (e.type = "ingress" => Reports(e, c[1])') => QueueInv'
           /\ \E k \in DOMAIN queue'[c] : queue'[c][k] = e
           /\ \A n, r : sockets'[n] = sockets[n] /\ WireHolds(n, r) => WireHolds(n, r)'
<1>1. queue \in [Conns -> Seq(EventType)] /\ queue[c] \in Seq(EventType)
  BY DEF QueueInv
<1>2. /\ Append(queue[c], e) \in Seq(EventType)
      /\ Append(queue[c], e)[Len(queue[c]) + 1] = e /\ Len(queue[c]) + 1 \in DOMAIN Append(queue[c], e)
      /\ \A j \in DOMAIN queue[c] : Append(queue[c], e)[j] = queue[c][j] /\ j \in DOMAIN Append(queue[c], e)
      /\ \A k \in DOMAIN Append(queue[c], e) : k \in DOMAIN queue[c] \/ k = Len(queue[c]) + 1
  BY <1>1, Grows
<1>3. /\ queue' \in [Conns -> Seq(EventType)] /\ queue'[c] = Append(queue[c], e)
      /\ \A w \in Conns : w # c => queue'[w] = queue[w]
  BY <1>1, <1>2
<1>4. ASSUME Kept, e.type = "ingress" => Reports(e, c[1])' PROVE QueueInv'
  <2>1. ASSUME NEW w \in Conns, NEW k \in DOMAIN queue'[w]
        PROVE  \/ \E j \in DOMAIN queue[w] : queue'[w][k] = queue[w][j]
               \/ queue'[w][k].type = "ingress" => \E x : x = queue'[w][k] /\ Reports(x, w[1])'
    <3>1. CASE w # c
      BY <1>3, <3>1
    <3>2. CASE w = c /\ k \in DOMAIN queue[c]
      BY <1>2, <1>3, <3>2
    <3>3. CASE w = c /\ queue'[w][k] = e
      BY <1>4, <3>3
    <3>4. QED
      BY <1>2, <1>3, <3>1, <3>2, <3>3
  <2>2. QED
    BY <1>3, <1>4, <2>1, QueueGoes
<1>5. \A w \in Conns : \A j \in DOMAIN queue[w] : j \in DOMAIN queue'[w] /\ queue'[w][j] = queue[w][j]
  BY <1>2, <1>3
<1>6. ASSUME NEW n, NEW r, sockets'[n] = sockets[n], WireHolds(n, r) PROVE WireHolds(n, r)'
  BY <1>5, <1>6 DEF WireHolds
<1>7. QED
  BY <1>2, <1>3, <1>4, <1>6

LEMMA ReportReadyStep ==
    ASSUME IngressInv, NEW n \in Nodes, NEW s \in Services, ReportReady(n, s)
    PROVE  IngressInv'
<1> DEFINE c == <<n, link[n]>>
<1>1. Typed /\ WaitingInv /\ QueueInv /\ ConnInv
  BY DEF IngressInv, Linked
<1>2. c \in Conns
  <2>1. link[n] \in 0..MaxConns /\ link[n] # 0
    BY <1>1 DEF Typed, StateOK, ReportReady
  <2>2. QED
    BY <2>1, WhoCalls, ConnectedAssumption
<1>3. PICK e : e = [type |-> "ready", service |-> s]
  OBVIOUS
<1>4. /\ UNCHANGED <<domain, run, ready, call, sockets, conn, broken, link, waiting, file, live, applied, verified>>
      /\ queue' = [queue EXCEPT ![c] = Append(@, e)]
  BY <1>3 DEF ReportReady, rows, api, agent
<1>5. e \in EventType /\ e.type # "ingress"
  BY <1>3 DEF EventType
<1>6. StateOK' /\ FilesOK' /\ UsedOK' /\ ConnInv'
  <2>1. UsedOK'
    BY <1>1, UsedCounts DEF Typed, ReportReady
  <2>2. QED
    BY <1>1, <1>4, <2>1, StateStays, ConnsStay DEF Typed, FilesOK
<1>7. Kept => WaitingInv' /\ QueueInv'
  BY <1>1, <1>2, <1>4, <1>5, WaitingStays, QueueGrows DEF Typed
<1>8. \A m \in Nodes, r \in DOMAIN run : AgentHolds(m, r) \/ WireHolds(m, r) => Attended(m, r)'
  BY <1>1, <1>2, <1>4, <1>5, AgentHoldsStays, QueueGrows, AttendedIs DEF Typed
<1>9. QED
  BY <1>4, <1>6, <1>7, <1>8, NoCallMoves

\* A command is carried out, or given up, and its result is on the way.
LEMMA CompleteStep ==
    ASSUME IngressInv, NEW n \in Nodes, NEW i \in DOMAIN waiting[n],
           NEW isApplied \in BOOLEAN, NEW ok \in SUBSET waiting[n][i].cmd.routes,
           Complete(n, i, isApplied, ok), FilesOK', UsedOK'
    PROVE  IngressInv'
<1>1. Typed /\ WaitingInv /\ QueueInv /\ ConnInv
  BY DEF IngressInv, Linked
<1>2. PICK w : w = waiting[n][i]
  OBVIOUS
<1>3. waiting \in [Nodes -> Seq(WaitType)] /\ waiting[n] \in Seq(WaitType) /\ w \in WaitType
  BY <1>1, <1>2, Elements DEF WaitingInv
<1>4. PICK e : e = [type |-> "ingress", run |-> w.cmd.run, routes |-> w.cmd.routes,
                    applied |-> isApplied, ok |-> ok]
  OBVIOUS
<1>5. /\ w.conn \in Conns /\ w.conn[1] = n /\ conn[w.conn] # "none"
      /\ w.cmd.run \in DOMAIN run /\ run[w.cmd.run].node = n /\ run[w.cmd.run].routes = w.cmd.routes
      /\ w.cmd.run \in Nat \ {0} /\ w.cmd.routes \subseteq Domains
  BY <1>1, <1>2, <1>3 DEF WaitType, Command, WaitingInv, WaitingAt, Names
<1>6. e \in Result /\ e \in EventType /\ e.type = "ingress" /\ e.run = w.cmd.run
  BY <1>2, <1>4, <1>5 DEF Result, EventType
<1>7. /\ UNCHANGED <<domain, run, ready, call, sockets, conn, broken, link>>
      /\ queue' = IF w.conn \in broken THEN queue ELSE [queue EXCEPT ![w.conn] = Append(@, e)]
      /\ waiting' = [waiting EXCEPT ![n] = Without(@, i)]
      /\ applied' = IF isApplied THEN applied \union {w.cmd.run} ELSE applied
      /\ verified' = verified \union (ok \X {n})
  BY <1>2, <1>4 DEF Complete, rows, api
<1>8. Reports(e, w.conn[1])'
  <2>1. e.routes = w.cmd.routes /\ e.applied = isApplied /\ e.ok = ok
    BY <1>4
  <2>2. Names(e, n)'
    BY <1>5, <1>6, <1>7, <2>1 DEF Names
  <2>3. e.applied => e.run \in applied' /\ \A d \in e.ok : <<d, n>> \in verified'
    BY <1>6, <1>7, <2>1
  <2>4. Reports(e, n)'
    BY <2>2, <2>3 DEF Reports
  <2>5. QED
    BY <1>5, <2>4
<1>9. /\ Without(waiting[n], i) \in Seq(WaitType)
      /\ \A k \in DOMAIN Without(waiting[n], i) : \E j \in DOMAIN waiting[n] : Without(waiting[n], i)[k] = waiting[n][j]
      /\ \A j \in DOMAIN waiting[n] : j # i =>
             \E k \in DOMAIN Without(waiting[n], i) : Without(waiting[n], i)[k] = waiting[n][j]
  BY <1>3, WithoutOne
<1>10. /\ waiting' \in [Nodes -> Seq(WaitType)] /\ waiting'[n] = Without(waiting[n], i)
       /\ \A m \in Nodes : m # n => waiting'[m] = waiting[m]
  BY <1>3, <1>7, <1>9
<1>11. Kept => WaitingInv' /\ QueueInv'
  <2>1. ASSUME Kept PROVE WaitingInv'
    <3>1. \A m \in Nodes : \A k \in DOMAIN waiting'[m] : \E j \in DOMAIN waiting[m] : waiting'[m][k] = waiting[m][j]
      BY <1>9, <1>10
    <3>2. QED
      BY <1>1, <1>10, <2>1, <3>1, WaitingGoes
  <2>2. CASE w.conn \in broken
    BY <1>1, <1>7, <2>1, <2>2, QueueStays DEF Typed
  <2>3. CASE w.conn \notin broken
    <3>1. queue' = [queue EXCEPT ![w.conn] = Append(@, e)]
      BY <1>7, <2>3
    <3>2. QED
      BY <1>1, <1>5, <1>6, <1>8, <2>1, <3>1, QueueGrows DEF Typed
  <2>4. QED
    BY <2>2, <2>3
<1>12. StateOK' /\ ConnInv'
  BY <1>1, <1>2, <1>5, <1>7, ConnsStay DEF Typed, StateOK
<1>13. applied \subseteq applied' /\ verified \subseteq verified'
  BY <1>7
<1>14. ASSUME NEW m \in Nodes, NEW r \in DOMAIN run, WireHolds(m, r) PROVE Attended(m, r)'
  <2>1. WireHolds(m, r)'
    <3>1. CASE w.conn \in broken
      BY <1>7, <1>14, <3>1, WireHoldsStays
    <3>2. CASE w.conn \notin broken
      <4>1. queue' = [queue EXCEPT ![w.conn] = Append(@, e)]
        BY <1>7, <3>2
      <4>2. QED
        BY <1>1, <1>5, <1>6, <1>7, <1>14, <4>1, QueueGrows DEF Typed
    <3>3. QED
      BY <3>1, <3>2
  <2>2. QED
    BY <2>1, AttendedIs
<1>15. ASSUME NEW m \in Nodes, NEW r \in DOMAIN run, AgentHolds(m, r) PROVE Attended(m, r)'
  <2>1. PICK j \in DOMAIN waiting[m] : waiting[m][j].cmd.run = r /\ waiting[m][j].conn = <<m, sockets[m]>>
    BY <1>15 DEF AgentHolds
  <2>2. CASE m # n \/ j # i
    <3>1. \E k \in DOMAIN waiting'[m] : waiting'[m][k] = waiting[m][j]
      BY <1>9, <1>10, <2>2
    <3>2. AgentHolds(m, r)'
      BY <1>7, <2>1, <3>1 DEF AgentHolds
    <3>3. QED
      BY <3>2, AttendedIs
  <2>3. CASE m = n /\ j = i
    <3>1. w.cmd.run = r /\ w.conn = <<m, sockets[m]>>
      BY <1>2, <2>1, <2>3
    <3>2. CASE w.conn \in broken
      <4>1. <<m, sockets'[m]>> \in broken'
        BY <1>7, <3>1, <3>2
      <4>2. QED
        BY <4>1, RenewedIs, AttendedIs
    <3>3. CASE w.conn \notin broken
      <4>1. queue' = [queue EXCEPT ![w.conn] = Append(@, e)]
        BY <1>7, <3>3
      <4>2. \E k \in DOMAIN queue'[w.conn] : queue'[w.conn][k] = e
        <5>1. RunsOK /\ QueueInv
          BY <1>1 DEF Typed
        <5>2. PICK c : c = w.conn
          OBVIOUS
        <5>3. c \in Conns /\ queue' = [queue EXCEPT ![c] = Append(@, e)]
          BY <1>5, <4>1, <5>2
        <5>4. \E k \in DOMAIN queue'[c] : queue'[c][k] = e
          BY <1>6, <5>1, <5>3, QueueGrows
        <5>5. QED
          BY <5>2, <5>4
      <4>3. WireHolds(m, r)'
        BY <1>5, <1>6, <1>7, <3>1, <4>2 DEF WireHolds
      <4>4. QED
        BY <4>3, AttendedIs
    <3>4. QED
      BY <3>2, <3>3
  <2>4. QED
    BY <2>2, <2>3
<1>16. QED
  BY <1>7, <1>11, <1>12, <1>13, <1>14, <1>15, NoCallMoves

LEMMA RemoveCaddyStep ==
    ASSUME IngressInv, NEW n \in Nodes, NEW i \in DOMAIN waiting[n], RemoveCaddy(n, i)
    PROVE  IngressInv'
<1>1. FilesOK' /\ UsedOK'
  BY DEF RemoveCaddy, FilesOK, UsedOK, IngressInv, Typed
<1>2. QED
  BY <1>1, CompleteStep DEF RemoveCaddy

LEMMA CommandIs ==
    ASSUME IngressInv, NEW n \in Nodes, NEW i \in DOMAIN waiting[n]
    PROVE  waiting[n][i].cmd.routes \subseteq Domains
<1>1. waiting[n] \in Seq(WaitType)
  BY DEF IngressInv, Linked, WaitingInv
<1>2. waiting[n][i] \in WaitType
  BY <1>1, Elements
<1>3. QED
  BY <1>2 DEF WaitType, Command

LEMMA ApplyRoutesStep ==
    ASSUME IngressInv, NEW n \in Nodes, NEW i \in DOMAIN waiting[n], ApplyRoutes(n, i)
    PROVE  IngressInv'
<1>1. FilesOK' /\ UsedOK'
  BY CommandIs DEF ApplyRoutes, Ensured, FilesOK, UsedOK, IngressInv, Typed
<1>2. \E ok \in SUBSET waiting[n][i].cmd.routes : Complete(n, i, TRUE, ok)
  BY DEF ApplyRoutes
<1>3. QED
  BY <1>1, <1>2, CompleteStep

LEMMA DockerFailsStep ==
    ASSUME IngressInv, NEW n \in Nodes, NEW i \in DOMAIN waiting[n], DockerFails(n, i)
    PROVE  IngressInv'
<1>1. FilesOK' /\ UsedOK'
  BY CommandIs, UsedCounts DEF DockerFails, Mishap, FilesOK, IngressInv, Typed
<1>2. Complete(n, i, FALSE, {})
  BY DEF DockerFails
<1>3. QED
  BY <1>1, <1>2, CompleteStep

\* What the Agent of a node held is going to be superseded when its connection ends.
LEMMA AgentGone ==
    ASSUME IngressInv, NEW n \in Nodes, link[n] # 0 => <<n, link[n]>> \in broken',
           broken \subseteq broken', sockets' = sockets,
           NEW r, AgentHolds(n, r) \/ WireHolds(n, r)
    PROVE  Attended(n, r)'
<1> DEFINE c == <<n, sockets[n]>>
<1>1. Typed /\ WaitingInv /\ ConnInv
  BY DEF IngressInv, Linked
<1>2. c \in Conns
  <2>1. waiting[n] \in Seq(WaitType)
    BY <1>1 DEF WaitingInv
  <2>2. \A i \in DOMAIN waiting[n] : waiting[n][i] \in WaitType
    BY <2>1, Elements
  <2>3. QED
    BY <2>2 DEF WaitType, AgentHolds, WireHolds
<1>3. conn[c] # "none" /\ sockets[n] # 0
  <2>1. sockets[n] # 0
    BY <1>2 DEF Conns
  <2>2. QED
    BY <1>1, <2>1 DEF ConnInv
<1>4. c \in broken \/ link[n] = sockets[n]
  BY <1>1, <1>2, <1>3 DEF ConnInv
<1>5. <<n, sockets'[n]>> \in broken'
  BY <1>3, <1>4
<1>6. QED
  BY <1>5, RenewedIs, AttendedIs

LEMMA CutIs ==
    ASSUME IngressInv, NEW n \in Nodes, link[n] # 0, Cut(n)
    PROVE  /\ link' \in [Nodes -> 0..MaxConns] /\ broken' \subseteq Conns /\ broken \subseteq broken'
           /\ <<n, link[n]>> \in broken' /\ \A m \in Nodes : m # n => link'[m] = link[m]
           /\ \A c \in Conns : c[1] # n => queue'[c] = queue[c]
           /\ Kept => QueueInv'
<1> DEFINE c == <<n, link[n]>>
<1>1. Typed /\ QueueInv /\ link \in [Nodes -> 0..MaxConns] /\ queue \in [Conns -> Seq(EventType)]
  BY DEF IngressInv, Linked, Typed, StateOK, QueueInv
<1>2. c \in Conns /\ c[1] = n
  BY <1>1, WhoCalls, ConnectedAssumption
<1> HIDE DEF c
<1>3. PICK k \in 0..Len(queue[c]) : queue' = [queue EXCEPT ![c] = SubSeq(@, 1, k)]
  BY DEF Cut, c
<1>4. queue[c] \in Seq(EventType)
  BY <1>1, <1>2
<1>5. /\ SubSeq(queue[c], 1, k) \in Seq(EventType) /\ DOMAIN SubSeq(queue[c], 1, k) = 1..k
      /\ \A i \in 1..k : SubSeq(queue[c], 1, k)[i] = queue[c][i] /\ i \in DOMAIN queue[c]
  BY <1>3, <1>4, Prefix
<1>6. /\ queue' \in [Conns -> Seq(EventType)] /\ queue'[c] = SubSeq(queue[c], 1, k)
      /\ \A w \in Conns : w # c => queue'[w] = queue[w]
  BY <1>1, <1>2, <1>3, <1>5
<1>7. \A w \in Conns : \A i \in DOMAIN queue'[w] : \E j \in DOMAIN queue[w] : queue'[w][i] = queue[w][j]
  <2>1. \A i \in DOMAIN queue'[c] : \E j \in DOMAIN queue[c] : queue'[c][i] = queue[c][j]
    BY <1>5, <1>6
  <2>2. QED
    BY <1>6, <2>1
<1>8. Kept => QueueInv'
  BY <1>1, <1>6, <1>7, QueueGoes DEF Typed
<1>9. /\ link' \in [Nodes -> 0..MaxConns] /\ broken' = broken \union {c}
      /\ \A m \in Nodes : m # n => link'[m] = link[m]
  BY <1>1, ConnectedAssumption DEF Cut, c
<1>10. broken \subseteq Conns
  BY <1>1 DEF Typed, StateOK
<1>11. QED
  BY <1>2, <1>6, <1>8, <1>9, <1>10 DEF c

\* The connections after the Agent of a node has lost its own.
LEMMA ConnsCut ==
    ASSUME IngressInv, NEW n \in Nodes, UNCHANGED <<conn, sockets, call>>, broken \subseteq broken',
           link[n] # 0 => <<n, link[n]>> \in broken', \A m \in Nodes : m # n => link'[m] = link[m]
    PROVE  ConnInv'
<1>1. Typed /\ ConnInv /\ link \in [Nodes -> 0..MaxConns]
  BY DEF IngressInv, Typed, StateOK
<1>2. ASSUME NEW c \in Conns, conn[c] # "none" PROVE c \in broken' \/ link'[c[1]] = c[2]
  <2>1. c[1] \in Nodes /\ c[2] \in 1..MaxConns /\ c = <<c[1], c[2]>>
    BY WhoCalls
  <2>2. c \in broken \/ link[c[1]] = c[2]
    BY <1>1, <1>2 DEF ConnInv
  <2>3. CASE c[1] = n /\ link[c[1]] = c[2]
    BY <2>1, <2>3, ConnectedAssumption
  <2>4. QED
    BY <2>1, <2>2, <2>3
<1>3. QED
  BY <1>1, <1>2 DEF ConnInv

LEMMA LoseConnectionStep ==
    ASSUME IngressInv, NEW n \in Nodes, LoseConnection(n)
    PROVE  IngressInv'
<1>1. Typed /\ WaitingInv /\ link[n] # 0 /\ Cut(n)
  BY DEF IngressInv, Linked, LoseConnection
<1>2. UNCHANGED <<domain, run, ready, call, sockets, conn, file, live, applied, verified>>
  BY DEF LoseConnection, rows, api
<1>3. /\ link' \in [Nodes -> 0..MaxConns] /\ broken' \subseteq Conns /\ broken \subseteq broken'
      /\ <<n, link[n]>> \in broken' /\ \A m \in Nodes : m # n => link'[m] = link[m]
      /\ \A c \in Conns : c[1] # n => queue'[c] = queue[c]
      /\ Kept => QueueInv'
  BY <1>1, CutIs
<1>4. /\ waiting' \in [Nodes -> Seq(WaitType)]
      /\ \A m \in Nodes : m # n => waiting'[m] = waiting[m]
      /\ \A m \in Nodes : \A k \in DOMAIN waiting'[m] : \E j \in DOMAIN waiting[m] : waiting'[m][k] = waiting[m][j]
  <2>1. waiting \in [Nodes -> Seq(WaitType)] /\ waiting[n] \in Seq(WaitType)
    BY <1>1 DEF WaitingInv
  <2>2. PICK k \in 0..Len(waiting[n]) : waiting' = [waiting EXCEPT ![n] = SubSeq(@, 1, k)]
    BY DEF LoseConnection
  <2>3. /\ SubSeq(waiting[n], 1, k) \in Seq(WaitType) /\ DOMAIN SubSeq(waiting[n], 1, k) = 1..k
        /\ \A i \in 1..k : SubSeq(waiting[n], 1, k)[i] = waiting[n][i] /\ i \in DOMAIN waiting[n]
    BY <2>1, <2>2, Prefix
  <2>4. waiting' \in [Nodes -> Seq(WaitType)] /\ waiting'[n] = SubSeq(waiting[n], 1, k)
        /\ \A m \in Nodes : m # n => waiting'[m] = waiting[m]
    BY <2>1, <2>2, <2>3
  <2>5. \A i \in DOMAIN waiting'[n] : \E j \in DOMAIN waiting[n] : waiting'[n][i] = waiting[n][j]
    BY <2>3, <2>4
  <2>6. QED
    BY <2>4, <2>5
<1>5. Kept => WaitingInv' /\ QueueInv'
  BY <1>1, <1>3, <1>4, WaitingGoes
<1>6. ConnInv'
  BY <1>2, <1>3, ConnsCut
<1>7. StateOK' /\ FilesOK' /\ UsedOK'
  <2>1. UsedOK'
    BY <1>1, UsedCounts DEF Typed, LoseConnection, Mishap
  <2>2. QED
    BY <1>1, <1>2, <1>3, <2>1 DEF Typed, StateOK, FilesOK
<1>8. ASSUME NEW m \in Nodes, NEW r \in DOMAIN run, AgentHolds(m, r) \/ WireHolds(m, r) PROVE Attended(m, r)'
  <2>1. CASE m = n
    BY <1>2, <1>3, <1>8, <2>1, AgentGone
  <2>2. CASE m # n
    <3>1. AgentHolds(m, r)' \/ WireHolds(m, r)'
      BY <1>2, <1>3, <1>4, <1>8, <2>2, AgentHoldsStays, WireHoldsStays
    <3>2. QED
      BY <3>1, AttendedIs
  <2>3. QED
    BY <2>1, <2>2
<1>9. QED
  BY <1>2, <1>3, <1>5, <1>6, <1>7, <1>8, NoCallMoves

LEMMA CrashAgentStep ==
    ASSUME IngressInv, NEW n \in Nodes, CrashAgent(n)
    PROVE  IngressInv'
<1>1. Typed /\ WaitingInv /\ QueueInv /\ link \in [Nodes -> 0..MaxConns] /\ broken \subseteq Conns
  BY DEF IngressInv, Linked, Typed, StateOK
<1>2. UNCHANGED <<domain, run, ready, call, sockets, conn, applied, verified>>
  BY DEF CrashAgent, rows, api
<1>3. /\ link' \in [Nodes -> 0..MaxConns] /\ broken' \subseteq Conns /\ broken \subseteq broken'
      /\ link[n] # 0 => <<n, link[n]>> \in broken'
      /\ \A m \in Nodes : m # n => link'[m] = link[m]
      /\ \A c \in Conns : c[1] # n => queue'[c] = queue[c]
      /\ Kept => QueueInv'
  <2>1. CASE link[n] # 0
    <3>1. Cut(n)
      BY <2>1 DEF CrashAgent
    <3>2. QED
      BY <2>1, <3>1, CutIs
  <2>2. CASE link[n] = 0
    <3>1. UNCHANGED <<link, broken, queue>>
      BY <2>2 DEF CrashAgent, wire
    <3>2. QED
      BY <1>1, <2>2, <3>1, QueueStays DEF Typed
  <2>3. QED
    BY <2>1, <2>2
<1>4. /\ waiting' \in [Nodes -> Seq(WaitType)] /\ DOMAIN waiting'[n] = {}
      /\ \A m \in Nodes : m # n => waiting'[m] = waiting[m]
  <2>1. waiting \in [Nodes -> Seq(WaitType)] /\ waiting' = [waiting EXCEPT ![n] = <<>>]
    BY <1>1 DEF WaitingInv, CrashAgent
  <2>2. <<>> \in Seq(WaitType) /\ DOMAIN <<>> = {}
    BY EmptySeq
  <2>3. QED
    BY <2>1, <2>2
<1>5. Kept => WaitingInv' /\ QueueInv'
  <2>1. \A m \in Nodes : \A k \in DOMAIN waiting'[m] : \E j \in DOMAIN waiting[m] : waiting'[m][k] = waiting[m][j]
    BY <1>4
  <2>2. QED
    BY <1>1, <1>3, <1>4, <2>1, WaitingGoes
<1>6. ConnInv'
  BY <1>2, <1>3, ConnsCut
<1>7. FilesOK'
  <2>1. FilesOK
    BY <1>1 DEF Typed
  <2>2. \/ UNCHANGED <<file, live>>
        \/ live' = [live EXCEPT ![n] = IF @ = {} THEN {} ELSE file[n]] /\ UNCHANGED file
        \/ \E i \in DOMAIN waiting[n] :
              /\ file' = [file EXCEPT ![n] = waiting[n][i].cmd.routes]
              /\ live' \in {live, [live EXCEPT ![n] = Ensured(n, waiting[n][i].cmd.routes)]}
    BY DEF CrashAgent
  <2>3. ASSUME NEW i \in DOMAIN waiting[n],
               file' = [file EXCEPT ![n] = waiting[n][i].cmd.routes],
               live' \in {live, [live EXCEPT ![n] = Ensured(n, waiting[n][i].cmd.routes)]}
        PROVE  FilesOK'
    BY <2>1, <2>3, CommandIs DEF FilesOK, Ensured
  <2>4. QED
    BY <2>1, <2>2, <2>3 DEF FilesOK
<1>8. StateOK' /\ UsedOK'
  <2>1. UsedOK'
    BY <1>1, UsedCounts DEF Typed, CrashAgent, Mishap
  <2>2. QED
    BY <1>1, <1>2, <1>3, <2>1 DEF Typed, StateOK
<1>9. ASSUME NEW m \in Nodes, NEW r \in DOMAIN run, AgentHolds(m, r) \/ WireHolds(m, r) PROVE Attended(m, r)'
  <2>1. CASE m = n
    BY <1>2, <1>3, <1>9, <2>1, AgentGone
  <2>2. CASE m # n
    <3>1. AgentHolds(m, r)' \/ WireHolds(m, r)'
      BY <1>2, <1>3, <1>4, <1>9, <2>2, AgentHoldsStays, WireHoldsStays
    <3>2. QED
      BY <3>1, AttendedIs
  <2>3. QED
    BY <2>1, <2>2
<1>10. QED
  BY <1>2, <1>3, <1>5, <1>6, <1>7, <1>8, <1>9, NoCallMoves

-----------------------------------------------------------------------------
(* Connections that begin and end *)

LEMMA OthersMove ==
    ASSUME IngressInv, UNCHANGED <<domain, run>>, Kept, Typed', CallsInv', WaitingInv', QueueInv', ConnInv',
           \A n \in Nodes : Renewed(n) => Renewed(n)',
           \A n \in Nodes, r \in DOMAIN run : Attended(n, r) => Attended(n, r)'
    PROVE  IngressInv'
<1>1. RunsOK /\ RowsInv /\ RunningInv /\ AttendedInv
  BY DEF IngressInv, Typed, Linked
<1>2. RowsInv'
  BY <1>1, RowsStay
<1>3. \A n \in Nodes : On(n)' = On(n)
  BY DEF On, Row
<1>4. RunningInv'
  BY <1>1, <1>3, RunningGoes DEF Kept
<1>5. AttendedInv'
  <2>1. \A d \in Domains : domain'[d].status = "CONFIGURING" =>
            /\ domain[d].status = "CONFIGURING"
            /\ domain'[d].node = domain[d].node /\ domain'[d].recon = domain[d].recon
    OBVIOUS
  <2>2. \A d \in Domains, n \in Nodes, r \in DOMAIN run :
            domain[d].status = "CONFIGURING" /\ domain'[d].status = "CONFIGURING"
            /\ domain[d].node = n /\ domain[d].recon = r
            /\ run[r].node = n /\ run[r].status = "RUNNING" /\ Attended(n, r) => Attended(n, r)'
    OBVIOUS
  <2>3. QED
    BY <1>1, <2>1, <2>2, AttendedGoes
<1>6. QED
  BY <1>2, <1>4, <1>5 DEF IngressInv, Linked

\* A node whose connections do not change keeps what attends to it.
LEMMA AttendedElsewhere ==
    ASSUME UNCHANGED <<domain, run>>, NEW n, WireAt(n), waiting'[n] = waiting[n],
           \A c \in Conns : c[1] = n => queue'[c] = queue[c],
           \A w \in Callers : call'[w] = call[w] \/ (~Brings(w, n) /\ \A r : ~CallHolds(w, n, r))
    PROVE  (Renewed(n) => Renewed(n)') /\ \A r \in DOMAIN run : Attended(n, r) => Attended(n, r)'
<1>1. sockets'[n] = sockets[n]
  BY DEF WireAt
<1>2. \A w \in Callers : Brings(w, n) => Brings(w, n)'
  BY <1>1, BringsStays
<1>3. Renewed(n) => Renewed(n)'
  BY <1>2, RenewedGoes
<1>4. \A w \in Callers, r \in DOMAIN run : CallHolds(w, n, r) => CallHolds(w, n, r)'
  BY <1>1, CallHoldsStays
<1>5. \A r \in DOMAIN run : Misses(n, r) => Misses(n, r)'
  BY DEF Misses, On, Row
<1>6. QED
  BY <1>1, <1>3, <1>4, <1>5, AgentHoldsStays, WireHoldsStays, AttendedIs

LEMMA ConnectStep ==
    ASSUME IngressInv, NEW n \in Nodes, NEW i \in 1..MaxConns, Connect(n, i)
    PROVE  IngressInv'
<1>1. PICK c : c = <<n, i>>
  OBVIOUS
<1>2. c \in Conns /\ c \in Callers /\ c[1] = n /\ c[2] = i
  BY <1>1, WhoCalls
<1>3. PICK x : x = [pc |-> "open", todo |-> <<n>>]
  OBVIOUS
<1>4. /\ link[n] = 0 /\ conn[c] = "none"
      /\ link' = [link EXCEPT ![n] = i] /\ sockets' = [sockets EXCEPT ![n] = i]
      /\ conn' = [conn EXCEPT ![c] = "open"]
      /\ broken' = broken \union {<<n, j>> : j \in 1..(i - 1)}
      /\ Step(c, x)
      /\ UNCHANGED <<domain, run, ready, queue, waiting, file, live, applied, verified, used>>
  BY <1>1, <1>3 DEF Connect, rows, agent
<1>5. Typed /\ CallsInv /\ WaitingInv /\ QueueInv /\ ConnInv /\ DOMAIN call = Callers
  BY DEF IngressInv, Linked, CallsInv
<1>6. /\ link \in [Nodes -> 0..MaxConns] /\ sockets \in [Nodes -> 0..MaxConns]
      /\ conn \in [Conns -> {"none", "open", "closing", "closed"}] /\ broken \subseteq Conns
  BY <1>5 DEF Typed, StateOK
<1>7. /\ link'[n] = i /\ sockets'[n] = i /\ conn'[c] = "open"
      /\ \A m \in Nodes : m # n => link'[m] = link[m] /\ sockets'[m] = sockets[m]
      /\ \A w \in Conns : w # c => conn'[w] = conn[w]
      /\ broken \subseteq broken'
  BY <1>2, <1>4, <1>6
<1>8. Typed'
  <2>1. link' \in [Nodes -> 0..MaxConns] /\ sockets' \in [Nodes -> 0..MaxConns]
    BY <1>4, <1>6, ConnectedAssumption
  <2>2. conn' \in [Conns -> {"none", "open", "closing", "closed"}]
    BY <1>2, <1>4, <1>6
  <2>3. broken' \subseteq Conns
    <3>1. \A j \in 1..(i - 1) : j \in 1..MaxConns
      BY ConnectedAssumption
    <3>2. QED
      BY <1>4, <1>6, <3>1, WhoCalls
  <2>4. QED
    BY <1>4, <1>5, <2>1, <2>2, <2>3 DEF Typed, RunsOK, StateOK, FilesOK, UsedOK
<1>9. Kept
  BY <1>4, <1>5, <1>7, NothingWritten DEF Typed
<1>10. call[c] = Idle /\ call'[c] = x /\ \A w \in Callers : w # c => call'[w] = call[w]
  BY <1>2, <1>4, <1>5, StepIs DEF ConnInv
<1>11. CallOK(x) /\ x.pc = "open" /\ x.todo = <<n>>
  BY <1>3, OneTodo, CallMade
<1>12. CallsInv'
  <2>1. CallInv(c)'
    BY <1>2, <1>10, <1>11 DEF CallInv
  <2>2. QED
    BY <1>2, <1>4, <1>5, <1>9, <2>1, OneCall DEF Typed
<1>13. WaitingInv' /\ QueueInv'
  BY <1>4, <1>5, <1>9, WaitingStays, QueueStays DEF Typed
<1>14. ConnInv'
  <2>1. ASSUME NEW w \in Conns, conn'[w] = "none" PROVE call'[w] = Idle
    BY <1>5, <1>7, <1>10, <2>1, WhoCalls DEF ConnInv
  <2>2. ASSUME NEW w \in Conns, conn'[w] # "none" PROVE w \in broken' \/ link'[w[1]] = w[2]
    <3>1. w[1] \in Nodes /\ w[2] \in 1..MaxConns /\ w = <<w[1], w[2]>>
      BY WhoCalls
    <3>2. CASE w = c
      BY <1>2, <1>7, <3>2
    <3>3. CASE w # c
      <4>1. w \in broken \/ link[w[1]] = w[2]
        BY <1>5, <1>7, <2>2, <3>3 DEF ConnInv
      <4>2. CASE w[1] = n
        <5>1. link[w[1]] # w[2]
          BY <1>4, <3>1, <4>2, ConnectedAssumption
        <5>2. QED
          BY <1>7, <4>1, <5>1
      <4>3. CASE w[1] # n
        BY <1>7, <3>1, <4>1, <4>3
      <4>4. QED
        BY <4>2, <4>3
    <3>4. QED
      BY <3>2, <3>3
  <2>3. ASSUME NEW m \in Nodes, sockets'[m] # 0 PROVE conn'[<<m, sockets'[m]>>] # "none"
    <3>1. CASE m = n
      BY <1>1, <1>7, <3>1
    <3>2. CASE m # n
      <4>1. sockets[m] \in 1..MaxConns /\ sockets'[m] = sockets[m]
        BY <1>6, <1>7, <2>3, <3>2, ConnectedAssumption
      <4>2. <<m, sockets[m]>> \in Conns /\ conn[<<m, sockets[m]>>] # "none"
        BY <1>5, <4>1, WhoCalls DEF ConnInv
      <4>3. QED
        BY <1>4, <1>7, <4>1, <4>2
    <3>3. QED
      BY <3>1, <3>2
  <2>4. QED
    BY <2>1, <2>2, <2>3 DEF ConnInv
<1>15. Renewed(n)'
  <2>1. Brings(c, n)'
    BY <1>2, <1>7, <1>10, <1>11 DEF Brings, InMap
  <2>2. QED
    BY <1>2, <2>1, RenewedIs
<1>16. ASSUME NEW m \in Nodes, m # n
       PROVE  (Renewed(m) => Renewed(m)') /\ \A r \in DOMAIN run : Attended(m, r) => Attended(m, r)'
  <2>1. WireAt(m)
    <3>1. \A j \in 1..MaxConns : conn'[<<m, j>>] = conn[<<m, j>>]
      BY <1>1, <1>7, <1>16, WhoCalls
    <3>2. QED
      BY <1>7, <1>16, <3>1 DEF WireAt
  <2>2. \A w \in Callers : call'[w] = call[w] \/ (~Brings(w, m) /\ \A r : ~CallHolds(w, m, r))
    BY <1>10, IdleOwes
  <2>3. QED
    BY <1>4, <2>1, <2>2, AttendedElsewhere
<1>17. \A r : Attended(n, r)'
  BY <1>15, AttendedIs
<1>18. QED
  BY <1>4, <1>8, <1>9, <1>12, <1>13, <1>14, <1>15, <1>16, <1>17, OthersMove

LEMMA NoticeCloseStep ==
    ASSUME IngressInv, NEW c \in Conns, NoticeClose(c)
    PROVE  IngressInv'
<1>1. c \in Callers /\ c[1] \in Nodes /\ c[2] \in 1..MaxConns /\ c = <<c[1], c[2]>>
  BY WhoCalls
<1>2. /\ UNCHANGED <<domain, run, ready, call, broken, queue, link, waiting, file, live, applied, verified, used>>
      /\ conn[c] = "open" /\ c \in broken
      /\ \/ InMap(c) /\ sockets' = [sockets EXCEPT ![c[1]] = 0] /\ conn' = [conn EXCEPT ![c] = "closing"]
         \/ ~InMap(c) /\ conn' = [conn EXCEPT ![c] = "closed"] /\ UNCHANGED sockets
  BY DEF NoticeClose, rows, wire, agent
<1>3. Typed /\ CallsInv /\ WaitingInv /\ QueueInv /\ ConnInv
  BY DEF IngressInv, Linked
<1>4. /\ sockets \in [Nodes -> 0..MaxConns]
      /\ conn \in [Conns -> {"none", "open", "closing", "closed"}]
  BY <1>3 DEF Typed, StateOK
<1>5. /\ conn'[c] \in {"closing", "closed"} /\ (InMap(c) => conn'[c] = "closing")
      /\ \A w \in Conns : w # c => conn'[w] = conn[w]
      /\ \A m \in Nodes : sockets'[m] = sockets[m] \/ (InMap(c) /\ m = c[1] /\ sockets'[m] = 0)
      /\ sockets' \in [Nodes -> 0..MaxConns]
      /\ conn' \in [Conns -> {"none", "open", "closing", "closed"}]
  BY <1>1, <1>2, <1>4, ConnectedAssumption
<1>6. Typed'
  BY <1>2, <1>3, <1>5 DEF Typed, RunsOK, StateOK, FilesOK, UsedOK
<1>7. Kept
  BY <1>2, <1>3, <1>5, NothingWritten DEF Typed
<1>8. CallsInv' /\ WaitingInv' /\ QueueInv'
  BY <1>2, <1>3, <1>7, CallsStay, WaitingStays, QueueStays DEF Typed
<1>9. ConnInv'
  <2>1. \A w \in Conns : conn'[w] = "none" <=> conn[w] = "none"
    BY <1>2, <1>5
  <2>2. ASSUME NEW m \in Nodes, sockets'[m] # 0 PROVE conn'[<<m, sockets'[m]>>] # "none"
    <3>1. sockets'[m] = sockets[m] /\ sockets[m] \in 1..MaxConns
      BY <1>4, <1>5, <2>2, ConnectedAssumption
    <3>2. <<m, sockets[m]>> \in Conns /\ conn[<<m, sockets[m]>>] # "none"
      BY <1>3, <3>1, WhoCalls DEF ConnInv
    <3>3. QED
      BY <2>1, <3>1, <3>2
  <2>3. QED
    BY <1>2, <1>3, <2>1, <2>2 DEF ConnInv
<1>10. ASSUME NEW n \in Nodes, ~(InMap(c) /\ n = c[1])
       PROVE  (Renewed(n) => Renewed(n)') /\ \A r \in DOMAIN run : Attended(n, r) => Attended(n, r)'
  <2>1. WireAt(n)
    <3>1. \A j \in 1..MaxConns : conn[<<n, j>>] = "closing" => conn'[<<n, j>>] = "closing"
      BY <1>2, <1>5, WhoCalls
    <3>2. QED
      BY <1>2, <1>5, <1>10, <3>1 DEF WireAt
  <2>2. QED
    BY <1>2, <2>1, AttendedElsewhere
<1>11. ASSUME InMap(c) PROVE Renewed(c[1])' /\ \A r : Attended(c[1], r)'
  <2>1. conn'[<<c[1], c[2]>>] = "closing"
    BY <1>1, <1>5, <1>11
  <2>2. PICK n : n = c[1]
    OBVIOUS
  <2>3. Renewed(n)'
    BY <1>1, <2>1, <2>2, RenewedIs
  <2>4. \A r : Attended(n, r)'
    BY <2>3, AttendedIs
  <2>5. QED
    BY <2>2, <2>3, <2>4
<1>12. \A n \in Nodes : (Renewed(n) => Renewed(n)') /\ \A r \in DOMAIN run : Attended(n, r) => Attended(n, r)'
  BY <1>10, <1>11
<1>13. QED
  BY <1>2, <1>6, <1>7, <1>8, <1>9, <1>12, OthersMove

\* What ends a reconciliation, and a row's part in it, writes.
LEMMA ClosedIs ==
    ASSUME RunsOK, NEW n
    PROVE  /\ Closed(n) \in Seq(RunType) /\ DOMAIN Closed(n) = DOMAIN run
           /\ \A r \in DOMAIN run :
                 /\ Closed(n)[r].node = run[r].node /\ Closed(n)[r].routes = run[r].routes
                 /\ Closed(n)[r].status = "RUNNING" => run[r].status = "RUNNING" /\ run[r].node # n
                 /\ run[r].node # n => Closed(n)[r] = run[r]
<1>1. run \in Seq(RunType) /\ DOMAIN run = 1..Len(run) /\ Len(run) \in Nat /\ \A r \in DOMAIN run : run[r] \in RunType
  BY RunsAre DEF RunsOK
<1>2. ASSUME NEW e \in RunType
      PROVE  /\ [e EXCEPT !.status = "FAILED"] \in RunType
             /\ [e EXCEPT !.status = "FAILED"].node = e.node
             /\ [e EXCEPT !.status = "FAILED"].routes = e.routes
             /\ [e EXCEPT !.status = "FAILED"].status = "FAILED"
  BY DEF RunType
<1>3. /\ DOMAIN Closed(n) = DOMAIN run
      /\ \A r \in DOMAIN run :
            Closed(n)[r] = IF run[r].node = n /\ run[r].status = "RUNNING"
                             THEN [run[r] EXCEPT !.status = "FAILED"] ELSE run[r]
  BY DEF Closed
<1>4. Closed(n) \in [1..Len(run) -> RunType]
  <2>1. \A r \in DOMAIN run : Closed(n)[r] \in RunType
    BY <1>1, <1>2, <1>3
  <2>2. Closed(n) = [r \in 1..Len(run) |-> Closed(n)[r]]
    BY <1>1 DEF Closed
  <2>3. QED
    BY <1>1, <2>1, <2>2
<1>5. Closed(n) \in Seq(RunType)
  BY <1>1, <1>4, SeqDef
<1>6. ASSUME NEW r \in DOMAIN run
      PROVE  /\ Closed(n)[r].node = run[r].node /\ Closed(n)[r].routes = run[r].routes
             /\ Closed(n)[r].status = "RUNNING" => run[r].status = "RUNNING" /\ run[r].node # n
             /\ run[r].node # n => Closed(n)[r] = run[r]
  BY <1>1, <1>2, <1>3
<1>7. QED
  BY <1>3, <1>5, <1>6

SameBut(t, row, fields) ==
    /\ t \in RowType
    /\ "status" \notin fields => t.status = row.status
    /\ "node" \notin fields => t.node = row.node
    /\ "recon" \notin fields => t.recon = row.recon
    /\ "retry" \notin fields => t.retry = row.retry
    /\ "due" \notin fields => t.due = row.due

LEMMA RowStatus ==
    ASSUME NEW row \in RowType, NEW x \in {"new", "PENDING", "CONFIGURING", "ACTIVE", "FAILED", "DELETING", "removed"}
    PROVE  SameBut([row EXCEPT !.status = x], row, {"status"}) /\ [row EXCEPT !.status = x].status = x
BY DEF RowType, SameBut

LEMMA RowRecon ==
    ASSUME NEW row \in RowType, NEW x \in Nat
    PROVE  SameBut([row EXCEPT !.recon = x], row, {"recon"}) /\ [row EXCEPT !.recon = x].recon = x
BY DEF RowType, SameBut

LEMMA RowRetry ==
    ASSUME NEW row \in RowType, NEW x \in Nat
    PROVE  SameBut([row EXCEPT !.retry = x], row, {"retry"}) /\ [row EXCEPT !.retry = x].retry = x
BY DEF RowType, SameBut

LEMMA RowDue ==
    ASSUME NEW row \in RowType, NEW x \in BOOLEAN
    PROVE  SameBut([row EXCEPT !.due = x], row, {"due"}) /\ [row EXCEPT !.due = x].due = x
BY DEF RowType, SameBut

LEMMA RowNode ==
    ASSUME NEW row \in RowType, NEW x \in Nodes
    PROVE  SameBut([row EXCEPT !.node = x], row, {"node"}) /\ [row EXCEPT !.node = x].node = x
BY DEF RowType, SameBut

LEMMA ReleasedIs ==
    ASSUME NEW row \in RowType, NEW retry \in BOOLEAN
    PROVE  LET t == Released(row, retry)
           IN  /\ t \in RowType /\ t.recon = 0 /\ t.node = row.node
               /\ t.status = IF row.status = "DELETING" THEN "DELETING" ELSE "PENDING"
<1> DEFINE t1 == [row EXCEPT !.status = IF row.status = "DELETING" THEN "DELETING" ELSE "PENDING"]
           t2 == [t1 EXCEPT !.recon = 0]
           t3 == [t2 EXCEPT !.due = row.due /\ retry]
<1>1. t1 \in RowType /\ t1.node = row.node /\ t1.due = row.due /\ row.due \in BOOLEAN
      /\ t1.status = IF row.status = "DELETING" THEN "DELETING" ELSE "PENDING"
  BY RowStatus DEF RowType, SameBut
<1>2. Released(row, retry) = t3
  BY DEF Released, RowType
<1> HIDE DEF t1
<1>3. t2 \in RowType /\ t2.node = row.node /\ t2.recon = 0 /\ t2.status = t1.status
  BY <1>1, RowRecon DEF SameBut
<1> HIDE DEF t2
<1>4. t3 \in RowType /\ t3.node = row.node /\ t3.recon = 0 /\ t3.status = t1.status
  BY <1>1, <1>3, RowDue DEF SameBut
<1> HIDE DEF t3
<1>5. QED
  BY <1>1, <1>2, <1>4

\* A row on its own.
LEMMA RowFree ==
    ASSUME NEW d \in Domains, domain'[d].recon = 0, domain'[d].status \notin {"CONFIGURING", "ACTIVE"},
           Row(d)' => domain'[d].node \in Nodes
    PROVE  RowInv(d)'
BY DEF RowInv

\* A row of a reconciliation is on the node of it.
LEMMA RowIs ==
    ASSUME IngressInv, NEW d \in Domains
    PROVE  /\ domain[d] \in RowType /\ RowInv(d)
           /\ domain[d].recon \in DOMAIN run <=> domain[d].recon # 0
           /\ domain[d].recon # 0 => d \in On(run[domain[d].recon].node) /\ domain[d].node = run[domain[d].recon].node
           /\ \A n : d \in On(n) => domain[d].node = n /\ Row(d) /\ n \in Nodes
<1>1. RowsInv /\ RunsOK
  BY DEF IngressInv, Linked, Typed
<1>2. domain[d] \in RowType /\ RowInv(d)
  BY <1>1 DEF RowsInv
<1>3. domain[d].recon # 0 =>
          domain[d].recon \in DOMAIN run /\ Row(d) /\ run[domain[d].recon].node = domain[d].node
  BY <1>2 DEF RowInv
<1>4. 0 \notin DOMAIN run
  BY <1>1, RunsAre
<1>5. Row(d) => domain[d].node \in Nodes
  BY <1>2 DEF RowInv
<1>6. QED
  BY <1>2, <1>3, <1>4, <1>5 DEF On

\* The rows that a step leaves as they are, and those that lose their reconciliation.
LEMMA RowsAfter ==
    ASSUME IngressInv, Kept, domain' \in [Domains -> RowType],
           \A d \in Domains : domain'[d] = domain[d] \/ RowInv(d)'
    PROVE  RowsInv'
<1>1. ASSUME NEW d \in Domains PROVE RowInv(d)'
  <2>1. domain[d] \in RowType /\ RowInv(d) /\ RunsOK
    BY RowIs DEF IngressInv, Typed
  <2>2. QED
    BY <2>1, RowStays DEF RowType
<1>2. QED
  BY <1>1 DEF RowsInv

LEMMA FailRunningStep ==
    ASSUME IngressInv, NEW c \in Conns, FailRunningIngress(c)
    PROVE  IngressInv'
<1>1. PICK n : n = c[1]
  OBVIOUS
<1>2. c \in Callers /\ n \in Nodes /\ c[2] \in 1..MaxConns /\ c = <<n, c[2]>>
  BY <1>1, WhoCalls
<1> DEFINE gone == {d \in Domains : d \in On(n) /\ domain[d].recon \in Unfinished(n)}
<1>3. /\ conn[c] = "closing" /\ run' = Closed(n) /\ conn' = [conn EXCEPT ![c] = "closed"]
      /\ domain' = [d \in Domains |-> IF d \in gone THEN Released(domain[d], FALSE) ELSE domain[d]]
      /\ UNCHANGED <<ready, sockets, call, broken, queue, link, waiting, file, live, applied, verified, used>>
  BY <1>1 DEF FailRunningIngress, wire, agent
<1>4. Typed /\ RowsInv /\ CallsInv /\ WaitingInv /\ QueueInv /\ ConnInv /\ RunningInv /\ AttendedInv
  BY DEF IngressInv, Linked
<1>5. /\ run' \in Seq(RunType) /\ DOMAIN run' = DOMAIN run
      /\ \A r \in DOMAIN run :
            /\ run'[r].node = run[r].node /\ run'[r].routes = run[r].routes
            /\ run'[r].status = "RUNNING" => run[r].status = "RUNNING" /\ run[r].node # n
            /\ run[r].node # n => run'[r] = run[r]
  BY <1>3, <1>4, ClosedIs DEF Typed
<1>6. RunsGoOn
  BY <1>5 DEF RunsGoOn, RunsOK
<1>7. /\ conn'[c] = "closed" /\ \A w \in Conns : w # c => conn'[w] = conn[w]
      /\ conn' \in [Conns -> {"none", "open", "closing", "closed"}]
  BY <1>3, <1>4 DEF Typed, StateOK
<1>8. ASSUME NEW d \in gone
      PROVE  /\ domain'[d] \in RowType /\ domain'[d].recon = 0 /\ domain'[d].node = domain[d].node
             /\ domain'[d].status = IF domain[d].status = "DELETING" THEN "DELETING" ELSE "PENDING"
  <2>1. domain[d] \in RowType /\ domain'[d] = Released(domain[d], FALSE)
    BY <1>3, RowIs
  <2>2. QED
    BY <2>1, ReleasedIs
<1>9. \A d \in Domains : d \notin gone => domain'[d] = domain[d]
  BY <1>3
<1>10. ASSUME NEW d \in Domains, d \notin gone, domain[d].recon # 0 PROVE run'[domain[d].recon].status = run[domain[d].recon].status
  <2>1. domain[d].recon \in DOMAIN run /\ d \in On(run[domain[d].recon].node)
    BY <1>10, RowIs
  <2>2. domain[d].recon \notin Unfinished(n)
    BY <1>10, <2>1 DEF Unfinished
  <2>3. CASE run[domain[d].recon].node # n
    BY <1>5, <2>1, <2>3
  <2>4. CASE run[domain[d].recon].node = n
    <3>1. run[domain[d].recon].status # "RUNNING"
      BY <2>1, <2>2, <2>4 DEF Unfinished
    <3>2. QED
      BY <1>3, <2>1, <3>1 DEF Closed
  <2>5. QED
    BY <2>3, <2>4
<1>11. Kept
  <2>1. 0 \notin DOMAIN run
    BY <1>4, RunsAre DEF Typed
  <2>2. \A d \in Domains :
            \/ domain'[d].recon = domain[d].recon /\ (domain[d].status = "DELETING" => domain'[d].status = "DELETING")
            \/ domain'[d].recon \notin DOMAIN run
    BY <1>8, <1>9, <2>1
  <2>3. ASSUME NEW r \in DOMAIN run, NEW d \in Domains, run[r].status = "RUNNING", run'[r].status # "RUNNING",
               domain'[d].recon = r
        PROVE  FALSE
    <3>1. d \notin gone /\ domain[d].recon = r /\ r # 0
      BY <1>8, <1>9, <2>1, <2>3
    <3>2. QED
      BY <1>10, <2>3, <3>1
  <2>4. QED
    BY <1>3, <1>6, <1>7, <2>2, <2>3 DEF Kept
<1>12. RowsInv'
  <2>1. domain' \in [Domains -> RowType]
    <3>1. \A d \in Domains : domain'[d] \in RowType
      BY <1>8, <1>9, RowIs
    <3>2. QED
      BY <1>3, <3>1
  <2>2. ASSUME NEW d \in gone PROVE RowInv(d)'
    <3>1. domain[d].node \in Nodes
      BY RowIs
    <3>2. QED
      BY <1>8, <3>1, RowFree
  <2>3. QED
    BY <1>9, <1>11, <2>1, <2>2, RowsAfter
<1>13. Typed'
  BY <1>3, <1>4, <1>5, <1>7 DEF Typed, RunsOK, StateOK, FilesOK, UsedOK
<1>14. CallsInv' /\ WaitingInv' /\ QueueInv'
  BY <1>3, <1>4, <1>11, CallsStay, WaitingStays, QueueStays DEF Typed
<1>15. ConnInv'
  <2>1. \A w \in Conns : conn'[w] = "none" <=> conn[w] = "none"
    BY <1>3, <1>7
  <2>2. ASSUME NEW m \in Nodes, sockets[m] # 0 PROVE conn'[<<m, sockets[m]>>] # "none"
    <3>1. sockets[m] \in 1..MaxConns
      BY <1>4, <2>2, ConnectedAssumption DEF Typed, StateOK
    <3>2. QED
      BY <1>4, <2>1, <2>2, <3>1, WhoCalls DEF ConnInv
  <2>3. QED
    BY <1>3, <1>4, <2>1, <2>2 DEF ConnInv
<1>16. \A m : On(m)' = On(m)
  <2>1. ASSUME NEW d \in Domains PROVE (Row(d)' <=> Row(d)) /\ domain'[d].node = domain[d].node
    <3>1. CASE d \in gone
      <4>1. Row(d)
        BY <3>1 DEF On
      <4>2. QED
        BY <1>8, <3>1, <4>1 DEF Row
    <3>2. CASE d \notin gone
      BY <1>9, <3>2 DEF Row
    <3>3. QED
      BY <3>1, <3>2
  <2>2. QED
    BY <2>1 DEF On
<1>17. ASSUME NEW m \in Nodes, m # n
       PROVE  (Renewed(m) => Renewed(m)') /\ \A r \in DOMAIN run : Attended(m, r) => Attended(m, r)'
  <2>1. WireAt(m)
    <3>1. \A j \in 1..MaxConns : conn'[<<m, j>>] = conn[<<m, j>>]
      BY <1>2, <1>7, <1>17, WhoCalls
    <3>2. QED
      BY <1>3, <3>1 DEF WireAt
  <2>2. Renewed(m) => Renewed(m)'
    BY <1>3, <2>1, BringsStays, RenewedGoes
  <2>3. \A r \in DOMAIN run : Misses(m, r) => Misses(m, r)'
    BY <1>5, <1>16 DEF Misses
  <2>4. QED
    BY <1>3, <2>2, <2>3, CallHoldsStays, AgentHoldsStays, WireHoldsStays, AttendedIs
<1>18. Over(n)'
  BY <1>5 DEF Over
<1>19. RunningInv'
  <2>1. \A m \in Nodes : Over(m)' \/ ((Renewed(m) => Renewed(m)') /\ (On(m)' \subseteq On(m) \/ Renewed(m)'))
    BY <1>16, <1>17, <1>18
  <2>2. \A m \in Nodes : \A d \in On(m) :
            \/ domain'[d].recon = domain[d].recon \/ Renewed(m)'
            \/ domain[d].recon # 0 => run'[domain[d].recon].status # "RUNNING"
    <3>1. ASSUME NEW d \in gone PROVE run'[domain[d].recon].status # "RUNNING"
      BY <1>5 DEF Unfinished
    <3>2. QED
      BY <1>9, <3>1 DEF On
  <2>3. QED
    BY <1>4, <1>5, <1>6, <2>1, <2>2, RunningGoes DEF Typed
<1>20. AttendedInv'
  <2>1. ASSUME NEW d \in Domains, domain'[d].status = "CONFIGURING" PROVE d \notin gone /\ domain'[d] = domain[d]
    BY <1>8, <1>9, <2>1
  <2>2. ASSUME NEW d \in Domains, NEW m \in Nodes, NEW r \in DOMAIN run,
               domain[d].status = "CONFIGURING", domain'[d].status = "CONFIGURING",
               domain[d].node = m, domain[d].recon = r, run[r].node = m, run[r].status = "RUNNING", Attended(m, r)
        PROVE  Attended(m, r)'
    <3>1. d \notin gone
      BY <2>1, <2>2
    <3>2. r # 0 /\ d \in On(m)
      BY <2>2, <1>4, RunsAre, ConfiguringIs DEF Typed
    <3>3. m # n
      BY <2>2, <3>1, <3>2 DEF Unfinished
    <3>4. QED
      BY <1>17, <2>2, <3>3
  <2>3. \A d \in Domains : domain'[d].status = "CONFIGURING" =>
            /\ domain[d].status = "CONFIGURING"
            /\ domain'[d].node = domain[d].node /\ domain'[d].recon = domain[d].recon
    BY <2>1
  <2>4. QED
    BY <1>4, <2>2, <2>3, AttendedGoes
<1>21. QED
  BY <1>12, <1>13, <1>14, <1>15, <1>19, <1>20 DEF IngressInv, Linked

-----------------------------------------------------------------------------
(* Steps that write rows *)

Written(row, x, k) == [row EXCEPT !.status = x, !.recon = k, !.due = FALSE]
Reads(t, row, x, k) == t \in RowType /\ t.node = row.node /\ t.status = x /\ t.recon = k /\ ~t.due

LEMMA WrittenIs ==
    ASSUME NEW row \in RowType, NEW x \in {"PENDING", "CONFIGURING", "ACTIVE"}, NEW k \in Nat,
           NEW t, t = Written(row, x, k)
    PROVE  Reads(t, row, x, k)
<1>1. t = [row EXCEPT !.status = x, !.recon = k, !.due = FALSE]
  BY Zenon DEF Written
<1>2. t \in RowType
  BY <1>1 DEF RowType
<1>3. t.status = x /\ t.recon = k /\ t.node = row.node
  BY <1>1 DEF RowType
<1>4. ~t.due
  BY <1>1 DEF RowType
<1>5. QED
  BY <1>2, <1>3, <1>4 DEF Reads

LEMMA OwnedIs ==
    ASSUME NEW d \in Domains, domain[d] \in RowType, NEW routes, NEW deleting, NEW r \in Nat,
           NEW t, t = Owned(d, routes, deleting, r)
    PROVE  /\ t \in RowType /\ t.node = domain[d].node
           /\ d \in routes => /\ t.status = (IF domain[d].status = "ACTIVE" THEN "ACTIVE" ELSE "CONFIGURING")
                              /\ t.recon = r /\ ~t.due
           /\ d \notin routes /\ domain[d].status # "DELETING" => t.status = "PENDING" /\ t.recon = 0
           /\ d \notin routes /\ domain[d].status = "DELETING" =>
                  t.status = "DELETING" /\ t.recon = IF d \in deleting THEN r ELSE domain[d].recon
<1>1. PICK row \in RowType : row = domain[d]
  OBVIOUS
<1>2. CASE d \in routes
  <2>1. t = Written(row, IF row.status = "ACTIVE" THEN row.status ELSE "CONFIGURING", r)
    BY Zenon, <1>1, <1>2 DEF Owned, Written
  <2>2. PICK x : x = IF row.status = "ACTIVE" THEN "ACTIVE" ELSE "CONFIGURING"
    OBVIOUS
  <2>3. t = Written(row, x, r)
    BY <2>1, <2>2
  <2>4. x \in {"PENDING", "CONFIGURING", "ACTIVE"}
    BY <2>2
  <2>5. Reads(t, row, x, r)
    BY <2>3, <2>4, WrittenIs
  <2>6. QED
    BY <1>1, <1>2, <2>2, <2>5 DEF Reads
<1>3. CASE d \notin routes /\ domain[d].status # "DELETING"
  <2>1. t = Written(row, "PENDING", 0)
    BY Zenon, <1>1, <1>3 DEF Owned, Written
  <2>2. PICK x \in {"PENDING", "CONFIGURING", "ACTIVE"} : x = "PENDING"
    OBVIOUS
  <2>3. PICK k \in Nat : k = 0
    OBVIOUS
  <2>4. t = Written(row, x, k)
    BY <2>1, <2>2, <2>3
  <2>5. Reads(t, row, x, k)
    BY <2>4, WrittenIs
  <2>6. QED
    BY <1>1, <1>3, <2>2, <2>3, <2>5 DEF Reads
<1>4. CASE d \notin routes /\ domain[d].status = "DELETING"
  <2>1. row.recon \in Nat
    BY DEF RowType
  <2>2. PICK k \in Nat : k = IF d \in deleting THEN r ELSE row.recon
    BY <2>1
  <2>3. t = [row EXCEPT !.recon = k]
    BY <1>1, <1>4, <2>2 DEF Owned
  <2>4. QED
    BY <1>1, <1>4, <2>2, <2>3, RowRecon DEF SameBut
<1>5. QED
  BY <1>2, <1>3, <1>4

\* The transaction ends the reconciliations of the node and begins one of its own.
LEMMA TransactStep ==
    ASSUME IngressInv, NEW c \in Callers, Transact(c)
    PROVE  IngressInv'
<1>1. PICK q : q = call[c].todo
  OBVIOUS
<1>2. PICK n : n = Head(q)
  OBVIOUS
<1>3. PICK r : r = Len(run) + 1
  OBVIOUS
<1>4. PICK S : S = call[c].routes
  OBVIOUS
<1>5. PICK D : D = call[c].deleting
  OBVIOUS
<1>6. PICK e : e = [node |-> n, status |-> "RUNNING", routes |-> S]
  OBVIOUS
<1>7. PICK x : x = [pc |-> "send", todo |-> q, run |-> r, routes |-> S]
  OBVIOUS
<1>8. /\ call[c].pc = "transact" /\ run' = Append(Closed(n), e)
      /\ domain' = [d \in Domains |-> IF d \in On(n) THEN Owned(d, S, D, r) ELSE domain[d]]
      /\ Step(c, x)
      /\ UNCHANGED <<ready, sockets, conn, broken, queue, link, waiting, file, live, applied, verified, used>>
  BY <1>1, <1>2, <1>3, <1>4, <1>5, <1>6, <1>7 DEF Transact, wire, agent
<1>9. Typed /\ RowsInv /\ CallsInv /\ WaitingInv /\ QueueInv /\ ConnInv /\ RunningInv /\ AttendedInv
  BY DEF IngressInv, Linked
<1>10. CallInv(c) /\ CallOK(call[c]) /\ DOMAIN call = Callers /\ (c \in Conns => conn[c] # "none")
  BY Busy, <1>8
<1>11. q \in Todo /\ S \subseteq Domains /\ n \in Nodes /\ \A m : Has(q, m) => m = n \/ Later(q, m)
  <2>1. q \in Todo /\ S \subseteq Domains
    BY <1>1, <1>4, <1>8, <1>10, CallFields
  <2>2. QED
    BY <1>2, <2>1, TodoIs
<1>12. /\ Len(run) \in Nat /\ DOMAIN run = 1..Len(run) /\ r \in Nat \ {0} /\ r \notin DOMAIN run /\ 0 \notin DOMAIN run
  BY <1>3, <1>9, RunsAre DEF Typed
<1>13. /\ Closed(n) \in Seq(RunType) /\ DOMAIN Closed(n) = DOMAIN run /\ Len(Closed(n)) = Len(run)
       /\ \A k \in DOMAIN run :
             /\ Closed(n)[k].node = run[k].node /\ Closed(n)[k].routes = run[k].routes
             /\ Closed(n)[k].status = "RUNNING" => run[k].status = "RUNNING" /\ run[k].node # n
             /\ run[k].node # n => Closed(n)[k] = run[k]
  <2>1. /\ Closed(n) \in Seq(RunType) /\ DOMAIN Closed(n) = DOMAIN run
        /\ \A k \in DOMAIN run :
              /\ Closed(n)[k].node = run[k].node /\ Closed(n)[k].routes = run[k].routes
              /\ Closed(n)[k].status = "RUNNING" => run[k].status = "RUNNING" /\ run[k].node # n
              /\ run[k].node # n => Closed(n)[k] = run[k]
    BY <1>9, ClosedIs DEF Typed
  <2>2. DOMAIN Closed(n) = 1..Len(Closed(n)) /\ Len(Closed(n)) \in Nat
    BY <2>1, Elements
  <2>3. Len(Closed(n)) = Len(run)
    BY <1>12, <2>1, <2>2
  <2>4. QED
    BY <2>1, <2>3
<1>14. e \in RunType /\ e.node = n /\ e.status = "RUNNING" /\ e.routes = S
  BY <1>6, <1>11 DEF RunType
<1>15. /\ run' \in Seq(RunType) /\ r \in DOMAIN run' /\ run'[r] = e
       /\ \A k \in DOMAIN run : k \in DOMAIN run' /\ run'[k] = Closed(n)[k]
       /\ \A k \in DOMAIN run' : k \in DOMAIN run \/ k = r
  BY <1>3, <1>8, <1>13, <1>14, Grows
<1>16. RunsGoOn
  BY <1>13, <1>15 DEF RunsGoOn, RunsOK
<1>17. ASSUME NEW d \in Domains, d \in On(n)
       PROVE  /\ domain'[d] \in RowType /\ domain'[d].node = n /\ domain[d].node = n
              /\ d \in S => /\ domain'[d].status = (IF domain[d].status = "ACTIVE" THEN "ACTIVE" ELSE "CONFIGURING")
                            /\ domain'[d].recon = r /\ ~domain'[d].due
              /\ d \notin S /\ domain[d].status # "DELETING" => domain'[d].status = "PENDING" /\ domain'[d].recon = 0
              /\ d \notin S /\ domain[d].status = "DELETING" =>
                     domain'[d].status = "DELETING" /\ domain'[d].recon \in {r, domain[d].recon}
  <2>1. domain'[d] = Owned(d, S, D, r) /\ domain[d] \in RowType /\ domain[d].node = n
    BY <1>8, <1>17, RowIs
  <2>2. r \in Nat
    BY <1>12
  <2>3. PICK t : t = Owned(d, S, D, r)
    OBVIOUS
  <2>4. /\ t \in RowType /\ t.node = domain[d].node
        /\ d \in S => /\ t.status = (IF domain[d].status = "ACTIVE" THEN "ACTIVE" ELSE "CONFIGURING")
                      /\ t.recon = r /\ ~t.due
        /\ d \notin S /\ domain[d].status # "DELETING" => t.status = "PENDING" /\ t.recon = 0
        /\ d \notin S /\ domain[d].status = "DELETING" =>
               t.status = "DELETING" /\ t.recon = IF d \in D THEN r ELSE domain[d].recon
    BY <1>17, <2>1, <2>2, <2>3, OwnedIs
  <2>5. domain'[d] = t
    BY <2>1, <2>3
  <2>6. QED
    BY <2>1, <2>4, <2>5
<1>18. \A d \in Domains : d \notin On(n) => domain'[d] = domain[d]
  BY <1>8
<1>19. Kept
  <2>1. ASSUME NEW d \in Domains
        PROVE  \/ domain'[d].recon = domain[d].recon /\ (domain[d].status = "DELETING" => domain'[d].status = "DELETING")
               \/ domain'[d].recon \notin DOMAIN run
    BY <1>12, <1>17, <1>18
  <2>2. ASSUME NEW k \in DOMAIN run, NEW d \in Domains, run[k].status = "RUNNING", run'[k].status # "RUNNING",
               domain'[d].recon = k
        PROVE  domain'[d].status = "DELETING"
    <3>1. run[k].node = n
      BY <1>13, <1>15, <2>2
    <3>2. CASE d \in On(n)
      BY <1>12, <1>17, <2>2, <3>2
    <3>3. CASE d \notin On(n)
      <4>1. domain[d].recon = k /\ k # 0
        BY <1>12, <1>18, <2>2, <3>3
      <4>2. d \in On(n)
        BY <3>1, <4>1, RowIs
      <4>3. QED
        BY <3>3, <4>2
    <3>4. QED
      BY <3>2, <3>3
  <2>3. QED
    BY <1>8, <1>16, <2>1, <2>2 DEF Kept
<1>20. RowsInv'
  <2>1. \A d \in Domains : domain'[d] \in RowType
    BY <1>17, <1>18, RowIs
  <2>2. domain' \in [Domains -> RowType]
    BY <1>8, <2>1
  <2>3. ASSUME NEW d \in Domains, d \in On(n) PROVE RowInv(d)'
    <3>1. RowInv(d) /\ Row(d)
      BY <2>3, RowIs
    <3>2. CASE d \in S
      <4>1. Row(d)'
        BY <1>17, <2>3, <3>2 DEF Row
      <4>2. domain'[d].status = "ACTIVE" => <<d, domain'[d].node>> \in verified'
        BY <1>8, <1>17, <2>3, <3>1, <3>2 DEF RowInv
      <4>3. run'[r].node = n /\ run'[r].status = "RUNNING" /\ run'[r].routes = S /\ r \in DOMAIN run'
        BY <1>14, <1>15
      <4>4. domain'[d].status \in {"CONFIGURING", "ACTIVE"} /\ domain'[d].recon = r /\ ~domain'[d].due
            /\ domain'[d].node = n
        BY <1>17, <2>3, <3>2
      <4>5. /\ domain'[d].status # "DELETING" <=> d \in run'[domain'[d].recon].routes
            /\ run'[domain'[d].recon].node = domain'[d].node /\ run'[domain'[d].recon].status = "RUNNING"
            /\ domain'[d].recon \in DOMAIN run' /\ domain'[d].recon # 0
        BY <1>12, <3>2, <4>3, <4>4
      <4>6. QED
        BY <1>11, <4>1, <4>2, <4>4, <4>5 DEF RowInv
    <3>3. CASE d \notin S /\ domain[d].status # "DELETING"
      BY <1>11, <1>17, <2>3, <3>3, RowFree
    <3>4. CASE d \notin S /\ domain[d].status = "DELETING" /\ domain'[d].recon = r
      <4>1. Row(d)' /\ domain'[d].status = "DELETING"
        BY <1>17, <2>3, <3>4 DEF Row
      <4>2. QED
        BY <1>11, <1>14, <1>15, <1>17, <2>3, <3>4, <4>1 DEF RowInv
    <3>5. CASE d \notin S /\ domain[d].status = "DELETING" /\ domain'[d].recon = domain[d].recon
      <4>1. Row(d)' /\ domain'[d].status = "DELETING"
        BY <1>17, <2>3, <3>5 DEF Row
      <4>2. domain[d].recon # 0 => /\ domain[d].recon \in DOMAIN run /\ run[domain[d].recon].node = n
                                   /\ d \notin run[domain[d].recon].routes
        BY <1>17, <2>3, <3>1, <3>5 DEF RowInv
      <4>3. domain[d].recon # 0 => /\ domain[d].recon \in DOMAIN run' /\ run'[domain[d].recon].node = n
                                   /\ d \notin run'[domain[d].recon].routes
        BY <1>13, <1>15, <4>2
      <4>4. domain'[d].node = n
        BY <1>17, <2>3
      <4>5. QED
        BY <1>11, <3>5, <4>1, <4>3, <4>4 DEF RowInv
    <3>6. QED
      BY <1>17, <2>3, <3>2, <3>3, <3>4, <3>5
  <2>4. QED
    BY <1>18, <1>19, <2>2, <2>3, RowsAfter
<1>21. Typed'
  <2>1. DOMAIN run \subseteq DOMAIN run'
    BY <1>15
  <2>2. QED
    BY <1>8, <1>9, <1>15, <2>1 DEF Typed, RunsOK, StateOK, FilesOK, UsedOK
<1>22. /\ CallOK(x) /\ x.pc = "send" /\ x.todo = q /\ x.run = r /\ x.routes = S /\ call'[c] = x
       /\ \A w \in Callers : w # c => call'[w] = call[w]
  <2>1. CallOK(x) /\ x.pc = "send" /\ x.todo = q /\ x.run = r /\ x.routes = S
    BY <1>7, <1>11, <1>12, CallMade
  <2>2. QED
    BY <1>8, <1>10, <2>1, StepIs
<1>23. CallsInv'
  <2>1. CallInv(c)'
    BY <1>2, <1>14, <1>15, <1>22 DEF CallInv, Names
  <2>2. QED
    BY <1>8, <1>9, <1>19, <2>1, OneCall DEF Typed
<1>24. WaitingInv' /\ QueueInv'
  BY <1>8, <1>9, <1>19, WaitingStays, QueueStays DEF Typed
<1>25. ConnInv'
  <2>1. \A w \in Conns : conn[w] = "none" => call'[w] = call[w]
    BY <1>10, <1>22, WhoCalls
  <2>2. QED
    BY <1>8, <1>9, <2>1, ConnsStay
<1>26. \A m : On(m)' = On(m)
  <2>1. ASSUME NEW d \in Domains PROVE (Row(d)' <=> Row(d)) /\ domain'[d].node = domain[d].node
    <3>1. CASE d \in On(n)
      BY <1>17, <3>1, RowIs DEF Row
    <3>2. CASE d \notin On(n)
      BY <1>18, <3>2 DEF Row
    <3>3. QED
      BY <3>1, <3>2
  <2>2. QED
    BY <2>1 DEF On
<1>27. ASSUME NEW m \in Nodes, m # n
       PROVE  (Renewed(m) => Renewed(m)') /\ \A k \in DOMAIN run : Attended(m, k) => Attended(m, k)'
  <2>1. Brings(c, m) => Brings(c, m)'
    BY <1>1, <1>8, <1>11, <1>22, <1>27 DEF Brings, Sending
  <2>2. Renewed(m) => Renewed(m)'
    BY <1>8, <1>10, <2>1, CallSupersedes
  <2>3. ASSUME NEW k \in DOMAIN run, CallHolds(c, m, k) \/ AgentHolds(m, k) \/ WireHolds(m, k) PROVE Attended(m, k)'
    <3>1. ~CallHolds(c, m, k)
      BY <1>8 DEF CallHolds, Sending
    <3>2. QED
      BY <1>8, <2>3, <3>1, AgentHoldsStays, WireHoldsStays, AttendedIs
  <2>4. QED
    BY <1>8, <1>10, <1>16, <1>26, <2>2, <2>3, CallAttends
<1>28. RunningInv'
  <2>1. ASSUME NEW k \in DOMAIN run', run'[k].status = "RUNNING", NEW d \in run'[k].routes, d \in On(run[k].node)'
        PROVE  domain'[d].recon = k \/ Renewed(run[k].node)'
    <3>1. CASE k = r
      <4>1. run'[k].node = n /\ d \in S
        BY <1>14, <1>15, <2>1, <3>1
      <4>2. d \in On(n)'
        BY <2>1, <4>1
      <4>3. d \in On(n) /\ d \in Domains
        BY <1>26, <4>2 DEF On
      <4>4. QED
        BY <1>17, <3>1, <4>1, <4>3
    <3>2. CASE k # r
      <4>1. PICK m : m = run[k].node
        OBVIOUS
      <4>2. k \in DOMAIN run /\ run[k].status = "RUNNING" /\ m # n /\ run'[k].node = m /\ d \in run[k].routes
            /\ m \in Nodes
        BY <1>9, <1>13, <1>15, <2>1, <3>2, <4>1, RunsAre DEF Typed, RunType
      <4>3. d \in On(m)'
        BY <2>1, <4>2
      <4>4. d \in On(m) /\ d \in Domains /\ d \notin On(n)
        BY <1>26, <4>2, <4>3 DEF On
      <4>5. domain[d].recon = k \/ Renewed(m)
        BY <1>9, <4>1, <4>2, <4>4 DEF RunningInv
      <4>6. domain'[d].recon = k \/ Renewed(m)'
        BY <1>18, <1>27, <4>2, <4>4, <4>5
      <4>7. QED
        BY <4>2, <4>6
    <3>3. QED
      BY <3>1, <3>2
  <2>2. QED
    BY <2>1 DEF RunningInv
<1>29. AttendedInv'
  <2>1. ASSUME NEW d \in Domains, domain'[d].status = "CONFIGURING"
        PROVE  Attended(domain[d].node, domain[d].recon)'
    <3>1. CASE d \in On(n)
      <4>1. domain'[d].node = n /\ domain'[d].recon = r
        BY <1>17, <2>1, <3>1
      <4>2. CallHolds(c, n, r)'
        BY <1>22 DEF CallHolds, Sending
      <4>3. Attended(n, r)'
        BY <4>2, AttendedIs
      <4>4. QED
        BY <4>1, <4>3
    <3>2. CASE d \notin On(n)
      <4>1. PICK m : m = domain[d].node
        OBVIOUS
      <4>2. PICK k : k = domain[d].recon
        OBVIOUS
      <4>3. domain'[d] = domain[d] /\ domain[d].status = "CONFIGURING"
        BY <1>18, <2>1, <3>2
      <4>4. m \in Nodes /\ k \in DOMAIN run /\ d \in On(m)
        BY <1>9, <4>1, <4>2, <4>3, ConfiguringIs
      <4>5. m # n /\ Attended(m, k)
        BY <1>9, <3>2, <4>1, <4>2, <4>3, <4>4 DEF AttendedInv
      <4>6. Attended(m, k)'
        BY <1>27, <4>4, <4>5
      <4>7. QED
        BY <4>1, <4>2, <4>3, <4>6
    <3>3. QED
      BY <3>1, <3>2
  <2>2. QED
    BY <2>1 DEF AttendedInv
<1>30. QED
  BY <1>20, <1>21, <1>23, <1>24, <1>25, <1>28, <1>29 DEF IngressInv, Linked
\* A step of one call that writes rows, or ends a reconciliation with its rows.
LEMMA RowsMove ==
    ASSUME IngressInv, NEW c \in Callers, NEW x, Step(c, x),
           UNCHANGED <<sockets, conn, broken, queue, link, waiting>>,
           Typed', Kept, DOMAIN run' = DOMAIN run,
           c \in Conns => conn[c] # "none",
           CallInv(c)',
           domain' \in [Domains -> RowType], \A d \in Domains : domain'[d] = domain[d] \/ RowInv(d)',
           \A n \in Nodes : Brings(c, n) => Brings(c, n)' \/ Renewed(n)',
           \A n \in Nodes : On(n)' \subseteq On(n) \/ Renewed(n)',
           \A n \in Nodes : \A d \in On(n) :
               \/ domain'[d].recon = domain[d].recon \/ Renewed(n)'
               \/ run'[domain[d].recon].status # "RUNNING",
           \A d \in Domains : domain'[d].status = "CONFIGURING" =>
               /\ domain[d].status = "CONFIGURING"
               /\ domain'[d].node = domain[d].node /\ domain'[d].recon = domain[d].recon,
           \A d \in Domains, n \in Nodes, r \in DOMAIN run :
               domain'[d].status = "CONFIGURING" /\ domain'[d].recon = r /\ CallHolds(c, n, r) => Attended(n, r)'
    PROVE  IngressInv'
<1>1. RunsOK /\ RowsInv /\ CallsInv /\ WaitingInv /\ QueueInv /\ ConnInv /\ RunningInv /\ AttendedInv
      /\ DOMAIN call = Callers
  BY DEF IngressInv, Typed, Linked, CallsInv
<1>2. RowsInv'
  BY RowsAfter
<1>3. CallsInv'
  BY <1>1, OneCall
<1>4. WaitingInv' /\ QueueInv'
  BY <1>1, WaitingStays, QueueStays
<1>5. ConnInv'
  <2>1. \A w \in Conns : w \in Callers /\ (conn[w] = "none" => w # c)
    BY WhoCalls
  <2>2. QED
    BY <1>1, <2>1, StepIs, ConnsStay
<1>6. RunsGoOn
  BY DEF Kept
<1>7. \A n \in Nodes : Renewed(n) => Renewed(n)'
  BY <1>1, CallSupersedes
<1>8. RunningInv'
  <2>1. \A n \in Nodes : Over(n)' \/ ((Renewed(n) => Renewed(n)') /\ (On(n)' \subseteq On(n) \/ Renewed(n)'))
    BY <1>7
  <2>2. \A n \in Nodes : \A d \in On(n) :
            \/ domain'[d].recon = domain[d].recon \/ Renewed(n)'
            \/ domain[d].recon # 0 => run'[domain[d].recon].status # "RUNNING"
    OBVIOUS
  <2>3. QED
    BY <1>1, <1>6, <2>1, <2>2, RunningGoes
<1>9. AttendedInv'
  <2>1. ASSUME NEW d \in Domains, NEW n \in Nodes, NEW r \in DOMAIN run,
               domain'[d].status = "CONFIGURING", domain'[d].recon = r, Attended(n, r)
        PROVE  Attended(n, r)'
    <3>1. CallHolds(c, n, r) \/ AgentHolds(n, r) \/ WireHolds(n, r) => Attended(n, r)'
      BY <2>1, AgentHoldsStays, WireHoldsStays, AttendedIs
    <3>2. QED
      BY <1>1, <1>6, <1>7, <2>1, <3>1, CallAttends
  <2>2. \A d \in Domains, n \in Nodes, r \in DOMAIN run :
            domain[d].status = "CONFIGURING" /\ domain'[d].status = "CONFIGURING"
            /\ domain[d].node = n /\ domain[d].recon = r
            /\ run[r].node = n /\ run[r].status = "RUNNING" /\ Attended(n, r) => Attended(n, r)'
    BY <2>1
  <2>3. QED
    BY <1>1, <2>2, AttendedGoes
<1>10. QED
  BY <1>2, <1>3, <1>4, <1>5, <1>8, <1>9 DEF IngressInv, Linked

\* A reconciliation that ends.
LEMMA RunEnds ==
    ASSUME RunsOK, NEW r \in DOMAIN run, NEW s \in {"SUCCEEDED", "FAILED"},
           run' = [run EXCEPT ![r].status = IF @ = "RUNNING" THEN s ELSE @]
    PROVE  /\ RunsOK' /\ RunsGoOn /\ DOMAIN run' = DOMAIN run /\ run'[r].status # "RUNNING"
           /\ \A k \in DOMAIN run : k # r => run'[k] = run[k]
<1>1. run[r] \in RunType /\ run \in Seq(RunType)
  BY RunsAre DEF RunsOK
<1>2. PICK t : t = IF run[r].status = "RUNNING" THEN s ELSE run[r].status
  OBVIOUS
<1>3. t \in {"SUCCEEDED", "FAILED"}
  BY <1>1, <1>2 DEF RunType
<1>4. PICK v : v = [run[r] EXCEPT !.status = t]
  OBVIOUS
<1>5. v \in RunType /\ v.node = run[r].node /\ v.routes = run[r].routes /\ v.status = t
  BY <1>1, <1>3, <1>4 DEF RunType
<1>6. run' = [run EXCEPT ![r] = v]
  BY <1>2, <1>4
<1>7. /\ run' \in Seq(RunType) /\ DOMAIN run' = DOMAIN run
      /\ \A k \in DOMAIN run : run'[k] = IF k = r THEN v ELSE run[k]
  <2>1. /\ [run EXCEPT ![r] = v] \in Seq(RunType) /\ DOMAIN [run EXCEPT ![r] = v] = DOMAIN run
        /\ \A k \in DOMAIN run : [run EXCEPT ![r] = v][k] = IF k = r THEN v ELSE run[k]
    BY <1>1, <1>5, EditSeq
  <2>2. QED
    BY <1>6, <2>1
<1>8. QED
  BY <1>3, <1>5, <1>7 DEF RunsOK, RunsGoOn

LEMMA FailBeforeSendStep ==
    ASSUME IngressInv, NEW c \in Callers, FailBeforeSend(c)
    PROVE  IngressInv'
<1>1. PICK q : q = call[c].todo
  OBVIOUS
<1>2. PICK n : n = Head(q)
  OBVIOUS
<1>3. PICK r : r = call[c].run
  OBVIOUS
<1> DEFINE gone == {d \in Domains : d \in On(n) /\ domain[d].recon = r}
<1>4. /\ call[c].pc = "unsent"
      /\ run' = [run EXCEPT ![r].status = IF @ = "RUNNING" THEN "FAILED" ELSE @]
      /\ domain' = [d \in Domains |-> IF d \in gone THEN Released(domain[d], TRUE) ELSE domain[d]]
      /\ Step(c, Finish(q))
      /\ UNCHANGED <<ready, sockets, conn, broken, queue, link, waiting, file, live, applied, verified, used>>
  BY <1>1, <1>2, <1>3 DEF FailBeforeSend, wire, agent
<1>5. Typed /\ RowsInv /\ CallInv(c) /\ CallOK(call[c]) /\ DOMAIN call = Callers /\ (c \in Conns => conn[c] # "none")
  BY <1>4, Busy DEF IngressInv, Linked
<1>6. r \in DOMAIN run /\ run[r].node = n /\ q \in Todo
  BY <1>1, <1>2, <1>3, <1>4, <1>5, CallFields DEF CallInv, Sending
<1>7. /\ RunsOK' /\ RunsGoOn /\ DOMAIN run' = DOMAIN run /\ run'[r].status # "RUNNING"
      /\ \A k \in DOMAIN run : k # r => run'[k] = run[k]
  <2>1. PICK s \in {"SUCCEEDED", "FAILED"} : s = "FAILED"
    OBVIOUS
  <2>2. run' = [run EXCEPT ![r].status = IF @ = "RUNNING" THEN s ELSE @]
    BY <1>4, <2>1
  <2>3. QED
    BY <1>5, <1>6, <2>2, RunEnds DEF Typed
<1>8. ASSUME NEW d \in gone
      PROVE  /\ domain'[d] \in RowType /\ domain'[d].recon = 0 /\ domain'[d].node = domain[d].node
             /\ domain'[d].status = IF domain[d].status = "DELETING" THEN "DELETING" ELSE "PENDING"
  <2>1. domain[d] \in RowType /\ domain'[d] = Released(domain[d], TRUE)
    BY <1>4, RowIs
  <2>2. QED
    BY <2>1, ReleasedIs
<1>9. \A d \in Domains : d \notin gone => domain'[d] = domain[d]
  BY <1>4
<1>10. 0 \notin DOMAIN run
  BY <1>5, RunsAre DEF Typed
<1>11. \A d \in Domains : domain'[d].recon # r
  <2>1. ASSUME NEW d \in Domains, domain[d].recon = r PROVE d \in gone
    BY <1>6, <1>10, <2>1, RowIs
  <2>2. QED
    BY <1>6, <1>8, <1>9, <1>10, <2>1
<1>12. Kept
  <2>1. \A d \in Domains :
            \/ domain'[d].recon = domain[d].recon /\ (domain[d].status = "DELETING" => domain'[d].status = "DELETING")
            \/ domain'[d].recon \notin DOMAIN run
    BY <1>8, <1>9, <1>10
  <2>2. \A k \in DOMAIN run, d \in Domains :
            run[k].status = "RUNNING" /\ run'[k].status # "RUNNING" /\ domain'[d].recon = k =>
                domain'[d].status = "DELETING"
    BY <1>7, <1>11
  <2>3. QED
    BY <1>4, <1>7, <2>1, <2>2 DEF Kept
<1>13. domain' \in [Domains -> RowType]
  <2>1. \A d \in Domains : domain'[d] \in RowType
    BY <1>8, <1>9, RowIs
  <2>2. QED
    BY <1>4, <2>1
<1>14. \A d \in Domains : domain'[d] = domain[d] \/ RowInv(d)'
  <2>1. ASSUME NEW d \in gone PROVE RowInv(d)'
    <3>1. domain[d].node \in Nodes
      BY RowIs
    <3>2. QED
      BY <1>8, <3>1, RowFree
  <2>2. QED
    BY <1>9, <2>1
<1>15. Typed'
  BY <1>4, <1>5, <1>7 DEF Typed, StateOK, FilesOK, UsedOK
<1>16. /\ call'[c] = Finish(q) /\ CallOK(Finish(q)) /\ Finish(q).pc \in {"idle", "read"}
       /\ \A m : Later(q, m) => Finish(q).pc = "read" /\ Has(Finish(q).todo, m)
  BY <1>4, <1>5, <1>6, StepIs, TodoIs
<1>17. CallInv(c)'
  BY <1>16 DEF CallInv
<1>18. \A m \in Nodes : Brings(c, m) => Brings(c, m)'
  BY <1>1, <1>4, <1>16 DEF Brings, Sending
<1>19. \A m : On(m)' \subseteq On(m)
  <2>1. ASSUME NEW d \in Domains PROVE (Row(d)' => Row(d)) /\ domain'[d].node = domain[d].node
    <3>1. CASE d \in gone
      BY <1>8, <3>1, RowIs
    <3>2. CASE d \notin gone
      BY <1>9, <3>2 DEF Row
    <3>3. QED
      BY <3>1, <3>2
  <2>2. QED
    BY <2>1 DEF On
<1>20. \A m \in Nodes : \A d \in On(m) : domain'[d].recon = domain[d].recon \/ run'[domain[d].recon].status # "RUNNING"
  BY <1>7, <1>9 DEF On
<1>21. \A d \in Domains : domain'[d].status = "CONFIGURING" => domain'[d] = domain[d]
  BY <1>8, <1>9
<1>22. \A m \in Nodes, k \in DOMAIN run : CallHolds(c, m, k) => k = r
  BY <1>3, <1>4 DEF CallHolds, Sending
<1>23. \A d \in Domains, m \in Nodes, k \in DOMAIN run :
           domain'[d].status = "CONFIGURING" /\ domain'[d].recon = k /\ CallHolds(c, m, k) => Attended(m, k)'
  BY <1>11, <1>22
<1>24. QED
  BY <1>4, <1>5, <1>7, <1>12, <1>13, <1>14, <1>15, <1>17, <1>18, <1>19, <1>20, <1>21, <1>23, RowsMove
-----------------------------------------------------------------------------
(* Requests of users and a deployment that becomes READY *)

\* Reading a node's rows renews the node.
LEMMA ReadsNode ==
    ASSUME NEW c \in Callers, NEW q \in Todo, call'[c] = Reading(q), NEW n, Has(q, n)
    PROVE  Renewed(n)'
<1>1. call'[c].pc = "read" /\ call'[c].todo = q
  BY CallMade
<1>2. Brings(c, n)'
  BY <1>1 DEF Brings
<1>3. QED
  BY <1>2, RenewedIs

\* A request writes one row, whose reconciliation is then none or the same.
LEMMA RowWritten ==
    ASSUME IngressInv, NEW u \in Users, NEW d \in Domains, NEW m \in Nodes, call[u].pc \in {"idle", "insert"},
           UNCHANGED <<run, ready, sockets, conn, wire, agent>>, UsedOK', Step(u, Reading(<<m>>)),
           domain' \in [Domains -> RowType], \A e \in Domains : e # d => domain'[e] = domain[e],
           domain'[d].node = m, domain'[d].status # "CONFIGURING" \/ domain'[d].status = domain[d].status,
           Row(d) => domain[d].node = m,
           \/ domain'[d].recon = domain[d].recon /\ (domain[d].status = "DELETING" => domain'[d].status = "DELETING")
           \/ domain'[d].recon = 0,
           Kept => RowInv(d)'
    PROVE  IngressInv'
<1>1. /\ u \in Callers /\ u \notin Conns /\ DOMAIN call = Callers
      /\ UNCHANGED <<ready, broken, queue, link, waiting, file, live, applied, verified>>
  BY WhoCalls, Busy DEF wire, agent
<1>2. Typed /\ RunsOK
  BY DEF IngressInv, Typed
<1>3. RunsGoOn
  BY <1>2 DEF RunsGoOn, RunsOK
<1>4. 0 \notin DOMAIN run
  BY <1>2, RunsAre
<1>5. Kept
  <2>1. \A e \in Domains :
            \/ domain'[e].recon = domain[e].recon /\ (domain[e].status = "DELETING" => domain'[e].status = "DELETING")
            \/ domain'[e].recon \notin DOMAIN run
    BY <1>4
  <2>2. QED
    BY <1>1, <1>3, <2>1 DEF Kept
<1>6. Typed'
  BY <1>1, <1>2 DEF Typed, RunsOK, StateOK, FilesOK
<1>7. /\ <<m>> \in Todo /\ Has(<<m>>, m) /\ call'[u] = Reading(<<m>>)
      /\ CallOK(Reading(<<m>>)) /\ Reading(<<m>>).pc = "read"
  BY <1>1, OneTodo, CallMade, StepIs
<1>8. CallInv(u)'
  BY <1>7 DEF CallInv
<1>9. Renewed(m)'
  BY <1>1, <1>7, ReadsNode
<1>10. \A n : ~Brings(u, n) /\ \A r : ~CallHolds(u, n, r)
  BY DEF Brings, CallHolds, Sending
<1>11. ASSUME NEW n \in Nodes, n # m PROVE On(n)' \subseteq On(n)
  <2>1. \A e \in Domains : e # d => (Row(e)' <=> Row(e)) /\ domain'[e].node = domain[e].node
    BY DEF Row
  <2>2. QED
    BY <1>11, <2>1 DEF On
<1>12. ASSUME NEW n \in Nodes, NEW e \in On(n) PROVE domain'[e].recon = domain[e].recon \/ Renewed(n)'
  <2>1. CASE e = d
    <3>1. n = m
      BY <1>12, <2>1 DEF On
    <3>2. QED
      BY <1>9, <3>1
  <2>2. CASE e # d
    BY <2>2 DEF On
  <2>3. QED
    BY <2>1, <2>2
<1>13. \A e \in Domains : domain'[e] = domain[e] \/ RowInv(e)'
  BY <1>5
<1>14. ASSUME NEW e \in Domains, domain'[e].status = "CONFIGURING"
       PROVE  /\ domain[e].status = "CONFIGURING"
              /\ domain'[e].node = domain[e].node /\ domain'[e].recon = domain[e].recon
  <2>1. CASE e # d
    BY <1>14, <2>1
  <2>2. CASE e = d
    <3>1. domain[d].status = "CONFIGURING" /\ Row(d)
      BY <1>14, <2>2 DEF Row
    <3>2. RowInv(d)'
      BY <1>5
    <3>3. domain'[d].recon # 0
      BY <1>14, <2>2, <3>2 DEF RowInv
    <3>4. QED
      BY <2>2, <3>1, <3>3
  <2>3. QED
    BY <2>1, <2>2
<1>15. \A n \in Nodes : \A e \in On(n) :
           \/ domain'[e].recon = domain[e].recon \/ Renewed(n)'
           \/ run'[domain[e].recon].status # "RUNNING"
  BY <1>12
<1>16. \A n \in Nodes : On(n)' \subseteq On(n) \/ Renewed(n)'
  BY <1>9, <1>11
<1>17. \A n \in Nodes : Brings(u, n) => Brings(u, n)' \/ Renewed(n)'
  BY <1>10
<1>18. QED
  BY <1>1, <1>5, <1>6, <1>8, <1>10, <1>13, <1>14, <1>15, <1>16, <1>17, RowsMove

LEMMA InsertDomainStep ==
    ASSUME IngressInv, NEW u \in Users, InsertDomain(u)
    PROVE  IngressInv'
<1>1. u \in Callers /\ u \notin Conns /\ DOMAIN call = Callers /\ CallOK(call[u]) /\ UsedOK
  BY WhoCalls, Busy DEF IngressInv, Typed
<1>2. PICK d : d = call[u].domain
  OBVIOUS
<1>3. PICK n : n = call[u].node
  OBVIOUS
<1>4. call[u].pc = "insert" /\ UNCHANGED <<run, ready, sockets, conn, wire, agent, used>>
  BY DEF InsertDomain
<1>5. d \in Domains /\ n \in Nodes
  BY <1>1, <1>2, <1>3, <1>4, CallFields
<1>6. CASE domain[d].status = "new"
  <2>1. PICK t : t = [status |-> "PENDING", node |-> n, recon |-> 0, retry |-> 0, due |-> FALSE]
    OBVIOUS
  <2>2. domain' = [domain EXCEPT ![d] = t] /\ Step(u, Reading(<<n>>))
    BY <1>2, <1>3, <1>6, <2>1 DEF InsertDomain
  <2>3. t \in RowType /\ t.status = "PENDING" /\ t.node = n /\ t.recon = 0
    BY <1>5, <2>1 DEF RowType
  <2>4. domain \in [Domains -> RowType]
    BY DEF IngressInv, Linked, RowsInv
  <2>5. domain' \in [Domains -> RowType] /\ domain'[d] = t /\ \A e \in Domains : e # d => domain'[e] = domain[e]
    BY <1>5, <2>2, <2>3, <2>4
  <2>6. RowInv(d)'
    BY <1>5, <2>3, <2>5, RowFree
  <2>7. ~Row(d)
    BY <1>6 DEF Row
  <2>8. UsedOK'
    BY <1>1, <1>4, UsedCounts
  <2>9. QED
    BY <1>4, <1>5, <2>2, <2>3, <2>5, <2>6, <2>7, <2>8, RowWritten
<1>7. CASE domain[d].status # "new"
  <2>1. Step(u, Idle) /\ UNCHANGED <<rows, sockets, conn, wire, agent>>
    BY <1>2, <1>3, <1>4, <1>7 DEF InsertDomain, rows
  <2>2. CallInv(u)'
    BY <1>1, <2>1, StepIs, CallMade DEF CallInv
  <2>3. \A m : ~Brings(u, m) /\ \A r : ~CallHolds(u, m, r)
    BY <1>4 DEF Brings, CallHolds, Sending
  <2>4. UsedOK'
    BY <1>1, <1>4, UsedCounts
  <2>5. QED
    BY <1>1, <2>1, <2>2, <2>3, <2>4, CallAlone
<1>8. QED
  BY <1>6, <1>7

LEMMA ReconcileDomainStep ==
    ASSUME IngressInv, NEW u \in Users, NEW d \in Domains, ReconcileDomain(u, d)
    PROVE  IngressInv'
<1>1. PICK n : n = domain[d].node
  OBVIOUS
<1>2. PICK t : t = [domain[d] EXCEPT !.retry = 0, !.due = FALSE]
  OBVIOUS
<1>3. Row(d) /\ call[u] = Idle /\ Step(u, Reading(<<n>>)) /\ UNCHANGED <<run, ready, sockets, conn, wire, agent>>
  BY <1>1 DEF ReconcileDomain, Request
<1>4. domain \in [Domains -> RowType] /\ RunsOK /\ UsedOK
  BY DEF IngressInv, Linked, RowsInv, Typed
<1>5. domain' = [domain EXCEPT ![d] = t]
  BY <1>2, <1>4 DEF ReconcileDomain
<1>6. domain[d] \in RowType /\ RowInv(d) /\ n \in Nodes
  BY <1>1, <1>3, RowIs DEF On
<1>7. /\ t \in RowType /\ t.status = domain[d].status /\ t.node = n /\ t.recon = domain[d].recon /\ ~t.due
  <2>1. t \in RowType
    BY <1>2, <1>6 DEF RowType
  <2>2. t.status = domain[d].status /\ t.node = n /\ t.recon = domain[d].recon
    BY <1>1, <1>2, <1>6 DEF RowType
  <2>3. ~t.due
    BY <1>2, <1>6 DEF RowType
  <2>4. QED
    BY <2>1, <2>2, <2>3
<1>8. domain' \in [Domains -> RowType] /\ domain'[d] = t /\ \A e \in Domains : e # d => domain'[e] = domain[e]
  BY <1>4, <1>5, <1>7
<1>9. Kept => RowInv(d)'
  <2>1. domain'[d].due \in BOOLEAN /\ domain[d].due \in BOOLEAN /\ (domain'[d].due => domain[d].due)
    BY <1>6, <1>7, <1>8 DEF RowType
  <2>2. QED
    BY <1>1, <1>4, <1>6, <1>7, <1>8, <2>1, RowStays
<1>10. UsedOK' /\ call[u].pc = "idle"
  BY <1>3, <1>4, UsedCounts, CallMade DEF ReconcileDomain, Request
<1>11. QED
  BY <1>1, <1>3, <1>6, <1>7, <1>8, <1>9, <1>10, RowWritten

LEMMA DeleteDomainStep ==
    ASSUME IngressInv, NEW u \in Users, NEW d \in Domains, DeleteDomain(u, d)
    PROVE  IngressInv'
<1>1. PICK n : n = domain[d].node
  OBVIOUS
<1>2. PICK t : t = [domain[d] EXCEPT !.status = "DELETING", !.recon = 0]
  OBVIOUS
<1>3. Row(d) /\ call[u] = Idle /\ Step(u, Reading(<<n>>)) /\ UNCHANGED <<run, ready, sockets, conn, wire, agent>>
  BY <1>1 DEF DeleteDomain, Request
<1>4. domain \in [Domains -> RowType] /\ UsedOK
  BY DEF IngressInv, Linked, RowsInv, Typed
<1>5. domain' = [domain EXCEPT ![d] = t]
  BY <1>2, <1>4 DEF DeleteDomain
<1>6. domain[d] \in RowType /\ n \in Nodes
  BY <1>1, <1>3, RowIs DEF On
<1>7. t \in RowType /\ t.status = "DELETING" /\ t.node = n /\ t.recon = 0
  <2>1. t \in RowType
    BY <1>2, <1>6 DEF RowType
  <2>2. t.status = "DELETING" /\ t.node = n /\ t.recon = 0
    BY <1>1, <1>2, <1>6 DEF RowType
  <2>3. QED
    BY <2>1, <2>2
<1>8. domain' \in [Domains -> RowType] /\ domain'[d] = t /\ \A e \in Domains : e # d => domain'[e] = domain[e]
  BY <1>4, <1>5, <1>7
<1>9. RowInv(d)'
  BY <1>6, <1>7, <1>8, RowFree
<1>10. UsedOK' /\ call[u].pc = "idle"
  BY <1>3, <1>4, UsedCounts, CallMade DEF DeleteDomain, Request
<1>11. QED
  BY <1>1, <1>3, <1>6, <1>7, <1>8, <1>9, <1>10, RowWritten
LEMMA MovedIs ==
    ASSUME NEW row \in RowType, NEW n \in Nodes, NEW t, t = Moved(row, n)
    PROVE  t \in RowType /\ t.node = n /\ t.status = "PENDING" /\ t.recon = 0
<1>1. PICK x \in {"PENDING", "ACTIVE"}, k \in Nat : x = "PENDING" /\ k = 0
  OBVIOUS
<1>2. t = [row EXCEPT !.node = n, !.status = x, !.recon = k]
  BY Zenon, <1>1 DEF Moved
<1>3. t \in RowType
  BY <1>2 DEF RowType
<1>4. t.node = n /\ t.status = x /\ t.recon = k
  BY <1>2 DEF RowType
<1>5. QED
  BY <1>1, <1>3, <1>4

\* The rows move, and every node they leave is read again.
LEMMA MoveDomainsStep ==
    ASSUME IngressInv, NEW c \in Conns, MoveDomains(c)
    PROVE  IngressInv'
<1>1. PICK n : n = c[1]
  OBVIOUS
<1>2. PICK s : s = call[c].service
  OBVIOUS
<1> DEFINE moving == Elsewhere(s, n)
           left == {domain[d].node : d \in moving}
<1>3. /\ call[c].pc = "move"
      /\ domain' = [d \in Domains |-> IF d \in moving THEN Moved(domain[d], n) ELSE domain[d]]
      /\ verified' = {v \in verified : v[1] \notin moving}
      /\ UNCHANGED <<run, ready, sockets, conn, broken, queue, link, waiting, file, live, applied, used>>
  BY <1>1, <1>2 DEF MoveDomains, wire
<1>4. PICK todo \in Orders(left) : Step(c, Reading(Append(todo, n)))
  BY <1>1, <1>2 DEF MoveDomains
<1>5. c \in Callers /\ n \in Nodes /\ Typed /\ RunsOK /\ StateOK /\ DOMAIN call = Callers /\ conn[c] # "none"
  BY <1>1, <1>3, WhoCalls, Busy DEF IngressInv, Typed
<1>6. \A d \in moving : d \in Domains /\ Row(d) /\ d \in On(domain[d].node) /\ domain[d].node \in Nodes /\ domain[d].node # n
  <2>1. \A d \in moving : d \in Domains /\ Row(d) /\ d \in On(domain[d].node) /\ domain[d].node # n
    BY DEF Elsewhere, On
  <2>2. QED
    BY <2>1, RowIs
<1>7. left \in SUBSET Nodes
  BY <1>6
<1>8. PICK q : q = Append(todo, n)
  OBVIOUS
<1>9. q \in Todo /\ Has(q, n) /\ \A m \in left : Has(q, m)
  BY <1>5, <1>7, <1>8, OrderTodo
<1>10. call'[c] = Reading(q) /\ CallOK(Reading(q)) /\ Reading(q).pc = "read"
  BY <1>4, <1>5, <1>8, <1>9, StepIs, CallMade
<1>11. \A m : Has(q, m) => Renewed(m)'
  BY <1>5, <1>9, <1>10, ReadsNode
<1>12. ASSUME NEW d \in moving
       PROVE  domain'[d] \in RowType /\ domain'[d].node = n /\ domain'[d].status = "PENDING" /\ domain'[d].recon = 0
  <2>1. domain'[d] = Moved(domain[d], n) /\ domain[d] \in RowType
    BY <1>3, <1>6, RowIs
  <2>2. QED
    BY <1>5, <2>1, MovedIs
<1>13. \A d \in Domains : d \notin moving => domain'[d] = domain[d]
  BY <1>3
<1> HIDE DEF moving, left
<1>14. RunsGoOn /\ 0 \notin DOMAIN run
  BY <1>3, <1>5, RunsAre DEF RunsGoOn, RunsOK
<1>15. Kept
  <2>1. \A d \in Domains :
            \/ domain'[d].recon = domain[d].recon /\ (domain[d].status = "DELETING" => domain'[d].status = "DELETING")
            \/ domain'[d].recon \notin DOMAIN run
    BY <1>12, <1>13, <1>14
  <2>2. \A v \in verified : v \in verified' \/ (domain'[v[1]].recon = 0 /\ domain'[v[1]].status = "PENDING")
    BY <1>3, <1>12
  <2>3. QED
    BY <1>3, <1>14, <2>1, <2>2 DEF Kept
<1>16. domain' \in [Domains -> RowType]
  <2>1. \A d \in Domains : domain'[d] \in RowType
    BY <1>12, <1>13, RowIs
  <2>2. QED
    BY <1>3, <2>1
<1>17. \A d \in Domains : domain'[d] = domain[d] \/ RowInv(d)'
  <2>1. ASSUME NEW d \in moving PROVE RowInv(d)'
    BY <1>5, <1>6, <1>12, RowFree
  <2>2. QED
    BY <1>13, <2>1
<1>18. Typed'
  BY <1>3, <1>5 DEF Typed, RunsOK, StateOK, FilesOK, UsedOK
<1>19. CallInv(c)'
  BY <1>10 DEF CallInv
<1>20. \A m : ~Brings(c, m) /\ \A r : ~CallHolds(c, m, r)
  BY <1>3 DEF Brings, CallHolds, Sending
<1>21. \A m \in Nodes : On(m)' \subseteq On(m) \/ Renewed(m)'
  <2>1. ASSUME NEW m \in Nodes, m # n, NEW d \in On(m)' PROVE d \in On(m)
    <3>1. d \in Domains /\ Row(d)' /\ domain'[d].node = m
      BY DEF On
    <3>2. d \notin moving
      BY <1>12, <2>1, <3>1
    <3>3. QED
      BY <1>13, <3>1, <3>2 DEF On, Row
  <2>2. QED
    BY <1>9, <1>11, <2>1
<1>22. ASSUME NEW m \in Nodes, NEW d \in On(m)
       PROVE  domain'[d].recon = domain[d].recon \/ Renewed(m)'
  <2>1. d \in Domains /\ domain[d].node = m
    BY DEF On
  <2>2. CASE d \in moving
    <3>1. m \in left
      BY <2>1, <2>2 DEF left
    <3>2. QED
      BY <1>9, <1>11, <3>1
  <2>3. CASE d \notin moving
    BY <1>13, <2>1, <2>3
  <2>4. QED
    BY <2>2, <2>3
<1>23. \A d \in Domains : domain'[d].status = "CONFIGURING" =>
           /\ domain[d].status = "CONFIGURING"
           /\ domain'[d].node = domain[d].node /\ domain'[d].recon = domain[d].recon
  BY <1>12, <1>13
<1>24. Step(c, Reading(q))
  BY <1>4, <1>8
<1>25. \A m \in Nodes : \A d \in On(m) :
           \/ domain'[d].recon = domain[d].recon \/ Renewed(m)'
           \/ run'[domain[d].recon].status # "RUNNING"
  BY <1>22
<1>26. QED
  BY <1>3, <1>5, <1>15, <1>16, <1>17, <1>18, <1>19, <1>20, <1>21, <1>23, <1>24, <1>25, RowsMove

-----------------------------------------------------------------------------
(* The result of a reconciliation *)

LEMMA VerdictIs ==
    ASSUME NEW row \in RowType, NEW active \in BOOLEAN, NEW count \in Nat, NEW t, t = Verdict(row, active, count)
    PROVE  /\ t \in RowType /\ t.node = row.node /\ t.recon = 0
           /\ t.status \in {"PENDING", "ACTIVE", "FAILED"} /\ (t.status = "ACTIVE" => active)
<1>1. PICK x : x = IF active THEN "ACTIVE" ELSE IF count <= RetryDelays THEN "PENDING" ELSE "FAILED"
  OBVIOUS
<1>2. PICK k : k = IF active THEN 0 ELSE count
  OBVIOUS
<1>3. PICK z \in Nat : z = 0
  OBVIOUS
<1>4. PICK b \in BOOLEAN : b = (~active /\ count <= RetryDelays)
  OBVIOUS
<1>5. t = [row EXCEPT !.recon = z, !.status = x, !.retry = k, !.due = b]
  BY Zenon, <1>1, <1>2, <1>4, <1>3 DEF Verdict
<1>6. x \in {"PENDING", "ACTIVE", "FAILED"} /\ k \in Nat /\ (x = "ACTIVE" => active)
  <2>1. k \in Nat
    BY <1>2
  <2>2. CASE active
    BY <1>1, <2>1, <2>2
  <2>3. CASE ~active
    BY <1>1, <2>1, <2>3
  <2>4. QED
    BY <2>2, <2>3
<1>7. t \in RowType
  BY <1>5, <1>6 DEF RowType
<1>8. t.node = row.node /\ t.recon = 0 /\ t.status = x
  BY <1>3, <1>5 DEF RowType
<1>9. QED
  BY <1>6, <1>7, <1>8

\* What the transaction of a result writes: all the rows of the reconciliation,
\* and no other.
LEMMA RecordedIs ==
    ASSUME IngressInv, NEW n \in Nodes, NEW e \in Result, Reports(e, n), Owns(n, e),
           NEW counts \in [e.routes -> Nat], NEW d \in Domains, d \in On(n),
           NEW t, t = Recorded(d, e, counts)
    PROVE  /\ domain[d].recon # e.run => t = domain[d]
           /\ domain[d].recon = e.run =>
                 /\ t \in RowType /\ t.node = domain[d].node /\ t.recon = 0
                 /\ t.status \in {"PENDING", "ACTIVE", "FAILED", "DELETING", "removed"}
                 /\ t.status = "ACTIVE" => e.applied /\ d \in e.ok
                 /\ t.status \in {"ACTIVE", "FAILED"} => domain[d].status # "DELETING"
                 /\ t.status \in {"DELETING", "removed"} => domain[d].status = "DELETING" /\ d \notin e.routes
                 /\ t.status = "removed" => e.applied
<1>1. domain[d] \in RowType /\ RowInv(d)
  BY RowIs
<1>2. e.run \in DOMAIN run /\ run[e.run].routes = e.routes /\ e.run # 0
  BY ResultIs DEF Reports, Names
<1>3. domain[d].recon = e.run => (domain[d].status # "DELETING" <=> d \in e.routes)
  BY <1>1, <1>2 DEF RowInv
<1>4. d \in e.routes => domain[d].recon = e.run
  BY DEF Owns
<1>5. e.applied \in BOOLEAN
  BY ResultIs
<1>6. CASE d \in e.routes
  <2>1. PICK active \in BOOLEAN : active = (e.applied /\ d \in e.ok)
    BY <1>5
  <2>2. PICK count \in Nat : count = counts[d]
    BY <1>6
  <2>3. t = Verdict(domain[d], active, count)
    BY <1>6, <2>1, <2>2 DEF Recorded
  <2>4. /\ t \in RowType /\ t.node = domain[d].node /\ t.recon = 0
        /\ t.status \in {"PENDING", "ACTIVE", "FAILED"} /\ (t.status = "ACTIVE" => active)
    BY <1>1, <2>3, VerdictIs
  <2>5. QED
    BY <1>3, <1>4, <1>6, <2>1, <2>4
<1>7. CASE d \notin e.routes /\ domain[d].recon = e.run
  <2>1. domain[d].status = "DELETING"
    BY <1>3, <1>7
  <2>2. CASE e.applied
    <3>1. PICK x \in {"removed", "DELETING"}, k \in Nat : x = "removed" /\ k = 0
      OBVIOUS
    <3>2. t = [domain[d] EXCEPT !.status = x, !.recon = k, !.due = FALSE]
      BY Zenon, <1>7, <2>1, <2>2, <3>1 DEF Recorded
    <3>3. t \in RowType
      BY <1>1, <3>2 DEF RowType
    <3>4. t.node = domain[d].node /\ t.recon = k /\ t.status = x
      BY <1>1, <3>2 DEF RowType
    <3>5. QED
      BY <1>7, <2>1, <2>2, <3>1, <3>3, <3>4
  <2>3. CASE ~e.applied
    <3>1. t = [domain[d] EXCEPT !.recon = 0]
      BY Zenon, <1>7, <2>1, <2>3 DEF Recorded
    <3>2. t \in RowType /\ t.node = domain[d].node /\ t.recon = 0 /\ t.status = "DELETING"
      BY <1>1, <2>1, <3>1, RowRecon DEF SameBut
    <3>3. QED
      BY <1>7, <2>1, <3>2
  <2>4. QED
    BY <2>2, <2>3
<1>8. CASE d \notin e.routes /\ domain[d].recon # e.run
  BY <1>8 DEF Recorded
<1>9. QED
  BY <1>6, <1>7, <1>8

LEMMA RecordResultStep ==
    ASSUME IngressInv, NEW c \in Conns, RecordResult(c)
    PROVE  IngressInv'
<1>1. PICK n : n = c[1]
  OBVIOUS
<1>2. PICK e : e = call[c].event
  OBVIOUS
<1>3. PICK counts : counts = call[c].counts
  OBVIOUS
<1>4. PICK r : r = e.run
  OBVIOUS
<1>5. /\ call[c].pc = "result" /\ Owns(n, e) /\ Step(c, Idle)
      /\ domain' = [d \in Domains |-> IF d \in On(n) THEN Recorded(d, e, counts) ELSE domain[d]]
      /\ run' = [run EXCEPT ![r].status =
                    IF @ # "RUNNING" THEN @
                    ELSE IF e.applied /\ e.ok = e.routes THEN "SUCCEEDED" ELSE "FAILED"]
      /\ UNCHANGED <<ready, sockets, conn, broken, queue, link, waiting, file, live, applied, verified, used>>
  BY <1>1, <1>2, <1>3, <1>4 DEF RecordResult, wire, agent
<1>6. /\ c \in Callers /\ n \in Nodes /\ Typed /\ RunsOK /\ DOMAIN call = Callers /\ conn[c] # "none"
      /\ CallInv(c) /\ CallOK(call[c])
  BY <1>1, <1>5, WhoCalls, Busy DEF IngressInv, Typed
<1>7. e \in Result /\ counts \in [e.routes -> Nat] /\ Reports(e, n)
  BY <1>1, <1>2, <1>3, <1>5, <1>6, CallFields DEF CallInv
<1>8. r \in DOMAIN run /\ run[r].node = n /\ 0 \notin DOMAIN run
  BY <1>4, <1>6, <1>7, RunsAre DEF Reports, Names
<1>9. /\ RunsOK' /\ RunsGoOn /\ DOMAIN run' = DOMAIN run /\ run'[r].status # "RUNNING"
      /\ \A k \in DOMAIN run : k # r => run'[k] = run[k]
  <2>1. PICK s \in {"SUCCEEDED", "FAILED"} : s = IF e.applied /\ e.ok = e.routes THEN "SUCCEEDED" ELSE "FAILED"
    OBVIOUS
  <2>2. run' = [run EXCEPT ![r].status = IF @ = "RUNNING" THEN s ELSE @]
    BY <1>5, <2>1
  <2>3. QED
    BY <1>6, <1>8, <2>2, RunEnds
<1> DEFINE decided == {d \in Domains : domain[d].recon = r}
<1>10. \A d \in decided : d \in Domains /\ d \in On(n) /\ domain[d].node = n
  BY <1>8, RowIs
<1>11. ASSUME NEW d \in decided
       PROVE  /\ domain'[d] \in RowType /\ domain'[d].node = domain[d].node /\ domain'[d].recon = 0
              /\ domain'[d].status \in {"PENDING", "ACTIVE", "FAILED", "DELETING", "removed"}
              /\ domain'[d].status = "ACTIVE" => e.applied /\ d \in e.ok
              /\ domain'[d].status = "removed" => domain[d].status = "DELETING"
  <2>1. PICK t : t = Recorded(d, e, counts)
    OBVIOUS
  <2>2. domain'[d] = t /\ d \in Domains /\ d \in On(n) /\ domain[d].recon = e.run
    BY <1>4, <1>5, <1>10, <2>1
  <2>3. /\ t \in RowType /\ t.node = domain[d].node /\ t.recon = 0
        /\ t.status \in {"PENDING", "ACTIVE", "FAILED", "DELETING", "removed"}
        /\ t.status = "ACTIVE" => e.applied /\ d \in e.ok
        /\ t.status = "removed" => domain[d].status = "DELETING"
    BY <1>5, <1>6, <1>7, <2>1, <2>2, RecordedIs
  <2>4. QED
    BY <2>2, <2>3
<1>12. ASSUME NEW d \in Domains, d \notin decided PROVE domain'[d] = domain[d]
  <2>1. CASE d \in On(n)
    <3>1. PICK t : t = Recorded(d, e, counts)
      OBVIOUS
    <3>2. t = domain[d]
      BY <1>4, <1>5, <1>6, <1>7, <1>12, <2>1, <3>1, RecordedIs
    <3>3. QED
      BY <1>5, <2>1, <3>1, <3>2
  <2>2. CASE d \notin On(n)
    BY <1>5, <2>2
  <2>3. QED
    BY <2>1, <2>2
<1>13. \A d \in Domains : domain'[d].recon # r
  BY <1>8, <1>11, <1>12
<1>14. Kept
  <2>1. \A d \in Domains :
            \/ domain'[d].recon = domain[d].recon /\ (domain[d].status = "DELETING" => domain'[d].status = "DELETING")
            \/ domain'[d].recon \notin DOMAIN run
    BY <1>8, <1>11, <1>12
  <2>2. \A k \in DOMAIN run, d \in Domains :
            run[k].status = "RUNNING" /\ run'[k].status # "RUNNING" /\ domain'[d].recon = k =>
                domain'[d].status = "DELETING"
    BY <1>9, <1>13
  <2>3. QED
    BY <1>5, <1>9, <2>1, <2>2 DEF Kept
<1>15. domain' \in [Domains -> RowType]
  <2>1. \A d \in Domains : domain'[d] \in RowType
    BY <1>11, <1>12, RowIs
  <2>2. QED
    BY <1>5, <2>1
<1>16. ASSUME NEW d \in Domains PROVE domain'[d] = domain[d] \/ RowInv(d)'
  <2>1. CASE d \in decided
    <3>1. domain'[d].status = "ACTIVE" => <<d, domain'[d].node>> \in verified'
      <4>1. ASSUME domain'[d].status = "ACTIVE" PROVE <<d, n>> \in verified
        BY <1>4, <1>7, <1>11, <2>1, <4>1 DEF Reports
      <4>2. QED
        BY <1>5, <1>10, <1>11, <2>1, <4>1
    <3>2. Row(d)' => domain'[d].node \in Nodes
      BY <1>6, <1>10, <1>11, <2>1
    <3>3. domain'[d].recon = 0 /\ domain'[d].status # "CONFIGURING"
      BY <1>11, <2>1
    <3>4. QED
      BY <3>1, <3>2, <3>3 DEF RowInv
  <2>2. CASE d \notin decided
    BY <1>12, <2>2
  <2>3. QED
    BY <2>1, <2>2
<1>17. Typed'
  BY <1>5, <1>6, <1>9 DEF Typed, StateOK, FilesOK, UsedOK
<1>18. CallInv(c)'
  BY <1>5, <1>6, StepIs, CallMade DEF CallInv
<1>19. \A m : ~Brings(c, m) /\ \A k : CallHolds(c, m, k) => k = r
  BY <1>2, <1>4, <1>5 DEF Brings, CallHolds, Sending
<1>20. \A m : On(m)' \subseteq On(m)
  <2>1. ASSUME NEW d \in Domains PROVE (Row(d)' => Row(d)) /\ domain'[d].node = domain[d].node
    <3>1. CASE d \in decided
      BY <1>10, <1>11, <3>1, RowIs
    <3>2. CASE d \notin decided
      BY <1>12, <3>2 DEF Row
    <3>3. QED
      BY <3>1, <3>2
  <2>2. QED
    BY <2>1 DEF On
<1>21. \A m \in Nodes : \A d \in On(m) : domain'[d].recon = domain[d].recon \/ run'[domain[d].recon].status # "RUNNING"
  BY <1>9, <1>12 DEF On
<1>22. \A d \in Domains : domain'[d].status = "CONFIGURING" => domain'[d] = domain[d]
  BY <1>11, <1>12
<1>23. \A d \in Domains, m \in Nodes, k \in DOMAIN run :
           domain'[d].status = "CONFIGURING" /\ domain'[d].recon = k /\ CallHolds(c, m, k) => Attended(m, k)'
  BY <1>13, <1>19
<1>24. QED
  BY <1>5, <1>6, <1>9, <1>14, <1>15, <1>16, <1>17, <1>18, <1>19, <1>20, <1>21, <1>22, <1>23, RowsMove
-----------------------------------------------------------------------------
(* A restart of the control plane *)

\* Nothing runs and nothing is configured afterwards, and no call is under way.
LEMMA RestartStep == IngressInv /\ RestartControlPlane => IngressInv'
<1> SUFFICES ASSUME IngressInv, RestartControlPlane PROVE IngressInv'
  OBVIOUS
<1> DEFINE freed == {d \in Domains : domain[d].status \in {"CONFIGURING", "DELETING"}}
           ended == [r \in DOMAIN run |-> IF run[r].status = "RUNNING" THEN [run[r] EXCEPT !.status = "FAILED"] ELSE run[r]]
<1>1. /\ run' = ended
      /\ domain' = [d \in Domains |-> IF d \in freed THEN Released(domain[d], FALSE) ELSE domain[d]]
      /\ sockets' = [n \in Nodes |-> 0]
      /\ conn' = [c \in Conns |-> IF conn[c] = "none" THEN "none" ELSE "closed"]
      /\ call' = [c \in Callers |-> Idle]
      /\ broken' = {c \in Conns : conn[c] # "none"}
      /\ queue' = [c \in Conns |-> <<>>]
      /\ link' = [n \in Nodes |-> 0]
      /\ UNCHANGED <<ready, waiting, file, live, applied, verified>>
      /\ used' = [used EXCEPT !.mishaps = @ + 1]
  BY DEF RestartControlPlane, Mishap, agent
<1>2. Typed /\ RunsOK /\ StateOK /\ FilesOK /\ UsedOK /\ WaitingInv /\ ConnInv
  BY DEF IngressInv, Typed, Linked
<1>3. /\ DOMAIN run = 1..Len(run) /\ Len(run) \in Nat /\ 0 \notin DOMAIN run
      /\ \A r \in DOMAIN run : run[r] \in RunType
  BY <1>2, RunsAre
<1>4. ASSUME NEW v \in RunType
      PROVE  /\ [v EXCEPT !.status = "FAILED"] \in RunType
             /\ [v EXCEPT !.status = "FAILED"].node = v.node
             /\ [v EXCEPT !.status = "FAILED"].routes = v.routes
             /\ [v EXCEPT !.status = "FAILED"].status = "FAILED"
  BY DEF RunType
<1>5. /\ DOMAIN run' = DOMAIN run
      /\ \A r \in DOMAIN run :
            /\ run'[r] \in RunType /\ run'[r].node = run[r].node /\ run'[r].routes = run[r].routes
            /\ run'[r].status # "RUNNING"
  BY <1>1, <1>3, <1>4
<1>6. run' \in Seq(RunType)
  <2>1. run' = [r \in 1..Len(run) |-> run'[r]]
    BY <1>1, <1>3
  <2>2. run' \in [1..Len(run) -> RunType]
    BY <1>3, <1>5, <2>1
  <2>3. QED
    BY <1>3, <2>2, SeqDef
<1>7. RunsGoOn
  BY <1>5, <1>6 DEF RunsGoOn, RunsOK
<1> HIDE DEF ended
<1>8. ASSUME NEW d \in freed
      PROVE  /\ domain'[d] \in RowType /\ domain'[d].recon = 0 /\ domain'[d].node = domain[d].node
             /\ domain'[d].status = IF domain[d].status = "DELETING" THEN "DELETING" ELSE "PENDING"
  <2>1. domain[d] \in RowType /\ domain'[d] = Released(domain[d], FALSE)
    BY <1>1, RowIs
  <2>2. QED
    BY <2>1, ReleasedIs
<1>9. ASSUME NEW d \in Domains, d \notin freed
      PROVE  domain'[d] = domain[d] /\ domain[d].status # "CONFIGURING" /\ domain[d].status # "DELETING"
  BY <1>1, <1>9
<1>10. \A d \in Domains : domain'[d].status # "CONFIGURING"
  BY <1>8, <1>9
<1>11. RowsInv'
  <2>1. \A d \in Domains : domain'[d] \in RowType
    BY <1>8, <1>9, RowIs
  <2>2. domain' \in [Domains -> RowType]
    BY <1>1, <2>1
  <2>3. ASSUME NEW d \in Domains PROVE RowInv(d)'
    <3>1. CASE d \in freed
      <4>1. Row(d)
        BY <3>1 DEF Row
      <4>2. domain[d].node \in Nodes
        BY <4>1, RowIs DEF RowInv
      <4>3. QED
        BY <1>8, <3>1, <4>2, RowFree
    <3>2. CASE d \notin freed
      <4>1. RowInv(d) /\ domain'[d] = domain[d]
        BY <1>9, <3>2, RowIs
      <4>2. Row(d)' <=> Row(d)
        BY <4>1 DEF Row
      <4>3. domain[d].recon # 0 =>
                /\ Row(d) /\ domain[d].recon \in DOMAIN run
                /\ run[domain[d].recon].node = domain[d].node
                /\ domain[d].status \in {"CONFIGURING", "ACTIVE", "DELETING"}
                /\ domain[d].status # "DELETING" <=> d \in run[domain[d].recon].routes
        BY <4>1 DEF RowInv
      <4>4. domain'[d].recon # 0 =>
                /\ Row(d)' /\ domain'[d].recon \in DOMAIN run'
                /\ run'[domain'[d].recon].node = domain'[d].node
                /\ domain'[d].status \in {"CONFIGURING", "ACTIVE", "DELETING"}
                /\ domain'[d].status # "DELETING" <=> d \in run'[domain'[d].recon].routes
        BY <1>5, <4>1, <4>2, <4>3
      <4>5. (Row(d)' => domain'[d].node \in Nodes)
            /\ (domain'[d].status = "ACTIVE" => <<d, domain'[d].node>> \in verified')
        BY <1>1, <4>1, <4>2 DEF RowInv
      <4>6. domain'[d].status # "CONFIGURING"
        BY <1>10
      <4>7. QED
        BY <4>4, <4>5, <4>6 DEF RowInv
    <3>3. QED
      BY <3>1, <3>2
  <2>4. QED
    BY <2>2, <2>3 DEF RowsInv
<1>12. CallsInv'
  <2>1. \A c \in Callers : call'[c] = Idle
    BY <1>1
  <2>2. \A c \in Callers : CallInv(c)'
    BY <2>1, CallMade DEF CallInv
  <2>3. QED
    BY <1>1, <2>2 DEF CallsInv
<1>13. WaitingInv'
  <2>1. waiting' = waiting
    BY <1>1
  <2>2. ASSUME NEW n \in Nodes, NEW i \in DOMAIN waiting'[n]
        PROVE  LET w == waiting'[n][i]
               IN  /\ w.conn[1] = n /\ conn'[w.conn] # "none"
                   /\ w.cmd.run \in DOMAIN run' /\ run'[w.cmd.run].node = n
                   /\ run'[w.cmd.run].routes = w.cmd.routes
    <3>1. PICK w : w = waiting[n][i]
      OBVIOUS
    <3>2. w \in WaitType /\ w.conn[1] = n /\ conn[w.conn] # "none" /\ Names(w.cmd, n)
      BY <1>2, <2>1, <2>2, <3>1, Elements DEF WaitingInv, WaitingAt
    <3>3. conn'[w.conn] # "none"
      BY <1>1, <3>2 DEF WaitType
    <3>4. Names(w.cmd, n)'
      BY <1>7, <3>2, NamesStay
    <3>5. waiting'[n][i] = w
      BY <2>1, <3>1
    <3>6. QED
      BY <3>2, <3>3, <3>4, <3>5 DEF Names
  <2>3. QED
    BY <1>2, <2>1, <2>2 DEF WaitingInv, WaitingAt, Names
<1>14. QueueInv'
  <2>1. \A c \in Conns : queue'[c] = <<>>
    BY <1>1
  <2>2. queue' \in [Conns -> Seq(EventType)]
    BY <1>1
  <2>3. QED
    BY <2>1, <2>2 DEF QueueInv, QueueAt
<1>15. ConnInv'
  <2>1. \A c \in Conns : call'[c] = Idle /\ (conn'[c] # "none" => c \in broken')
    BY <1>1, WhoCalls
  <2>2. \A n \in Nodes : sockets'[n] = 0
    BY <1>1
  <2>3. QED
    BY <2>1, <2>2 DEF ConnInv
<1>16. Typed'
  <2>1. conn' \in [Conns -> {"none", "open", "closing", "closed"}]
    BY <1>1
  <2>2. sockets' \in [Nodes -> 0..MaxConns] /\ link' \in [Nodes -> 0..MaxConns]
    BY <1>1, ConnectedAssumption
  <2>3. broken' \subseteq Conns
    BY <1>1
  <2>4. StateOK'
    BY <1>1, <1>2, <1>5, <2>1, <2>2, <2>3 DEF StateOK
  <2>5. UsedOK'
    BY <1>1, <1>2, UsedCounts
  <2>6. QED
    BY <1>1, <1>2, <1>6, <2>4, <2>5 DEF Typed, RunsOK, FilesOK
<1>17. RunningInv' /\ AttendedInv'
  BY <1>5, <1>10 DEF RunningInv, AttendedInv
<1>18. QED
  BY <1>11, <1>12, <1>13, <1>14, <1>15, <1>16, <1>17 DEF IngressInv, Linked

-----------------------------------------------------------------------------
(* The specification *)

LEMMA IngressInit == Init => IngressInv
<1> SUFFICES ASSUME Init PROVE IngressInv
  OBVIOUS
<1> USE DEF Init
<1>1. RunsOK /\ DOMAIN run = {}
  BY DEF RunsOK
<1>2. StateOK
  <2>1. sockets \in [Nodes -> 0..MaxConns] /\ link \in [Nodes -> 0..MaxConns]
    BY ConnectedAssumption
  <2>2. conn \in [Conns -> {"none", "open", "closing", "closed"}]
    OBVIOUS
  <2>3. QED
    BY <1>1, <2>1, <2>2, PlacedAssumption DEF StateOK
<1>3. FilesOK /\ UsedOK
  BY DEF FilesOK, UsedOK, UsedType
<1>4. RowsInv
  <2>1. PICK t : t = [status |-> "new", node |-> NoNode, recon |-> 0, retry |-> 0, due |-> FALSE]
    OBVIOUS
  <2>2. t \in RowType /\ t.recon = 0 /\ t.status = "new"
    BY <2>1 DEF RowType
  <2>3. domain = [d \in Domains |-> t]
    BY <2>1
  <2>4. \A d \in Domains : RowInv(d)
    BY <2>2, <2>3 DEF RowInv, Row
  <2>5. QED
    BY <2>2, <2>3, <2>4 DEF RowsInv
<1>5. CallsInv
  <2>1. \A c \in Callers : call[c] = Idle
    OBVIOUS
  <2>2. \A c \in Callers : CallInv(c)
    BY <2>1, CallMade DEF CallInv
  <2>3. QED
    BY <2>2 DEF CallsInv
<1>6. WaitingInv /\ QueueInv
  BY DEF WaitingInv, WaitingAt, QueueInv, QueueAt
<1>7. ConnInv
  <2>1. ASSUME NEW c \in Conns PROVE call[c] = Idle /\ (conn[c] # "none" => link[c[1]] = c[2])
    BY <2>1, WhoCalls
  <2>2. ASSUME NEW n \in Nodes, sockets[n] # 0 PROVE conn[<<n, sockets[n]>>] # "none"
    <3>1. n \in Connected /\ sockets[n] = 1
      BY <2>2
    <3>2. <<n, 1>> \in Conns /\ <<n, 1>>[1] = n /\ <<n, 1>>[2] = 1
      BY ConnectedAssumption, WhoCalls
    <3>3. QED
      BY <3>1, <3>2
  <2>3. QED
    BY <2>1, <2>2 DEF ConnInv
<1>8. RunningInv /\ AttendedInv
  BY <1>1 DEF RunningInv, AttendedInv
<1>9. QED
  BY <1>1, <1>2, <1>3, <1>4, <1>5, <1>6, <1>7, <1>8 DEF IngressInv, Linked, Typed

LEMMA IngressUnchanged == IngressInv /\ UNCHANGED vars => IngressInv'
<1> SUFFICES ASSUME IngressInv, UNCHANGED vars PROVE IngressInv'
  OBVIOUS
<1>1. UNCHANGED <<domain, run, ready, sockets, conn, call, broken, queue, link, waiting, file, live, applied, verified, used>>
  BY DEF vars, rows, api, wire, agent
<1>2. Typed /\ WaitingInv /\ QueueInv /\ ConnInv
  BY DEF IngressInv, Linked
<1>3. StateOK' /\ FilesOK' /\ UsedOK'
  BY <1>1, <1>2, StateStays DEF Typed, FilesOK, UsedOK
<1>4. ConnInv'
  BY <1>1, <1>2, ConnsStay
<1>5. Kept => WaitingInv' /\ QueueInv'
  BY <1>1, <1>2, WaitingStays, QueueStays DEF Typed
<1>6. \A n \in Nodes, r \in DOMAIN run :
          run[r].node = n /\ run[r].status = "RUNNING"
          /\ (AgentHolds(n, r) \/ WireHolds(n, r)) => Attended(n, r)'
  BY <1>1, AgentHoldsStays, WireHoldsStays, AttendedIs
<1>7. QED
  BY <1>1, <1>3, <1>4, <1>5, <1>6, NoCallMoves

LEMMA ReconcileSteps ==
    ASSUME IngressInv, NEW c \in Callers, ReconcileStep(c)
    PROVE  IngressInv'
BY ReadRowsStep, TransactStep, SendStep, NotConnectedStep, FailBeforeSendStep DEF ReconcileStep

LEMMA ConnSteps ==
    ASSUME IngressInv, NEW c \in Conns, ConnStep(c)
    PROVE  IngressInv'
BY AbandonOpenStep, DropEventStep, RecordReadyStep, MoveDomainsStep, ReadResultStep, RecordResultStep,
   LoseResultStep, NoticeCloseStep, FailRunningStep DEF ConnStep

LEMMA IngressNext == IngressInv /\ Next => IngressInv'
<1> SUFFICES ASSUME IngressInv, Next PROVE IngressInv'
  OBVIOUS
<1>1. ASSUME NEW c \in Callers, Process(c) PROVE IngressInv'
  BY <1>1, ReconcileSteps, ConnSteps, InsertDomainStep DEF Process
<1>2. ASSUME NEW u \in Users, NEW d \in Domains, CreateDomain(u, d) \/ ReconcileDomain(u, d) \/ DeleteDomain(u, d)
      PROVE  IngressInv'
  BY <1>2, CreateDomainStep, ReconcileDomainStep, DeleteDomainStep
<1>3. CASE RetryTick
  BY <1>3, RetryTickStep
<1>4. ASSUME NEW n \in Nodes, NEW i \in 1..MaxConns, Connect(n, i) PROVE IngressInv'
  BY <1>4, ConnectStep
<1>5. ASSUME NEW n \in Nodes, AgentStep(n) \/ LoseConnection(n) \/ CrashAgent(n) PROVE IngressInv'
  BY <1>5, RemoveCaddyStep, ApplyRoutesStep, LoseConnectionStep, CrashAgentStep DEF AgentStep
<1>6. ASSUME NEW n \in Nodes, NEW i \in DOMAIN waiting[n], DockerFails(n, i) PROVE IngressInv'
  BY <1>6, DockerFailsStep
<1>7. ASSUME NEW n \in Nodes, NEW s \in Services, ReportReady(n, s) PROVE IngressInv'
  BY <1>7, ReportReadyStep
<1>8. CASE RestartControlPlane
  BY <1>8, RestartStep
<1>9. QED
  BY <1>1, <1>2, <1>3, <1>4, <1>5, <1>6, <1>7, <1>8 DEF Next

\* The invariant of the domains: every row, call, command and event agrees with
\* the reconciliation it belongs to, and every reconciliation that runs is held
\* by somebody or going to be superseded.
THEOREM IngressInvariant == Spec => []IngressInv
<1>1. IngressInv /\ [Next]_vars => IngressInv'
  BY IngressNext, IngressUnchanged
<1>2. QED
  BY IngressInit, <1>1, PTL DEF Spec

\* Tables of domains and reconciliations agree in every behaviour of the
\* control plane and the Agents, and no domain being configured is forgotten.
THEOREM DomainsAgree == Spec => []Consistent
<1>1. IngressInv => Consistent
  <2> SUFFICES ASSUME IngressInv PROVE Consistent
    OBVIOUS
  <2>1. TypeOK
    BY TypeFollows
  <2>2. RowsInv /\ AttendedInv
    BY DEF IngressInv, Linked
  <2>3. ConfiguringOwned
    BY <2>2, ConfiguringIs DEF ConfiguringOwned
  <2>4. ConfiguringAttended
    BY <2>2 DEF ConfiguringAttended, AttendedInv
  <2>5. QED
    BY <2>1, <2>3, <2>4 DEF Consistent
<1>2. QED
  BY IngressInvariant, <1>1, PTL

\* A domain that is ACTIVE was seen to answer on the node it is on: results
\* of a node it has left, or of a reconciliation that does not own it, do not
\* make it ACTIVE.
THEOREM ActiveVerified == Spec => []ActiveWasVerified
<1>1. IngressInv => ActiveWasVerified
  BY DEF IngressInv, Linked, RowsInv, RowInv, ActiveWasVerified
<1>2. QED
  BY IngressInvariant, <1>1, PTL

-----------------------------------------------------------------------------
(* Who decides of a domain *)

Final == {"ACTIVE", "FAILED", "removed"}
Undecided == \A d \in Domains : domain'[d].status \in Final => domain'[d].status = domain[d].status
OnlyRunningDecidesStep ==
    \A d \in Domains :
        domain'[d].status \in {"ACTIVE", "FAILED"} /\ domain'[d].status # domain[d].status =>
            LET r == domain[d].recon IN
            r \in DOMAIN run /\ run[r].status = "RUNNING" /\ run'[r].status # "RUNNING"
RemovedWasAppliedStep ==
    \A d \in Domains :
        domain'[d].status = "removed" /\ domain[d].status # "removed" =>
            LET r == domain[d].recon IN
            /\ domain[d].status = "DELETING" /\ r \in applied
            /\ run[r].node = domain[d].node /\ d \notin run[r].routes

\* Whoever releases, moves, takes over or deletes rows decides of none.
LEMMA CallDecides ==
    ASSUME IngressInv, NEW c \in Callers, ReconcileStep(c)
    PROVE  Undecided
<1>1. CASE ReadRows(c) \/ Send(c) \/ NotConnected(c)
  BY <1>1 DEF ReadRows, Send, NotConnected, rows, Undecided
<1>2. CASE Transact(c)
  <2>1. PICK n, S, D, r : /\ n = Head(call[c].todo) /\ S = call[c].routes /\ D = call[c].deleting /\ r = Len(run) + 1
    OBVIOUS
  <2>2. domain' = [d \in Domains |-> IF d \in On(n) THEN Owned(d, S, D, r) ELSE domain[d]]
    BY <1>2, <2>1 DEF Transact
  <2>3. r \in Nat
    BY <2>1, RunsAre DEF IngressInv, Typed
  <2>4. ASSUME NEW d \in Domains, d \in On(n), domain'[d].status \in Final
        PROVE  domain'[d].status = domain[d].status
    <3>1. PICK t : t = Owned(d, S, D, r)
      OBVIOUS
    <3>2. domain'[d] = t /\ domain[d] \in RowType
      BY <2>2, <2>4, <3>1, RowIs
    <3>3. /\ d \in S => t.status = (IF domain[d].status = "ACTIVE" THEN "ACTIVE" ELSE "CONFIGURING")
          /\ d \notin S /\ domain[d].status # "DELETING" => t.status = "PENDING"
          /\ d \notin S /\ domain[d].status = "DELETING" => t.status = "DELETING"
      BY <2>3, <3>1, <3>2, OwnedIs
    <3>4. QED
      BY <2>4, <3>2, <3>3 DEF Final
  <2>5. QED
    BY <2>2, <2>4 DEF Undecided
<1>3. CASE FailBeforeSend(c)
  <2>1. \A d \in Domains : domain'[d] = domain[d] \/ domain'[d] = Released(domain[d], TRUE)
    BY <1>3 DEF FailBeforeSend
  <2>2. ASSUME NEW d \in Domains, domain'[d] = Released(domain[d], TRUE) PROVE domain'[d].status \in {"DELETING", "PENDING"}
    <3>1. domain[d] \in RowType
      BY RowIs
    <3>2. QED
      BY <2>2, <3>1, ReleasedIs
  <2>3. QED
    BY <2>1, <2>2 DEF Undecided, Final
<1>4. QED
  BY <1>1, <1>2, <1>3 DEF ReconcileStep

LEMMA RequestDecides ==
    ASSUME IngressInv, NEW u \in Users,
           InsertDomain(u) \/ \E d \in Domains : CreateDomain(u, d) \/ ReconcileDomain(u, d) \/ DeleteDomain(u, d)
    PROVE  Undecided
<1>1. domain \in [Domains -> RowType]
  BY DEF IngressInv, Linked, RowsInv
<1>2. CASE InsertDomain(u)
  <2>1. PICK e : e = call[u].domain
    OBVIOUS
  <2>2. PICK t : t = [status |-> "PENDING", node |-> call[u].node, recon |-> 0, retry |-> 0, due |-> FALSE]
    OBVIOUS
  <2>3. t.status = "PENDING"
    BY <2>2
  <2>4. domain' = domain \/ domain' = [domain EXCEPT ![e] = t]
    BY <1>2, <2>1, <2>2 DEF InsertDomain
  <2>5. QED
    BY <1>1, <2>3, <2>4 DEF Undecided, Final
<1>3. ASSUME NEW d \in Domains, CreateDomain(u, d) PROVE Undecided
  BY <1>3 DEF CreateDomain, rows, Undecided
<1>4. ASSUME NEW d \in Domains, ReconcileDomain(u, d) PROVE Undecided
  <2>1. PICK t : t = [domain[d] EXCEPT !.retry = 0, !.due = FALSE]
    OBVIOUS
  <2>2. t.status = domain[d].status
    BY <1>1, <2>1 DEF RowType
  <2>3. domain' = [domain EXCEPT ![d] = t]
    BY <1>1, <1>4, <2>1 DEF ReconcileDomain
  <2>4. QED
    BY <1>1, <2>2, <2>3 DEF Undecided
<1>5. ASSUME NEW d \in Domains, DeleteDomain(u, d) PROVE Undecided
  <2>1. PICK t : t = [domain[d] EXCEPT !.status = "DELETING", !.recon = 0]
    OBVIOUS
  <2>2. t.status = "DELETING"
    BY <1>1, <2>1 DEF RowType
  <2>3. domain' = [domain EXCEPT ![d] = t]
    BY <1>1, <1>5, <2>1 DEF DeleteDomain
  <2>4. QED
    BY <1>1, <2>2, <2>3 DEF Undecided, Final
<1>6. QED
  BY <1>2, <1>3, <1>4, <1>5

LEMMA MoveDecides ==
    ASSUME IngressInv, NEW c \in Conns, MoveDomains(c)
    PROVE  Undecided
<1>1. c[1] \in Nodes
  BY WhoCalls
<1>2. \A d \in Domains : domain'[d] = domain[d] \/ domain'[d] = Moved(domain[d], c[1])
  BY DEF MoveDomains
<1>3. \A d \in Domains : domain'[d] = domain[d] \/ domain'[d].status = "PENDING"
  BY <1>1, <1>2, RowIs, MovedIs
<1>4. QED
  BY <1>3 DEF Undecided, Final

LEMMA ReleaseDecides ==
    ASSUME IngressInv, RestartControlPlane \/ \E c \in Conns : FailRunningIngress(c)
    PROVE  Undecided
<1>1. \A d \in Domains : domain'[d] = domain[d] \/ domain'[d] = Released(domain[d], FALSE)
  BY DEF RestartControlPlane, FailRunningIngress
<1>2. ASSUME NEW d \in Domains, domain'[d] = Released(domain[d], FALSE) PROVE domain'[d].status \in {"DELETING", "PENDING"}
  <2>1. domain[d] \in RowType
    BY RowIs
  <2>2. QED
    BY <1>2, <2>1, ReleasedIs
<1>3. QED
  BY <1>1, <1>2 DEF Undecided, Final

LEMMA ConnDecides ==
    ASSUME IngressInv, NEW c \in Conns, ConnStep(c)
    PROVE  Undecided \/ RecordResult(c)
<1>1. CASE AbandonOpen(c) \/ DropEvent(c) \/ RecordReady(c) \/ ReadResult(c) \/ LoseResult(c) \/ NoticeClose(c)
  BY <1>1 DEF AbandonOpen, DropEvent, RecordReady, ReadResult, LoseResult, NoticeClose, rows, Undecided
<1>2. QED
  BY <1>1, MoveDecides, ReleaseDecides DEF ConnStep

LEMMA OnlyResultsDecide ==
    ASSUME IngressInv, [Next]_vars
    PROVE  Undecided \/ \E c \in Conns : RecordResult(c)
<1>1. ASSUME NEW c \in Callers, Process(c) PROVE Undecided \/ \E w \in Conns : RecordResult(w)
  BY <1>1, CallDecides, RequestDecides, ConnDecides DEF Process
<1>2. ASSUME NEW u \in Users, NEW d \in Domains, CreateDomain(u, d) \/ ReconcileDomain(u, d) \/ DeleteDomain(u, d)
      PROVE  Undecided
  BY <1>2, RequestDecides
<1>3. CASE RetryTick
  BY <1>3 DEF RetryTick, rows, Undecided
<1>4. ASSUME NEW n \in Nodes, NEW i \in 1..MaxConns, Connect(n, i) PROVE Undecided
  BY <1>4 DEF Connect, rows, Undecided
<1>5. ASSUME NEW n \in Nodes, AgentStep(n) PROVE Undecided
  BY <1>5 DEF AgentStep, RemoveCaddy, ApplyRoutes, Complete, rows, Undecided
<1>6. ASSUME NEW n \in Nodes, LoseConnection(n) \/ CrashAgent(n) PROVE Undecided
  BY <1>6 DEF LoseConnection, CrashAgent, rows, Undecided
<1>7. ASSUME NEW n \in Nodes, NEW i \in DOMAIN waiting[n], DockerFails(n, i) PROVE Undecided
  BY <1>7 DEF DockerFails, Complete, rows, Undecided
<1>8. ASSUME NEW n \in Nodes, NEW s \in Services, ReportReady(n, s) PROVE Undecided
  BY <1>8 DEF ReportReady, rows, Undecided
<1>9. CASE RestartControlPlane
  BY <1>9, ReleaseDecides
<1>10. CASE UNCHANGED vars
  BY <1>10 DEF vars, rows, Undecided
<1>11. QED
  BY <1>1, <1>2, <1>3, <1>4, <1>5, <1>6, <1>7, <1>8, <1>9, <1>10 DEF Next

LEMMA ResultDecides ==
    ASSUME IngressInv, NEW c \in Conns, RecordResult(c)
    PROVE  OnlyRunningDecidesStep /\ RemovedWasAppliedStep
<1>1. PICK n, e, counts, r : n = c[1] /\ e = call[c].event /\ counts = call[c].counts /\ r = e.run
  OBVIOUS
<1>2. /\ call[c].pc = "result" /\ Owns(n, e)
      /\ domain' = [d \in Domains |-> IF d \in On(n) THEN Recorded(d, e, counts) ELSE domain[d]]
      /\ run' = [run EXCEPT ![r].status =
                    IF @ # "RUNNING" THEN @
                    ELSE IF e.applied /\ e.ok = e.routes THEN "SUCCEEDED" ELSE "FAILED"]
  BY <1>1 DEF RecordResult
<1>3. c \in Callers /\ n \in Nodes /\ RunsOK /\ CallInv(c) /\ CallOK(call[c])
  BY <1>1, <1>2, WhoCalls, Busy DEF IngressInv, Typed
<1>4. e \in Result /\ counts \in [e.routes -> Nat] /\ Reports(e, n) /\ Owes(r)
  BY <1>1, <1>2, <1>3, CallFields DEF CallInv
<1>5. r \in DOMAIN run /\ run[r].node = n /\ run[r].routes = e.routes /\ (e.applied => r \in applied)
  BY <1>1, <1>4 DEF Reports, Names
<1>6. run'[r].status # "RUNNING"
  <2>1. PICK s \in {"SUCCEEDED", "FAILED"} : s = IF e.applied /\ e.ok = e.routes THEN "SUCCEEDED" ELSE "FAILED"
    OBVIOUS
  <2>2. run' = [run EXCEPT ![r].status = IF @ = "RUNNING" THEN s ELSE @]
    BY <1>2, <2>1
  <2>3. QED
    BY <1>3, <1>5, <2>2, RunEnds
<1>7. ASSUME NEW d \in Domains, domain'[d].status # domain[d].status
      PROVE  /\ domain[d].recon = r /\ domain[d].node = n
             /\ domain'[d].status \in {"ACTIVE", "FAILED"} => domain[d].status # "DELETING"
             /\ domain'[d].status = "removed" => domain[d].status = "DELETING" /\ d \notin e.routes /\ e.applied
  <2>1. d \in On(n)
    BY <1>2, <1>7
  <2>2. PICK t : t = Recorded(d, e, counts)
    OBVIOUS
  <2>3. domain'[d] = t /\ domain[d].node = n
    BY <1>2, <2>1, <2>2 DEF On
  <2>4. /\ domain[d].recon # e.run => t = domain[d]
        /\ domain[d].recon = e.run =>
              /\ t.status \in {"ACTIVE", "FAILED"} => domain[d].status # "DELETING"
              /\ t.status \in {"DELETING", "removed"} => domain[d].status = "DELETING" /\ d \notin e.routes
              /\ t.status = "removed" => e.applied
    BY <1>2, <1>3, <1>4, <2>1, <2>2, RecordedIs
  <2>5. domain[d].recon = r
    BY <1>1, <1>7, <2>3, <2>4
  <2>6. QED
    BY <1>1, <2>3, <2>4, <2>5
<1>8. OnlyRunningDecidesStep
  BY <1>4, <1>5, <1>6, <1>7 DEF Owes, OnlyRunningDecidesStep
<1>9. RemovedWasAppliedStep
  BY <1>5, <1>7 DEF RemovedWasAppliedStep
<1>10. QED
  BY <1>8, <1>9

\* A result decides only what its reconciliation owns, although it is checked
\* before the transaction that records it: ACTIVE and FAILED end a reconciliation
\* that runs, and a row goes only when its removal was applied on its node.
THEOREM ResultsDecideTheirOwn == Spec => DecidedByItsRun
<1>1. IngressInv /\ [Next]_vars => OnlyRunningDecidesStep /\ RemovedWasAppliedStep
  <2> SUFFICES ASSUME IngressInv, [Next]_vars PROVE OnlyRunningDecidesStep /\ RemovedWasAppliedStep
    OBVIOUS
  <2>1. CASE Undecided
    BY <2>1 DEF Undecided, Final, OnlyRunningDecidesStep, RemovedWasAppliedStep
  <2>2. QED
    BY <2>1, OnlyResultsDecide, ResultDecides
<1>2. Spec => [][OnlyRunningDecidesStep]_vars /\ [][RemovedWasAppliedStep]_vars
  BY <1>1, IngressInvariant, PTL DEF Spec
<1>3. QED
  BY <1>2, PTL DEF DecidedByItsRun, OnlyRunningDecides, RemovedWasApplied, OnlyRunningDecidesStep, RemovedWasAppliedStep
=============================================================================
