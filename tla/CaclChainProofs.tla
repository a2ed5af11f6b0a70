-------------------------- MODULE CaclChainProofs --------------------------
(***************************************************************************)
(* Theorems about the rules of caclmgrd that do not come from ACLs, for    *)
(* any addresses, DPUs and ports and any number of changes and updates:    *)
(* the state is typed, the INPUT chain holds exactly the rules the         *)
(* attributes stand for unless a handler has overlapped the latest update  *)
(* or a command has failed since, and it holds what the databases ask for  *)
(* if no handler has overlapped an update since the start.                 *)
(* The invariant follows each handler through its commands and its         *)
(* assignments, and an update from its first reading to its last command.  *)
(***************************************************************************)
EXTENDS CaclChain, FiniteSetTheorems, TLAPS

\* The rules the flags stand for, and the one for the loopback.
Plain ==
    {Lo} \cup {r \in {Bfd} : bfdAllowed} \cup {r \in {Vxlan(vxlanSrcIP)} : vxlanAllowed}

\* How many DPUs of a map have the port of rule r.
Holds(r, map) == Cardinality({d \in Dpus : r = Dash(map[d])})

\* The chain of the rules in S and the ports of a map.
Want(S, map) == [r \in Rules |-> IF r \in S THEN 1 ELSE Holds(r, map)]

\* The chain the attributes stand for.
W == Want(Plain, dashHaPortMap)

\* The commands and assignments of a handler.
Insert(r)   == <<"insert", r>>
Delete(r)   == <<"delete", r>>
Assign(a)   == <<a, None>>
Forget(d)   == <<"pop", d>>
Learn(d, p) == <<"map", d, p>>

\* A handler has run none of its steps.
Fresh ==
    \/ mainCmds = <<>>
    \/ /\ ~bfdAllowed
       /\ mainCmds = <<Insert(Bfd), Assign("bfdAllowed")>>
    \/ /\ ~vxlanAllowed /\ vxlanSrcIP # None
       /\ mainCmds = <<Insert(Vxlan(vxlanSrcIP)), Assign("vxlanAllowed")>>
    \/ /\ vxlanAllowed /\ vxlanSrcIP # None
       /\ mainCmds = <<Delete(Vxlan(vxlanSrcIP)), Assign("vxlanBlocked"), Assign("vxlanNoIP")>>
    \/ \E d \in Dpus, p \in Ports :
          /\ dashHaPortMap[d] = None
          /\ mainCmds = <<Insert(Dash(p)), Learn(d, p)>>
    \/ \E d \in Dpus, p \in Ports :
          /\ dashHaPortMap[d] \notin {None, p}
          /\ mainCmds = <<Delete(Dash(dashHaPortMap[d])), Insert(Dash(p)), Learn(d, p)>>
    \/ \E d \in Dpus :
          /\ dashHaPortMap[d] # None
          /\ mainCmds = <<Delete(Dash(dashHaPortMap[d])), Forget(d)>>

\* The chain, of a handler that has run some of its commands and has not made its assignments,
\* unless a command has failed.
Ahead(more, less) ==
    ~cmdFailed => \A r \in Rules : chain[r] = W[r] + (IF r \in more THEN 1 ELSE 0) - (IF r \in less THEN 1 ELSE 0)

\* A handler has run some of its steps.
Begun ==
    \/ /\ ~bfdAllowed
       /\ mainCmds = <<Assign("bfdAllowed")>>
       /\ Ahead({Bfd}, {})
    \/ /\ ~vxlanAllowed /\ vxlanSrcIP # None
       /\ mainCmds = <<Assign("vxlanAllowed")>>
       /\ Ahead({Vxlan(vxlanSrcIP)}, {})
    \/ /\ vxlanAllowed /\ vxlanSrcIP # None
       /\ mainCmds = <<Assign("vxlanBlocked"), Assign("vxlanNoIP")>>
       /\ Ahead({}, {Vxlan(vxlanSrcIP)})
    \/ /\ ~vxlanAllowed
       /\ mainCmds = <<Assign("vxlanNoIP")>>
       /\ Ahead({}, {})
    \/ \E d \in Dpus, p \in Ports :
          /\ dashHaPortMap[d] \notin {None, p}
          /\ mainCmds = <<Insert(Dash(p)), Learn(d, p)>>
          /\ Ahead({}, {Dash(dashHaPortMap[d])})
    \/ \E d \in Dpus, p \in Ports :
          /\ dashHaPortMap[d] # p
          /\ mainCmds = <<Learn(d, p)>>
          /\ Ahead({Dash(p)}, {Dash(dashHaPortMap[d])})
    \/ \E d \in Dpus :
          /\ dashHaPortMap[d] # None
          /\ mainCmds = <<Forget(d)>>
          /\ Ahead({}, {Dash(dashHaPortMap[d])})

\* Alone, handlers keep the chain in step with the attributes; during an update they wait.
MainInv == \/ Fresh /\ (upc = "idle" => Ahead({}, {}))
           \/ Begun /\ upc = "idle"

\* How often command c is in s.
Count(s, c) == Cardinality({k \in DOMAIN s : s[k] = c})
Inserts == {Insert(r) : r \in Rules \ {Lo}}
Flush   == <<"flush", None>>
First   == <<"append", Lo>>

\* What an update has read of the attributes, by the rules it makes of them.
Seen(r) ==
    (IF r = Bfd /\ bfdAllowed /\ upc # "bfd" THEN 1 ELSE 0)
    + (IF r = Vxlan(vxlanSrcIP) /\ vxlanAllowed /\ upc \in {"dash", "dashEnd"} THEN 1 ELSE 0)

\* The commands of an update so far: a flush, the first rule, and each rule it has read once.
BuildInv ==
    upc \notin {"idle", "run"} =>
        /\ Len(cmds) >= 2 /\ cmds[1] = Flush /\ cmds[2] = First
        /\ \A k \in DOMAIN cmds : k > 2 => cmds[k] \in Inserts
        /\ \A r \in Rules \ {Lo} : Count(cmds, Insert(r)) = Seen(r)
        /\ upc \in {"vxlanSrc", "vxlanCmd"} => vxlanAllowed
        /\ upc = "vxlanCmd" => fvs = vxlanSrcIP
        /\ upc = "dashEnd" => dashItems = dashHaPortMap

\* What has been run and what is left of the commands make the chain the attributes stand for,
\* unless a command has failed.
RunInv ==
    upc = "run" /\ ~cmdFailed =>
        \/ /\ Len(cmds) >= 2 /\ cmds[1] = Flush /\ cmds[2] = First
           /\ \A k \in DOMAIN cmds : k > 2 => cmds[k] \in Inserts
           /\ \A r \in Rules \ {Lo} : Count(cmds, Insert(r)) = W[r]
        \/ /\ cmds # <<>> /\ cmds[1] = First /\ chain = Empty
           /\ \A k \in DOMAIN cmds : k > 1 => cmds[k] \in Inserts
           /\ \A r \in Rules \ {Lo} : Count(cmds, Insert(r)) = W[r]
        \/ /\ chain[Lo] = 1
           /\ \A k \in DOMAIN cmds : cmds[k] \in Inserts
           /\ \A r \in Rules \ {Lo} : chain[r] + Count(cmds, Insert(r)) = W[r]

\* The assignment a handler ends with.
Last == IF mainCmds = <<>> THEN Assign("none") ELSE mainCmds[Len(mainCmds)]

\* A BFD session is allowed, or will be.
BfdInv ==
    /\ bfdSubscribed = ~bfdAllowed
    /\ bfdRow => bfdAllowed \/ bfdQ \/ Last = Assign("bfdAllowed")

\* A waiting notification is about DPU d; it is the last one; one tells of a deletion.
About(q, d) == \E k \in DOMAIN q : q[k][1] = d
IsLast(q, d, k) ==
    /\ k \in DOMAIN q
    /\ q[k][1] = d
    /\ \A j \in DOMAIN q : j > k => q[j][1] # d
Deleted(q, d) == \E k \in DOMAIN q : q[k] = <<d, "del">>

\* The port the row of a DPU asks for, and the one it will have.
PortOf(d) == IF dpuRow[d] = Blank THEN None ELSE dpuRow[d]
NewPort(d) ==
    IF Last[1] \in {"pop", "map"} /\ Last[2] = d
    THEN IF Last[1] = "pop" THEN None ELSE Last[3]
    ELSE dashHaPortMap[d]

\* A DPU of which no notification waits has the port of its row, or will; the last one that waits
\* tells whether there is a row; and a row without a port comes after a deletion.
DpuInv ==
    \A d \in Dpus :
        /\ About(dpuQ, d) => \E k \in DOMAIN dpuQ : IsLast(dpuQ, d, k)
        /\ \A k \in DOMAIN dpuQ : IsLast(dpuQ, d, k) => (dpuQ[k][2] = "del" <=> dpuRow[d] = None)
        /\ ~About(dpuQ, d) => NewPort(d) = PortOf(d)
        /\ dpuRow[d] = Blank /\ NewPort(d) # None => Deleted(dpuQ, d)

\* The flag and the address of the tunnel after the handler.
NewAllowed == Last = Assign("vxlanAllowed") \/ (vxlanAllowed /\ Last # Assign("vxlanNoIP"))
NewSrcIP   == IF Last = Assign("vxlanNoIP") THEN None ELSE vxlanSrcIP
Gone(q)    == \E k \in DOMAIN q : q[k] = "del"

\* The addresses of a tunnel are its own.
AddrInv ==
    /\ vxlanRow \in Ips => vxlanRow \in addrs
    /\ vxlanRow = None => addrs = {}

\* The tunnel of which no notification waits is allowed with an address it has had, or will be.
VxlanInv ==
    /\ NewAllowed <=> NewSrcIP # None
    /\ vxlanQ # <<>> => (vxlanQ[Len(vxlanQ)] = "del" <=> vxlanRow = None)
    /\ NewAllowed /\ ~Gone(vxlanQ) => NewSrcIP \in addrs
    /\ vxlanQ = <<>> /\ vxlanRow \in Ips => NewAllowed

\* The inductive invariant.
CaclIInv ==
    /\ TypeOK
    /\ AddrInv
    /\ raced # "now" => MainInv /\ BuildInv /\ RunInv
    /\ raced = "never" => BfdInv /\ DpuInv /\ VxlanInv

-----------------------------------------------------------------------------
(* Counting commands and ports.                                            *)

\* Sets in a one-to-one correspondence have the same size.
LEMMA SameSize ==
  ASSUME NEW S, NEW T, IsFiniteSet(S), NEW f \in [S -> T],
         \A x, y \in S : f[x] = f[y] => x = y,
         \A t \in T : \E x \in S : f[x] = t
  PROVE  Cardinality(T) = Cardinality(S)
<1>1. f \in Bijection(S, T)
  BY DEF Bijection, Injection, Surjection, IsInjective
<1>2. ExistsBijection(S, T)
  BY <1>1 DEF ExistsBijection
<1>3. QED
  BY <1>2, FS_Bijection

\* How often a command is in a sequence is a number,
LEMMA CountType ==
  ASSUME NEW S, NEW q \in Seq(S), NEW c
  PROVE  IsFiniteSet({k \in DOMAIN q : q[k] = c}) /\ Count(q, c) \in Nat
<1>1. DOMAIN q = 1 .. Len(q) /\ Len(q) \in Nat
  OBVIOUS
<1>2. IsFiniteSet(1 .. Len(q))
  BY <1>1, FS_Interval
<1>3. IsFiniteSet({k \in DOMAIN q : q[k] = c})
  BY <1>1, <1>2, FS_Subset
<1>4. QED
  BY <1>3, FS_CardinalityType DEF Count

\* one more after it was appended,
LEMMA CountAppend ==
  ASSUME NEW S, NEW q \in Seq(S), NEW x \in S, NEW c
  PROVE  Count(Append(q, x), c) = Count(q, c) + (IF x = c THEN 1 ELSE 0)
<1> DEFINE r == Append(q, x)
           K == {k \in DOMAIN q : q[k] = c}
           L == {k \in DOMAIN r : r[k] = c}
<1>1. /\ Len(q) \in Nat /\ DOMAIN q = 1 .. Len(q) /\ DOMAIN r = 1 .. Len(q) + 1
      /\ r[Len(q) + 1] = x /\ \A k \in 1 .. Len(q) : r[k] = q[k]
  OBVIOUS
<1>2. IsFiniteSet(K) /\ Cardinality(K) \in Nat
  BY CountType DEF Count
<1> HIDE DEF r
<1>0. Count(q, c) = Cardinality(K) /\ Count(r, c) = Cardinality(L)
  BY DEF Count
<1>3. CASE x = c
  <2>1. L = K \cup {Len(q) + 1} /\ Len(q) + 1 \notin K
    BY <1>1, <1>3
  <2>2. Cardinality(L) = Cardinality(K) + 1
    BY <1>2, <2>1, FS_AddElement
  <2> HIDE DEF K, L
  <2>3. QED
    BY <1>0, <1>3, <2>2 DEF r
<1>4. CASE x # c
  <2>1. L = K
    BY <1>1, <1>4
  <2> HIDE DEF K, L
  <2>2. QED
    BY <1>0, <1>2, <1>4, <2>1 DEF r
<1>5. QED
  BY <1>3, <1>4

\* one less after it was run,
LEMMA CountTail ==
  ASSUME NEW S, NEW q \in Seq(S), q # <<>>, NEW c
  PROVE  Count(q, c) = Count(Tail(q), c) + (IF q[1] = c THEN 1 ELSE 0)
<1> DEFINE r == Tail(q)
           K == {k \in DOMAIN q : q[k] = c}
           L == {k \in DOMAIN r : r[k] = c}
           f == [k \in L |-> k + 1]
<1>1. /\ Len(q) \in Nat \ {0} /\ DOMAIN q = 1 .. Len(q) /\ DOMAIN r = 1 .. Len(q) - 1
      /\ r \in Seq(S) /\ \A k \in 1 .. Len(q) - 1 : r[k] = q[k + 1]
  OBVIOUS
<1>2. IsFiniteSet(K) /\ Cardinality(K) \in Nat
  BY CountType DEF Count
<1>3. IsFiniteSet(L) /\ Cardinality(L) \in Nat
  BY <1>1, CountType DEF Count
<1> HIDE DEF r
<1>0. Count(q, c) = Cardinality(K) /\ Count(r, c) = Cardinality(L)
  BY DEF Count
<1>4. Cardinality(K \ {1}) = Cardinality(L)
  <2>1. f \in [L -> K \ {1}]
    BY <1>1
  <2>2. \A x, y \in L : f[x] = f[y] => x = y
    BY <1>1
  <2>3. ASSUME NEW t \in K \ {1} PROVE \E x \in L : f[x] = t
    <3>1. t - 1 \in L /\ f[t - 1] = t
      BY <1>1
    <3>2. QED
      BY <3>1
  <2> HIDE DEF K, L, f
  <2>4. QED
    BY <1>3, <2>1, <2>2, <2>3, SameSize
<1>5. 1 \in K <=> q[1] = c
  BY <1>1
<1>6. Cardinality(K \ {1}) = IF 1 \in K THEN Cardinality(K) - 1 ELSE Cardinality(K)
  BY <1>2, FS_RemoveElement
<1> HIDE DEF K, L
<1>7. QED
  BY <1>0, <1>2, <1>3, <1>4, <1>5, <1>6 DEF r

\* The parts of a concatenation,
LEMMA Concat ==
  ASSUME NEW S, NEW q \in Seq(S), NEW n \in Nat, NEW f \in [1 .. n -> S]
  PROVE  /\ q \o f \in Seq(S) /\ Len(q \o f) = Len(q) + n
         /\ \A k \in 1 .. Len(q) : (q \o f)[k] = q[k]
         /\ \A k \in 1 .. n : (q \o f)[Len(q) + k] = f[k]
<1>1. f \in Seq(S) /\ Len(f) = n
  OBVIOUS
<1>2. QED
  BY <1>1

\* and how often a command is in it.
LEMMA CountConcat ==
  ASSUME NEW S, NEW q \in Seq(S), NEW n \in Nat, NEW f \in [1 .. n -> S], NEW c
  PROVE  Count(q \o f, c) = Count(q, c) + Cardinality({k \in 1 .. n : f[k] = c})
<1> DEFINE r == q \o f
           m == Len(q)
           K == {k \in DOMAIN q : q[k] = c}
           L == {k \in 1 .. n : f[k] = c}
           M == {k \in m + 1 .. m + n : r[k] = c}
           g == [k \in L |-> m + k]
<1>0. f \in Seq(S) /\ Len(f) = n
  OBVIOUS
<1>1. /\ m \in Nat /\ DOMAIN q = 1 .. m /\ DOMAIN r = 1 .. m + n
      /\ r \in Seq(S) /\ Len(r) = m + n
      /\ \A k \in 1 .. m : r[k] = q[k]
      /\ \A k \in 1 .. n : r[m + k] = f[k]
  BY <1>0
<1>2. IsFiniteSet(K) /\ Cardinality(K) \in Nat
  BY CountType DEF Count
<1>3. IsFiniteSet(L) /\ Cardinality(L) \in Nat
  <2>1. IsFiniteSet(1 .. n)
    BY FS_Interval
  <2>2. QED
    BY <2>1, FS_Subset, FS_CardinalityType
<1> HIDE DEF r, m
<1>4. Cardinality(M) = Cardinality(L) /\ IsFiniteSet(M)
  <2>1. g \in [L -> M]
    BY <1>1
  <2>2. \A x, y \in L : g[x] = g[y] => x = y
    BY <1>1
  <2>3. ASSUME NEW t \in M PROVE \E x \in L : g[x] = t
    <3>1. t - m \in 1 .. n /\ m + (t - m) = t
      BY <1>1
    <3>2. t - m \in L /\ g[t - m] = t
      BY <1>1, <3>1
    <3>3. QED
      BY <3>2
  <2>4. IsFiniteSet(M)
    <3>1. IsFiniteSet(m + 1 .. m + n)
      BY <1>1, FS_Interval
    <3>2. QED
      BY <3>1, FS_Subset
  <2> HIDE DEF L, M, g
  <2>5. QED
    BY <1>3, <2>1, <2>2, <2>3, <2>4, SameSize
<1>5. {k \in DOMAIN r : r[k] = c} = K \cup M /\ K \cap M = {}
  BY <1>1
<1>6. Cardinality(K \cup M) = Cardinality(K) + Cardinality(M)
  <2>1. Cardinality({}) = 0
    BY FS_EmptySet
  <2>2. IsFiniteSet(K) /\ IsFiniteSet(M) /\ K \cap M = {}
    BY <1>2, <1>4, <1>5
  <2> HIDE DEF K, M
  <2>3. Cardinality(K \cup M) = Cardinality(K) + Cardinality(M) - Cardinality(K \cap M)
    BY <2>2, FS_Union
  <2>4. Cardinality(K) \in Nat /\ Cardinality(M) \in Nat
    BY <2>2, FS_CardinalityType
  <2>5. Cardinality(K \cap M) = 0
    BY <2>1, <2>2, Zenon
  <2>6. QED
    BY <2>3, <2>4, <2>5
<1>7. Count(q, c) = Cardinality(K) /\ Count(r, c) = Cardinality(K \cup M)
  BY <1>5 DEF Count
<1> HIDE DEF K, M, L
<1>8. Count(r, c) = Count(q, c) + Cardinality(L)
  BY <1>4, <1>6, <1>7
<1>9. QED
  BY <1>1, <1>8 DEF r, m, L

\* How many DPUs of a map have port p.
Holders(map, p) == Cardinality({d \in Dpus : map[d] = p})

\* It is a number.
LEMMA HoldersType ==
  ASSUME NEW map, NEW p
  PROVE  IsFiniteSet({d \in Dpus : map[d] = p}) /\ Holders(map, p) \in Nat
<1>1. IsFiniteSet({d \in Dpus : map[d] = p})
  BY ChainAssumption, FS_Subset
<1>2. QED
  BY <1>1, FS_CardinalityType DEF Holders

\* A map in which DPU d has another port.
Moved(map, d, new) == [map EXCEPT ![d] = new]

\* The old port has lost one DPU then, and the new one won one.
LEMMA HoldersMove ==
  ASSUME NEW map \in [Dpus -> Ports \cup {None}], NEW d \in Dpus, NEW new,
         new # map[d], NEW p
  PROVE  Holders(Moved(map, d, new), p) =
           Holders(map, p) + (IF p = new THEN 1 ELSE 0) - (IF p = map[d] THEN 1 ELSE 0)
<1> DEFINE K == {e \in Dpus : map[e] = p}
           L == {e \in Dpus : Moved(map, d, new)[e] = p}
<1>0. /\ Moved(map, d, new)[d] = new
      /\ \A e \in Dpus : e # d => Moved(map, d, new)[e] = map[e]
  BY DEF Moved
<1>1. IsFiniteSet(K) /\ Cardinality(K) \in Nat
  BY HoldersType DEF Holders
<1>2. CASE p = new
  <2>1. L = K \cup {d} /\ d \notin K
    BY <1>0, <1>2
  <2>2. Cardinality(L) = Cardinality(K) + 1
    BY <1>1, <2>1, FS_AddElement
  <2>3. QED
    BY <1>1, <1>2, <2>2 DEF Holders
<1>3. CASE p = map[d]
  <2>1. L = K \ {d} /\ d \in K
    BY <1>0, <1>3
  <2>2. Cardinality(L) = Cardinality(K) - 1
    BY <1>1, <2>1, FS_RemoveElement
  <2>3. QED
    BY <1>1, <1>3, <2>2 DEF Holders
<1>4. CASE p # new /\ p # map[d]
  <2>1. L = K
    BY <1>0, <1>4
  <2>2. QED
    BY <1>1, <1>4, <2>1 DEF Holders
<1>5. QED
  BY <1>2, <1>3, <1>4

\* How often port p comes up along an order of the DPUs.
Placed(map, order, n, p) == Cardinality({i \in 1 .. n : map[order[i]] = p})

\* The iteration over a map comes by each port as often as DPUs have it.
LEMMA OrderedHolders ==
  ASSUME NEW map \in [Dpus -> Ports \cup {None}], NEW n, n = Cardinality(Entries(map)),
         NEW order \in [1 .. n -> Entries(map)],
         \A i, j \in DOMAIN order : i # j => order[i] # order[j],
         NEW p \in Ports
  PROVE  Placed(map, order, n, p) = Holders(map, p)
<1> DEFINE E == Entries(map)
           K == {i \in 1 .. n : map[order[i]] = p}
           L == {d \in Dpus : map[d] = p}
           f == [i \in K |-> order[i]]
<1>1. IsFiniteSet(E) /\ n \in Nat
  BY ChainAssumption, FS_Subset, FS_CardinalityType DEF Entries
<1>2. IsFiniteSet(1 .. n) /\ Cardinality(1 .. n) = n
  BY <1>1, FS_Interval
<1>3. order \in Injection(1 .. n, E)
  BY DEF Injection, IsInjective
<1>4. order \in Surjection(1 .. n, E)
  BY <1>1, <1>2, <1>3, FS_Injection
<1>5. IsFiniteSet(K)
  BY <1>2, FS_Subset
<1>6. f \in [K -> L]
  BY DEF Entries
<1>7. \A x, y \in K : f[x] = f[y] => x = y
  OBVIOUS
<1>8. ASSUME NEW t \in L PROVE \E x \in K : f[x] = t
  <2>1. t \in E
    BY ChainAssumption DEF Entries
  <2>2. PICK x \in 1 .. n : order[x] = t
    BY <1>4, <2>1 DEF Surjection
  <2>3. QED
    BY <2>2
<1> HIDE DEF K, L, f
<1>9. Cardinality(L) = Cardinality(K)
  BY <1>5, <1>6, <1>7, <1>8, SameSize
<1>10. QED
  BY <1>9 DEF K, L, Holders, Placed

-----------------------------------------------------------------------------
(* Rules and chains.                                                       *)

\* The rules are different from each other.
LEMMA RuleCases ==
  /\ \A r \in Rules : \/ r = Bfd
                      \/ r = Lo
                      \/ \E ip \in Ips : r = Vxlan(ip)
                      \/ \E p \in Ports : r = Dash(p)
  /\ Bfd \in Rules /\ Lo \in Rules /\ Bfd # Lo
  /\ \A ip \in Ips : Vxlan(ip) \in Rules
  /\ \A p \in Ports : Dash(p) \in Rules
  /\ \A x : Vxlan(x) # Bfd /\ Vxlan(x) # Lo /\ Dash(x) # Bfd /\ Dash(x) # Lo
  /\ \A x, y : Vxlan(x) # Dash(y)
  /\ \A x, y : (Vxlan(x) = Vxlan(y)) <=> x = y
  /\ \A x, y : (Dash(x) = Dash(y)) <=> x = y
  BY DEF Rules, Bfd, Lo, Vxlan, Dash

\* There is no rule for what is not there.
LEMMA NotRules == Dash(None) \notin Rules /\ Vxlan(None) \notin Rules
  BY RuleCases, ChainAssumption

\* Rules for other things than ports are of no DPU.
LEMMA HoldsParts ==
  ASSUME NEW map
  PROVE  /\ \A r : Holds(r, map) \in Nat
         /\ \A r \in Rules : (\A p \in Ports : r # Dash(p)) => Holds(r, map) = 0
         /\ \A p \in Ports : Holds(Dash(p), map) = Holders(map, p)
<1>1. ASSUME NEW r PROVE Holds(r, map) \in Nat
  <2>1. IsFiniteSet({d \in Dpus : r = Dash(map[d])})
    BY ChainAssumption, FS_Subset
  <2>2. QED
    BY <2>1, FS_CardinalityType DEF Holds
<1>2. ASSUME NEW r \in Rules, \A p \in Ports : r # Dash(p) PROVE Holds(r, map) = 0
  <2>1. {d \in Dpus : r = Dash(map[d])} = {}
    BY <1>2, RuleCases
  <2>2. QED
    BY <2>1, FS_EmptySet DEF Holds
<1>3. ASSUME NEW p \in Ports PROVE Holds(Dash(p), map) = Holders(map, p)
  <2>1. {d \in Dpus : Dash(p) = Dash(map[d])} = {d \in Dpus : map[d] = p}
    BY RuleCases
  <2>2. QED
    BY <2>1 DEF Holds, Holders
<1>4. QED
  BY <1>1, <1>2, <1>3

\* The chain of the attributes, rule by rule;
LEMMA WantParts ==
  ASSUME NEW S, NEW map
  PROVE  /\ Want(S, map) \in [Rules -> Nat]
         /\ \A r \in Rules : r \in S => Want(S, map)[r] = 1
         /\ \A r \in Rules : r \notin S /\ (\A p \in Ports : r # Dash(p)) => Want(S, map)[r] = 0
         /\ \A p \in Ports : Dash(p) \notin S => Want(S, map)[Dash(p)] = Holders(map, p)
  BY HoldsParts, RuleCases DEF Want

\* with one rule more,
LEMMA WantMore ==
  ASSUME NEW S, NEW x \in Rules, x \notin S, \A p \in Ports : x # Dash(p),
         NEW T, T = S \cup {x}, NEW map
  PROVE  \A r \in Rules : Want(T, map)[r] = Want(S, map)[r] + (IF r = x THEN 1 ELSE 0)
  BY HoldsParts DEF Want

\* or with another port.
LEMMA WantMoved ==
  ASSUME NEW S, \A x : Dash(x) \notin S, NEW map \in [Dpus -> Ports \cup {None}],
         NEW d \in Dpus, NEW new \in Ports \cup {None}, new # map[d]
  PROVE  \A r \in Rules :
           Want(S, Moved(map, d, new))[r] =
             Want(S, map)[r] + (IF r = Dash(new) THEN 1 ELSE 0)
                             - (IF r = Dash(map[d]) THEN 1 ELSE 0)
<1> DEFINE moved == Moved(map, d, new)
<1>1. ASSUME NEW p \in Ports
      PROVE  Want(S, Moved(map, d, new))[Dash(p)] =
               Want(S, map)[Dash(p)] + (IF Dash(p) = Dash(new) THEN 1 ELSE 0)
                                     - (IF Dash(p) = Dash(map[d]) THEN 1 ELSE 0)
  <2>1. Want(S, map)[Dash(p)] = Holders(map, p)
    BY WantParts
  <2>2. Dash(p) = Dash(new) <=> p = new
    BY RuleCases
  <2>3. Dash(p) = Dash(map[d]) <=> p = map[d]
    BY RuleCases
  <2> HIDE DEF moved
  <2>4. Want(S, moved)[Dash(p)] = Holders(moved, p)
    BY WantParts
  <2>5. Holders(moved, p) = Holders(map, p) + (IF p = new THEN 1 ELSE 0)
                                            - (IF p = map[d] THEN 1 ELSE 0)
    BY HoldersMove DEF moved
  <2>6. QED
    BY <2>1, <2>2, <2>3, <2>4, <2>5 DEF moved
<1>2. ASSUME NEW r \in Rules, \A p \in Ports : r # Dash(p)
      PROVE  Want(S, Moved(map, d, new))[r] =
               Want(S, map)[r] + (IF r = Dash(new) THEN 1 ELSE 0)
                               - (IF r = Dash(map[d]) THEN 1 ELSE 0)
  <2>1. r # Dash(new) /\ r # Dash(map[d])
    BY <1>2, NotRules
  <2> HIDE DEF moved
  <2>2. Want(S, moved)[r] = Want(S, map)[r] /\ Want(S, map)[r] \in Nat
    BY <1>2, HoldsParts DEF Want
  <2>3. QED
    BY <2>1, <2>2 DEF moved
<1>3. QED
  BY <1>1, <1>2

\* It is the chain the properties speak of.
LEMMA WantedIsW == W = Wanted(bfdAllowed, vxlanAllowed, vxlanSrcIP, dashHaPortMap)
  BY DEF W, Want, Wanted, Plain, Holds

\* The rules of the flags, one by one.
LEMMA PlainParts ==
  /\ Lo \in Plain
  /\ \A x : Dash(x) \notin Plain
  /\ Bfd \in Plain <=> bfdAllowed
  /\ \A ip : Vxlan(ip) \in Plain <=> (vxlanAllowed /\ ip = vxlanSrcIP)
  BY RuleCases DEF Plain

-----------------------------------------------------------------------------
(* The types.                                                              *)

\* The parts of a sequence that is not empty.
LEMMA SeqParts ==
  ASSUME NEW S, NEW q \in Seq(S), q # <<>>
  PROVE  /\ Head(q) \in S /\ Head(q) = q[1] /\ Len(q) \in Nat \ {0}
         /\ Tail(q) \in Seq(S) /\ Len(Tail(q)) = Len(q) - 1
         /\ \A k \in 1 .. Len(q) - 1 : Tail(q)[k] = q[k + 1]
  OBVIOUS

\* Sequences written out are sequences.
LEMMA ShortSteps ==
  /\ <<>> \in Seq(Steps)
  /\ \A a \in Steps : <<a>> \in Seq(Steps)
  /\ \A a, b \in Steps : <<a, b>> \in Seq(Steps)
  /\ \A a, b, c \in Steps : <<a, b, c>> \in Seq(Steps)
  OBVIOUS

\* What the steps of a handler are about.
LEMMA StepSorts ==
  ASSUME NEW op \in Steps
  PROVE  /\ op[1] \in {"flush", "append", "insert", "delete"} => op[2] \in Rules \cup {None}
         /\ op[1] = "pop" => op[2] \in Dpus
         /\ op[1] = "map" => op[2] \in Dpus /\ op[3] \in Ports
  BY DEF Steps

\* They are steps.
LEMMA StepForms ==
  /\ \A r \in Rules : Insert(r) \in Steps /\ Delete(r) \in Steps
  /\ \A a \in {"bfdAllowed", "vxlanAllowed", "vxlanBlocked", "vxlanNoIP"} : Assign(a) \in Steps
  /\ \A d \in Dpus : Forget(d) \in Steps
  /\ \A d \in Dpus, p \in Ports : Learn(d, p) \in Steps
  /\ <<"flush", None>> \in Steps /\ <<"append", Lo>> \in Steps
  BY DEF Steps, Insert, Delete, Assign, Forget, Learn, Rules

\* The chains at the start and after a flush are typed.
LEMMA BootedType == Empty \in [Rules -> Nat] /\ Booted \in [Rules -> Nat]
  BY DEF Booted, Empty, Rules

\* A command keeps the chain typed.
LEMMA ApplyType ==
  ASSUME NEW op \in Steps, NEW ch \in [Rules -> Nat]
  PROVE  Apply(op, ch) \in [Rules -> Nat]
<1>1. \/ Apply(op, ch) = Empty
      \/ op[2] \in Rules \cup {None} /\ Apply(op, ch) = [ch EXCEPT ![op[2]] = @ + 1]
      \/ op[2] \in Rules \cup {None} /\ op[1] = "delete" /\ ch[op[2]] > 0 /\ Apply(op, ch) = [ch EXCEPT ![op[2]] = @ - 1]
      \/ Apply(op, ch) = ch
  BY StepSorts DEF Apply
<1>2. CASE op[2] \in Rules
  <2>1. ch[op[2]] \in Nat
    BY <1>2
  <2>2. QED
    BY <1>1, <1>2, <2>1, BootedType
<1>3. CASE op[2] \notin Rules
  BY <1>1, <1>3, BootedType
<1>4. QED
  BY <1>2, <1>3

\* A new subscription replays exactly the rows of DPUs there are.
LEMMA ReplayTyped ==
  ASSUME NEW q \in DpuReplays
  PROVE  /\ q \in Seq(Dpus \X {"set", "del"})
         /\ \A k \in DOMAIN q : q[k][2] = "set" /\ dpuRow[q[k][1]] # None
         /\ \A d \in Dpus : dpuRow[d] # None => \E k \in DOMAIN q : q[k][1] = d
<1> DEFINE rows == Entries(dpuRow)
           n    == Cardinality(rows)
<1>1. n \in Nat
  BY ChainAssumption, FS_Subset, FS_CardinalityType DEF Entries
<1>2. q \in [1 .. n -> Dpus \X {"set"}] /\ {q[k][1] : k \in DOMAIN q} = rows
  BY DEF DpuReplays
<1>3. q \in [1 .. n -> Dpus \X {"set", "del"}] /\ \A k \in DOMAIN q : q[k][2] = "set" /\ q[k][1] \in rows
  BY <1>2
<1>4. \A d \in rows : \E k \in DOMAIN q : q[k][1] = d
  BY <1>2
<1>5. rows = {d \in Dpus : dpuRow[d] # None}
  BY DEF Entries
<1> HIDE DEF n, rows
<1>6. q \in Seq(Dpus \X {"set", "del"})
  BY <1>1, <1>3
<1>7. QED
  BY <1>3, <1>4, <1>5, <1>6

\* Every step keeps the types.
LEMMA CaclTypeStep ==
  ASSUME TypeOK, [Next]_vars
  PROVE  TypeOK'
<1> USE DEF TypeOK
<1>1. ASSUME BfdSession PROVE TypeOK'
  <2>1. changes' \in 0 .. MaxChanges /\ bfdRow' \in BOOLEAN /\ bfdQ' \in BOOLEAN
    BY <1>1, ChainAssumption DEF BfdSession, DbStep
  <2>2. QED
    BY <1>1, <2>1 DEF BfdSession, DbStep, attrs, thread
<1>2. ASSUME NEW row \in Ips \union {None, Blank}, SetVxlan(row) PROVE TypeOK'
  <2>1. changes' \in 0 .. MaxChanges /\ vxlanQ' \in Seq({"set", "del"})
    BY <1>2, ChainAssumption DEF SetVxlan, DbStep
  <2>2. addrs' \in SUBSET Ips
    BY <1>2 DEF SetVxlan
  <2>3. QED
    BY <1>2, <2>1, <2>2 DEF SetVxlan, DbStep, attrs, thread
<1>3. ASSUME NEW d \in Dpus, NEW row \in Ports \union {None, Blank}, SetDpu(d, row) PROVE TypeOK'
  <2>1. changes' \in 0 .. MaxChanges /\ dpuRow' \in [Dpus -> Ports \union {None, Blank}]
    BY <1>3, ChainAssumption DEF SetDpu, DbStep
  <2>2. dpuQ' \in Seq(Dpus \X {"set", "del"})
    BY <1>3 DEF SetDpu
  <2>3. QED
    BY <1>3, <2>1, <2>2 DEF SetDpu, DbStep, attrs, thread
<1>4. ASSUME PopBfd PROVE TypeOK'
  <2>1. mainCmds' = <<>> \/ mainCmds' = <<Insert(Bfd), Assign("bfdAllowed")>>
    BY <1>4 DEF PopBfd, Begin, Insert, Assign
  <2>2. mainCmds' \in Seq(Steps)
    <3>1. Insert(Bfd) \in Steps /\ Assign("bfdAllowed") \in Steps
      BY StepForms, RuleCases
    <3>2. QED
      BY <2>1, <3>1, ShortSteps
  <2>3. bfdQ' \in BOOLEAN
    BY <1>4 DEF PopBfd
  <2>4. QED
    BY <1>4, <2>2, <2>3 DEF PopBfd, db, attrs, thread, bounds
<1>5. ASSUME PopVxlanSet PROVE TypeOK'
  <2>1. vxlanSrcIP' \in Ips \cup {None} /\ vxlanQ' \in Seq({"set", "del"})
    BY <1>5, SeqParts DEF PopVxlanSet
  <2>2. \/ mainCmds' = <<>>
        \/ \E ip \in Ips : mainCmds' = <<Insert(Vxlan(ip)), Assign("vxlanAllowed")>>
    BY <1>5, <2>1 DEF PopVxlanSet, Begin, AllowVxlan, Insert, Assign
  <2>3. mainCmds' \in Seq(Steps)
    <3>1. Assign("vxlanAllowed") \in Steps /\ \A ip \in Ips : Insert(Vxlan(ip)) \in Steps
      BY StepForms, RuleCases
    <3>2. \A ip \in Ips : <<Insert(Vxlan(ip)), Assign("vxlanAllowed")>> \in Seq(Steps)
      BY <3>1, ShortSteps
    <3>3. <<>> \in Seq(Steps)
      BY ShortSteps
    <3>4. QED
      BY <2>2, <3>2, <3>3, Zenon
  <2>4. QED
    BY <1>5, <2>1, <2>3 DEF PopVxlanSet, db, thread, bounds
<1>6. ASSUME PopVxlanDel PROVE TypeOK'
  <2>1. vxlanQ' \in Seq({"set", "del"})
    BY <1>6, SeqParts DEF PopVxlanDel
  <2>2. \/ mainCmds' = <<>>
        \/ vxlanSrcIP # None /\ mainCmds' = <<Delete(Vxlan(vxlanSrcIP)), Assign("vxlanBlocked"), Assign("vxlanNoIP")>>
    BY <1>6 DEF PopVxlanDel, Begin, Delete, Assign
  <2>3. mainCmds' \in Seq(Steps)
    <3>1. /\ Assign("vxlanBlocked") \in Steps /\ Assign("vxlanNoIP") \in Steps
          /\ vxlanSrcIP # None => Delete(Vxlan(vxlanSrcIP)) \in Steps
      BY StepForms, RuleCases
    <3>2. vxlanSrcIP # None => <<Delete(Vxlan(vxlanSrcIP)), Assign("vxlanBlocked"), Assign("vxlanNoIP")>> \in Seq(Steps)
      BY <3>1, ShortSteps
    <3>3. <<>> \in Seq(Steps)
      BY ShortSteps
    <3>4. QED
      BY <2>2, <3>2, <3>3, Zenon
  <2>4. QED
    BY <1>6, <2>1, <2>3 DEF PopVxlanDel, db, attrs, thread, bounds
<1>7. ASSUME PopDpu PROVE TypeOK'
  <2> DEFINE d   == Head(dpuQ)[1]
             old == dashHaPortMap[d]
             new == dpuRow[d]
  <2>1. dpuQ' \in Seq(Dpus \X {"set", "del"}) /\ d \in Dpus /\ Head(dpuQ)[2] \in {"set", "del"}
    <3>1. dpuQ # <<>> /\ dpuQ' = Tail(dpuQ)
      BY <1>7 DEF PopDpu
    <3>2. Head(dpuQ) \in Dpus \X {"set", "del"} /\ Tail(dpuQ) \in Seq(Dpus \X {"set", "del"})
      BY <3>1, SeqParts
    <3>3. QED
      BY <3>1, <3>2
  <2>2. old \in Ports \cup {None} /\ new \in Ports \cup {None, Blank}
    BY <2>1
  <2>3. \/ mainCmds' = DropPort(d, old)
        \/ mainCmds' = <<>>
        \/ new \notin {None, Blank, old} /\ mainCmds' = SetPort(d, old, new)
    BY <1>7, <2>1 DEF PopDpu, Begin
  <2> HIDE DEF d, old, new
  <2>4. DropPort(d, old) \in Seq(Steps)
    <3>1. \/ DropPort(d, old) = <<>>
          \/ old \in Ports /\ DropPort(d, old) = <<Delete(Dash(old)), Forget(d)>>
      BY <2>2 DEF DropPort, Delete, Forget
    <3>2. Forget(d) \in Steps /\ (old \in Ports => Delete(Dash(old)) \in Steps)
      BY <2>1, StepForms, RuleCases
    <3>3. QED
      BY <3>1, <3>2, ShortSteps
  <2>5. ASSUME new \notin {None, Blank, old} PROVE SetPort(d, old, new) \in Seq(Steps)
    <3>1. new \in Ports
      BY <2>2, <2>5
    <3>2. SetPort(d, old, new) = (IF old = None THEN <<>> ELSE <<Delete(Dash(old))>>) \o <<Insert(Dash(new)), Learn(d, new)>>
      BY DEF SetPort, Delete, Insert, Learn
    <3>3. Insert(Dash(new)) \in Steps /\ Learn(d, new) \in Steps /\ (old # None => Delete(Dash(old)) \in Steps)
      BY <2>1, <2>2, <3>1, StepForms, RuleCases
    <3>4. (IF old = None THEN <<>> ELSE <<Delete(Dash(old))>>) \in Seq(Steps) /\ <<Insert(Dash(new)), Learn(d, new)>> \in Seq(Steps)
      BY <3>3, ShortSteps
    <3>5. QED
      BY <3>2, <3>4
  <2>6. mainCmds' \in Seq(Steps)
    BY <2>3, <2>4, <2>5, ShortSteps
  <2>7. QED
    BY <1>7, <2>1, <2>6 DEF PopDpu, db, attrs, thread, bounds
<1>8. ASSUME MainStep PROVE TypeOK'
  <2> DEFINE op == Head(mainCmds)
  <2>1. op \in Steps /\ mainCmds' \in Seq(Steps) /\ raced' \in {"never", "now", "before"}
    BY <1>8, SeqParts DEF MainStep, MainIdle
  <2>2. chain' \in [Rules -> Nat]
    BY <1>8, <2>1, ApplyType DEF MainStep
  <2>3. bfdAllowed' \in BOOLEAN /\ bfdSubscribed' \in BOOLEAN /\ vxlanAllowed' \in BOOLEAN /\ vxlanSrcIP' \in Ips \cup {None}
    BY <1>8 DEF MainStep
  <2>4. \/ dashHaPortMap' = dashHaPortMap
        \/ op[2] \in Dpus /\ dashHaPortMap' = [dashHaPortMap EXCEPT ![op[2]] = None]
        \/ op[2] \in Dpus /\ op[3] \in Ports /\ dashHaPortMap' = [dashHaPortMap EXCEPT ![op[2]] = op[3]]
    BY <1>8, <2>1, StepSorts DEF MainStep
  <2>5. dashHaPortMap' \in [Dpus -> Ports \cup {None}]
    BY <2>4
  <2>6. QED
    BY <1>8, <2>1, <2>2, <2>3, <2>5 DEF MainStep, db, queues, thread, bounds
<1>0. ASSUME CommandFails PROVE changes' \in 0 .. MaxChanges /\ chainFaults' \in 0 .. MaxChainFaults /\ cmdFailed' = TRUE
  BY <1>0, ChainAssumption DEF CommandFails
<1>21. ASSUME MainStepFails PROVE TypeOK'
  <2>1. CommandFails /\ mainCmds' \in Seq(Steps) /\ raced' \in {"never", "now", "before"}
    BY <1>21, SeqParts DEF MainStepFails, MainIdle
  <2>2. QED
    BY <1>0, <1>21, <2>1 DEF MainStepFails, db, queues, attrs, thread
<1>9. ASSUME StartUpdate PROVE TypeOK'
  <2>1. updates' \in 0 .. MaxUpdates
    BY <1>9, ChainAssumption DEF StartUpdate
  <2>2. cmds' \in Seq(Steps)
    <3>1. cmds' = <<<<"flush", None>>, <<"append", Lo>>>>
      BY <1>9 DEF StartUpdate
    <3>2. QED
      BY <3>1, StepForms, ShortSteps
  <2>3. upc' = "bfd" /\ raced' \in {"never", "now", "before"} /\ cmdFailed' \in BOOLEAN
    BY <1>9 DEF StartUpdate
  <2>4. QED
    BY <1>9, <2>1, <2>2, <2>3 DEF StartUpdate, db, queues, attrs
<1>10. ASSUME ReadBfd PROVE TypeOK'
  <2>1. cmds' = cmds \/ cmds' = Append(cmds, Insert(Bfd))
    BY <1>10 DEF ReadBfd, Insert
  <2>2. cmds' \in Seq(Steps)
    <3>1. Insert(Bfd) \in Steps
      BY StepForms, RuleCases
    <3>2. Append(cmds, Insert(Bfd)) \in Seq(Steps)
      BY <3>1
    <3>3. QED
      BY <2>1, <3>2
  <2>3. upc' = "vxlan"
    BY <1>10 DEF ReadBfd
  <2>4. QED
    BY <1>10, <2>2, <2>3 DEF ReadBfd, db, queues, attrs, bounds
<1>11. ASSUME ReadVxlan PROVE TypeOK'
  <2>1. upc' \in {"vxlanSrc", "dash"}
    BY <1>11 DEF ReadVxlan
  <2>2. QED
    BY <1>11, <2>1 DEF ReadVxlan, db, queues, attrs, bounds
<1>12. ASSUME ReadVxlanSrc PROVE TypeOK'
  BY <1>12 DEF ReadVxlanSrc, db, queues, attrs, bounds
<1>13. ASSUME VxlanCommand PROVE TypeOK'
  <2>1. cmds' = cmds \/ (fvs # None /\ cmds' = Append(cmds, Insert(Vxlan(fvs))))
    BY <1>13 DEF VxlanCommand, Insert
  <2>2. cmds' \in Seq(Steps)
    <3>1. fvs # None => Insert(Vxlan(fvs)) \in Steps
      BY StepForms, RuleCases
    <3>2. fvs # None => Append(cmds, Insert(Vxlan(fvs))) \in Seq(Steps)
      BY <3>1
    <3>3. QED
      BY <2>1, <3>2
  <2>3. upc' = "dash" /\ vxlanSrcIP' \in Ips \cup {None} /\ fvs' \in Ips \cup {None}
    BY <1>13 DEF VxlanCommand
  <2>4. QED
    BY <1>13, <2>2, <2>3 DEF VxlanCommand, db, queues, bounds
<1>14. ASSUME ReadDash PROVE TypeOK'
  BY <1>14 DEF ReadDash, db, queues, attrs, bounds
<1>15. ASSUME DashDone PROVE TypeOK'
  <2> DEFINE n == Cardinality(Entries(dashItems))
  <2>1. PICK order \in [1 .. n -> Entries(dashItems)] :
          cmds' = cmds \o [i \in DOMAIN order |-> Insert(Dash(dashItems[order[i]]))]
    BY <1>15 DEF DashDone, Insert
  <2>2. n \in Nat
    BY ChainAssumption, FS_Subset, FS_CardinalityType DEF Entries
  <2> HIDE DEF n
  <2>3. \A i \in 1 .. n : Insert(Dash(dashItems[order[i]])) \in Steps
    BY StepForms, RuleCases DEF Entries
  <2> DEFINE f == [i \in DOMAIN order |-> Insert(Dash(dashItems[order[i]]))]
  <2>4. f \in Seq(Steps)
    BY <2>2, <2>3
  <2>5. cmds' \in Seq(Steps)
    <3>1. cmds' = cmds \o f
      BY <2>1
    <3> HIDE DEF f
    <3>2. QED
      BY <2>4, <3>1
  <2>6. dashItems' \in [Dpus -> Ports \cup {None}] /\ upc' = "run"
    BY <1>15 DEF DashDone, NoMap
  <2>7. QED
    BY <1>15, <2>5, <2>6 DEF DashDone, db, queues, attrs, bounds
<1>16. ASSUME DashRaises PROVE TypeOK'
  <2>1. dpuQ' \in Seq(Dpus \X {"set", "del"})
    BY <1>16, ReplayTyped DEF DashRaises
  <2>2. vxlanQ' \in Seq({"set", "del"}) /\ bfdQ' \in BOOLEAN
    <3>1. (vxlanQ' = <<>> \/ vxlanQ' = <<"set">>) /\ bfdQ' = bfdRow
      BY <1>16 DEF DashRaises
    <3>2. <<>> \in Seq({"set", "del"}) /\ <<"set">> \in Seq({"set", "del"})
      OBVIOUS
    <3>3. QED
      BY <3>1, <3>2
  <2>3. dashHaPortMap' \in [Dpus -> Ports \cup {None}] /\ dashItems' \in [Dpus -> Ports \cup {None}]
    BY <1>16 DEF DashRaises, NoMap
  <2>6. chain' \in [Rules -> Nat]
    <3>1. Apply(<<"append", Lo>>, chain) \in [Rules -> Nat]
      BY StepForms, ApplyType
    <3>2. QED
      BY <1>16, <3>1, BootedType DEF DashRaises
  <2>7. changes' \in 0 .. MaxChanges /\ chainFaults' \in 0 .. MaxChainFaults /\ cmdFailed' \in BOOLEAN
    BY <1>0, <1>16 DEF DashRaises
  <2>4. mainCmds' \in Seq(Steps) /\ cmds' \in Seq(Steps) /\ upc' = "idle" /\ raced' = "never"
    BY <1>16 DEF DashRaises
  <2>5. QED
    BY <1>16, <2>1, <2>2, <2>3, <2>4, <2>6, <2>7 DEF DashRaises, db
<1>17. ASSUME RunCommand PROVE TypeOK'
  <2>1. Head(cmds) \in Steps /\ cmds' \in Seq(Steps)
    BY <1>17, SeqParts DEF RunCommand
  <2>2. chain' \in [Rules -> Nat]
    BY <1>17, <2>1, ApplyType DEF RunCommand
  <2>3. QED
    BY <1>17, <2>1, <2>2 DEF RunCommand, db, queues, attrs, bounds
<1>22. ASSUME RunCommandFails PROVE TypeOK'
  <2>1. CommandFails /\ cmds' \in Seq(Steps)
    BY <1>22, SeqParts DEF RunCommandFails
  <2>2. QED
    BY <1>0, <1>22, <2>1 DEF RunCommandFails, db, queues, attrs
<1>18. ASSUME EndUpdate PROVE TypeOK'
  BY <1>18 DEF EndUpdate, db, queues, attrs, bounds
<1>19. CASE UNCHANGED vars
  BY <1>19 DEF vars, db, queues, attrs, thread, bounds
<1>20. QED
  BY <1>1, <1>2, <1>3, <1>4, <1>5, <1>6, <1>7, <1>8, <1>9, <1>10, <1>11, <1>12, <1>13, <1>14, <1>15,
     <1>16, <1>17, <1>18, <1>19, <1>21, <1>22 DEF Next, Db, Handler, Update

-----------------------------------------------------------------------------
(* The steps of a handler.                                                 *)

\* The parts of a step.
LEMMA OpParts ==
  /\ \A r : Insert(r)[1] = "insert" /\ Insert(r)[2] = r
  /\ \A r : Delete(r)[1] = "delete" /\ Delete(r)[2] = r
  /\ \A a : Assign(a)[1] = a
  /\ \A d : Forget(d)[1] = "pop" /\ Forget(d)[2] = d
  /\ \A d, p : Learn(d, p)[1] = "map" /\ Learn(d, p)[2] = d /\ Learn(d, p)[3] = p
  BY DEF Insert, Delete, Assign, Forget, Learn

\* The first, the last and the rest of one step,
LEMMA OneLeft ==
  ASSUME NEW q, NEW a, q = <<a>>
  PROVE  q # <<>> /\ Head(q) = a /\ Tail(q) = <<>> /\ q[Len(q)] = a
  OBVIOUS

\* of two,
LEMMA TwoLeft ==
  ASSUME NEW q, NEW a, NEW b, q = <<a, b>>
  PROVE  q # <<>> /\ Head(q) = a /\ Tail(q) = <<b>> /\ q[Len(q)] = b
  OBVIOUS

\* and of three.
LEMMA ThreeLeft ==
  ASSUME NEW q, NEW a, NEW b, NEW c, q = <<a, b, c>>
  PROVE  q # <<>> /\ Head(q) = a /\ Tail(q) = <<b, c>> /\ q[Len(q)] = c
  OBVIOUS

\* The chain of the attributes is typed.
LEMMA WType ==
  /\ \A r \in Rules : W[r] \in Nat
  /\ W[Lo] = 1
  BY WantParts, PlainParts, RuleCases DEF W

\* What each step does: it inserts a rule,
LEMMA StepInsert ==
  ASSUME TypeOK, MainStep, NEW r \in Rules, Head(mainCmds) = Insert(r), chain[Lo] > 0
  PROVE  /\ UNCHANGED attrs
         /\ chain'[r] = chain[r] + 1
         /\ \A s \in Rules : s # r => chain'[s] = chain[s]
<1>1. Head(mainCmds)[1] = "insert" /\ Head(mainCmds)[2] = r
  BY OpParts
<1>2. chain' = [chain EXCEPT ![r] = @ + 1]
  BY <1>1 DEF MainStep, Apply
<1>3. UNCHANGED attrs
  BY <1>1 DEF MainStep, attrs, TypeOK
<1>4. QED
  BY <1>2, <1>3 DEF TypeOK

\* deletes one,
LEMMA StepDelete ==
  ASSUME TypeOK, MainStep, NEW r \in Rules, Head(mainCmds) = Delete(r), chain[r] > 0
  PROVE  /\ UNCHANGED attrs
         /\ chain'[r] = chain[r] - 1
         /\ \A s \in Rules : s # r => chain'[s] = chain[s]
<1>1. Head(mainCmds)[1] = "delete" /\ Head(mainCmds)[2] = r
  BY OpParts
<1>2. chain' = [chain EXCEPT ![r] = @ - 1]
  BY <1>1 DEF MainStep, Apply
<1>3. UNCHANGED attrs
  BY <1>1 DEF MainStep, attrs, TypeOK
<1>4. QED
  BY <1>2, <1>3 DEF TypeOK

\* sets a flag,
LEMMA StepBfdAllowed ==
  ASSUME TypeOK, MainStep, Head(mainCmds) = Assign("bfdAllowed")
  PROVE  /\ chain' = chain /\ dashHaPortMap' = dashHaPortMap
         /\ bfdAllowed' = TRUE /\ bfdSubscribed' = FALSE
         /\ vxlanAllowed' = vxlanAllowed /\ vxlanSrcIP' = vxlanSrcIP
<1>1. Head(mainCmds)[1] = "bfdAllowed"
  BY OpParts
<1>2. chain' = chain
  BY <1>1 DEF MainStep, Apply
<1>3. dashHaPortMap' = dashHaPortMap /\ bfdAllowed' = TRUE /\ bfdSubscribed' = FALSE /\ vxlanAllowed' = vxlanAllowed /\ vxlanSrcIP' = vxlanSrcIP
  BY <1>1 DEF MainStep, TypeOK
<1>4. QED
  BY <1>2, <1>3

\* another one,
LEMMA StepVxlanAllowed ==
  ASSUME TypeOK, MainStep, Head(mainCmds) = Assign("vxlanAllowed")
  PROVE  /\ chain' = chain /\ dashHaPortMap' = dashHaPortMap
         /\ UNCHANGED <<bfdAllowed, bfdSubscribed, vxlanSrcIP>>
         /\ vxlanAllowed' = TRUE
<1>1. Head(mainCmds)[1] = "vxlanAllowed"
  BY OpParts
<1>2. chain' = chain
  BY <1>1 DEF MainStep, Apply
<1>3. dashHaPortMap' = dashHaPortMap /\ UNCHANGED <<bfdAllowed, bfdSubscribed, vxlanSrcIP>> /\ vxlanAllowed' = TRUE
  BY <1>1 DEF MainStep, TypeOK
<1>4. QED
  BY <1>2, <1>3

\* resets it,
LEMMA StepVxlanBlocked ==
  ASSUME TypeOK, MainStep, Head(mainCmds) = Assign("vxlanBlocked")
  PROVE  /\ chain' = chain /\ dashHaPortMap' = dashHaPortMap
         /\ UNCHANGED <<bfdAllowed, bfdSubscribed, vxlanSrcIP>>
         /\ vxlanAllowed' = FALSE
<1>1. Head(mainCmds)[1] = "vxlanBlocked"
  BY OpParts
<1>2. chain' = chain
  BY <1>1 DEF MainStep, Apply
<1>3. dashHaPortMap' = dashHaPortMap /\ UNCHANGED <<bfdAllowed, bfdSubscribed, vxlanSrcIP>> /\ vxlanAllowed' = FALSE
  BY <1>1 DEF MainStep, TypeOK
<1>4. QED
  BY <1>2, <1>3

\* forgets the address,
LEMMA StepVxlanNoIP ==
  ASSUME TypeOK, MainStep, Head(mainCmds) = Assign("vxlanNoIP")
  PROVE  /\ chain' = chain /\ dashHaPortMap' = dashHaPortMap
         /\ UNCHANGED <<bfdAllowed, bfdSubscribed, vxlanAllowed>>
         /\ vxlanSrcIP' = None
<1>1. Head(mainCmds)[1] = "vxlanNoIP"
  BY OpParts
<1>2. chain' = chain
  BY <1>1 DEF MainStep, Apply
<1>3. dashHaPortMap' = dashHaPortMap /\ UNCHANGED <<bfdAllowed, bfdSubscribed, vxlanAllowed>> /\ vxlanSrcIP' = None
  BY <1>1 DEF MainStep, TypeOK
<1>4. QED
  BY <1>2, <1>3

\* or changes the map.
LEMMA StepMap ==
  ASSUME TypeOK, MainStep, NEW d \in Dpus, NEW new,
         \/ Head(mainCmds) = Forget(d) /\ new = None
         \/ Head(mainCmds) = Learn(d, new)
  PROVE  /\ chain' = chain
         /\ UNCHANGED <<bfdAllowed, bfdSubscribed, vxlanAllowed, vxlanSrcIP>>
         /\ dashHaPortMap' = Moved(dashHaPortMap, d, new)
<1>1. \/ Head(mainCmds)[1] = "pop" /\ Head(mainCmds)[2] = d /\ new = None
      \/ Head(mainCmds)[1] = "map" /\ Head(mainCmds)[2] = d /\ Head(mainCmds)[3] = new
  BY OpParts
<1>2. chain' = chain
  BY <1>1 DEF MainStep, Apply
<1>3. UNCHANGED <<bfdAllowed, bfdSubscribed, vxlanAllowed, vxlanSrcIP>>
  BY <1>1 DEF MainStep, TypeOK
<1>4. dashHaPortMap' = Moved(dashHaPortMap, d, new)
  BY <1>1 DEF MainStep, Moved
<1>5. QED
  BY <1>2, <1>3, <1>4

\* A change of the map moves one rule to another port.
LEMMA Mapped ==
  ASSUME TypeOK, NEW d \in Dpus, dashHaPortMap[d] # None
  PROVE  Dash(dashHaPortMap[d]) \in Rules /\ W[Dash(dashHaPortMap[d])] > 0
<1> DEFINE p == dashHaPortMap[d]
           K == {e \in Dpus : dashHaPortMap[e] = p}
<1>1. p \in Ports /\ Dash(p) \in Rules
  BY RuleCases DEF TypeOK
<1>2. W[Dash(p)] = Cardinality(K)
  BY <1>1, WantParts, PlainParts DEF W, Holders
<1>3. IsFiniteSet(K) /\ d \in K
  BY HoldersType
<1>4. Cardinality(K) \in Nat /\ Cardinality(K) # 0
  BY <1>3, FS_CardinalityType, FS_EmptySet
<1>5. QED
  BY <1>1, <1>2, <1>4

\* After the first step of a handler the chain is one command ahead.
LEMMA FreshStep ==
  ASSUME TypeOK, TypeOK', Fresh, Ahead({}, {}), MainStep, ~cmdFailed
  PROVE  Begun'
<1> USE DEF Ahead
<1>0. /\ \A r \in Rules : chain[r] = W[r] /\ W[r] \in Nat
      /\ chain[Lo] > 0
      /\ mainCmds # <<>> /\ mainCmds' = Tail(mainCmds)
  BY WType, RuleCases DEF MainStep, MainIdle
<1>1. ASSUME UNCHANGED attrs PROVE W' = W
  BY <1>1 DEF attrs, W, Plain
<1>2. CASE ~bfdAllowed /\ mainCmds = <<Insert(Bfd), Assign("bfdAllowed")>>
  <2>1. Head(mainCmds) = Insert(Bfd) /\ mainCmds' = <<Assign("bfdAllowed")>>
    BY <1>0, <1>2, TwoLeft
  <2>2. /\ UNCHANGED attrs /\ chain'[Bfd] = chain[Bfd] + 1
        /\ \A s \in Rules : s # Bfd => chain'[s] = chain[s]
    BY <1>0, <2>1, StepInsert, RuleCases
  <2>3. Ahead({Bfd}, {})'
    BY <1>0, <1>1, <2>2
  <2>4. ~bfdAllowed'
    BY <1>2, <2>2 DEF attrs
  <2>5. QED
    BY <2>1, <2>3, <2>4 DEF Begun
<1>3. CASE /\ ~vxlanAllowed /\ vxlanSrcIP # None
           /\ mainCmds = <<Insert(Vxlan(vxlanSrcIP)), Assign("vxlanAllowed")>>
  <2> DEFINE v == Vxlan(vxlanSrcIP)
  <2>0. v \in Rules
    BY <1>3, RuleCases DEF TypeOK
  <2>1. Head(mainCmds) = Insert(v) /\ mainCmds' = <<Assign("vxlanAllowed")>>
    BY <1>0, <1>3, TwoLeft
  <2>2. /\ UNCHANGED attrs /\ chain'[v] = chain[v] + 1
        /\ \A s \in Rules : s # v => chain'[s] = chain[s]
    BY <1>0, <2>0, <2>1, StepInsert
  <2>3. ~vxlanAllowed' /\ vxlanSrcIP' = vxlanSrcIP
    BY <1>3, <2>2 DEF attrs
  <2>4. Ahead({Vxlan(vxlanSrcIP)}, {})'
    BY <1>0, <1>1, <2>2, <2>3
  <2>5. QED
    BY <1>3, <2>1, <2>3, <2>4 DEF Begun
<1>4. CASE /\ vxlanAllowed /\ vxlanSrcIP # None
           /\ mainCmds = <<Delete(Vxlan(vxlanSrcIP)), Assign("vxlanBlocked"), Assign("vxlanNoIP")>>
  <2> DEFINE v == Vxlan(vxlanSrcIP)
  <2>0. v \in Rules /\ chain[v] > 0
    <3>1. vxlanSrcIP \in Ips
      BY <1>4 DEF TypeOK
    <3>2. W[v] = 1
      BY <1>4, <3>1, WantParts, PlainParts, RuleCases DEF W
    <3>3. QED
      BY <1>0, <3>1, <3>2, RuleCases
  <2>1. Head(mainCmds) = Delete(v) /\ mainCmds' = <<Assign("vxlanBlocked"), Assign("vxlanNoIP")>>
    BY <1>0, <1>4, ThreeLeft
  <2>2. /\ UNCHANGED attrs /\ chain'[v] = chain[v] - 1
        /\ \A s \in Rules : s # v => chain'[s] = chain[s]
    BY <2>0, <2>1, StepDelete
  <2>3. vxlanAllowed' /\ vxlanSrcIP' = vxlanSrcIP
    BY <1>4, <2>2 DEF attrs
  <2>4. Ahead({}, {Vxlan(vxlanSrcIP)})'
    BY <1>0, <1>1, <2>2, <2>3
  <2>5. QED
    BY <1>4, <2>1, <2>3, <2>4 DEF Begun
<1>5. ASSUME NEW d \in Dpus, NEW p \in Ports, dashHaPortMap[d] = None,
             mainCmds = <<Insert(Dash(p)), Learn(d, p)>>
      PROVE  Begun'
  <2>0. Dash(p) \in Rules /\ p # None /\ Dash(None) \notin Rules
    BY RuleCases, NotRules, ChainAssumption
  <2>1. Head(mainCmds) = Insert(Dash(p)) /\ mainCmds' = <<Learn(d, p)>>
    BY <1>0, <1>5, TwoLeft
  <2>2. /\ UNCHANGED attrs /\ chain'[Dash(p)] = chain[Dash(p)] + 1
        /\ \A s \in Rules : s # Dash(p) => chain'[s] = chain[s]
    BY <1>0, <2>0, <2>1, StepInsert
  <2>3. dashHaPortMap'[d] # p /\ dashHaPortMap'[d] = None
    BY <1>5, <2>0, <2>2 DEF attrs
  <2>4. Ahead({Dash(p)}, {Dash(dashHaPortMap[d])})'
    BY <1>0, <1>1, <2>0, <2>2, <2>3
  <2>5. QED
    BY <2>1, <2>3, <2>4 DEF Begun
<1>6. ASSUME NEW d \in Dpus, NEW p \in Ports, dashHaPortMap[d] \notin {None, p},
             mainCmds = <<Delete(Dash(dashHaPortMap[d])), Insert(Dash(p)), Learn(d, p)>>
      PROVE  Begun'
  <2> DEFINE o == Dash(dashHaPortMap[d])
  <2>0. o \in Rules /\ chain[o] > 0
    BY <1>0, <1>6, Mapped
  <2>1. Head(mainCmds) = Delete(o) /\ mainCmds' = <<Insert(Dash(p)), Learn(d, p)>>
    BY <1>0, <1>6, ThreeLeft
  <2>2. /\ UNCHANGED attrs /\ chain'[o] = chain[o] - 1
        /\ \A s \in Rules : s # o => chain'[s] = chain[s]
    BY <2>0, <2>1, StepDelete
  <2>3. dashHaPortMap' = dashHaPortMap
    BY <2>2 DEF attrs
  <2>4. Ahead({}, {Dash(dashHaPortMap[d])})'
    BY <1>0, <1>1, <2>2, <2>3
  <2>5. QED
    BY <1>6, <2>1, <2>3, <2>4 DEF Begun
<1>7. ASSUME NEW d \in Dpus, dashHaPortMap[d] # None,
             mainCmds = <<Delete(Dash(dashHaPortMap[d])), Forget(d)>>
      PROVE  Begun'
  <2> DEFINE o == Dash(dashHaPortMap[d])
  <2>0. o \in Rules /\ chain[o] > 0
    BY <1>0, <1>7, Mapped
  <2>1. Head(mainCmds) = Delete(o) /\ mainCmds' = <<Forget(d)>>
    BY <1>0, <1>7, TwoLeft
  <2>2. /\ UNCHANGED attrs /\ chain'[o] = chain[o] - 1
        /\ \A s \in Rules : s # o => chain'[s] = chain[s]
    BY <2>0, <2>1, StepDelete
  <2>3. dashHaPortMap' = dashHaPortMap
    BY <2>2 DEF attrs
  <2>4. Ahead({}, {Dash(dashHaPortMap[d])})'
    BY <1>0, <1>1, <2>2, <2>3
  <2>5. QED
    BY <1>7, <2>1, <2>3, <2>4 DEF Begun
<1>8. QED
  BY <1>0, <1>2, <1>3, <1>4, <1>5, <1>6, <1>7 DEF Fresh

\* After a later one it is ahead, or done.
LEMMA BegunStep ==
  ASSUME TypeOK, TypeOK', Begun, MainStep, ~cmdFailed
  PROVE  Begun' \/ (mainCmds' = <<>> /\ Ahead({}, {})')
<1> USE DEF Ahead
<1>0. /\ \A r \in Rules : W[r] \in Nat
      /\ mainCmds' = Tail(mainCmds)
  BY WType DEF MainStep
<1>1. CASE /\ ~bfdAllowed
           /\ mainCmds = <<Assign("bfdAllowed")>>
           /\ Ahead({Bfd}, {})
  <2>1. Head(mainCmds) = Assign("bfdAllowed") /\ mainCmds' = <<>>
    BY <1>0, <1>1, OneLeft
  <2>2. /\ chain' = chain /\ bfdAllowed' = TRUE
        /\ vxlanAllowed' = vxlanAllowed /\ vxlanSrcIP' = vxlanSrcIP
        /\ dashHaPortMap' = dashHaPortMap
    BY <2>1, StepBfdAllowed
  <2>4. Plain' = Plain \cup {Bfd} /\ W' = Want(Plain', dashHaPortMap)
    BY <2>2 DEF W, Plain
  <2>5. \A r \in Rules : W'[r] = W[r] + (IF r = Bfd THEN 1 ELSE 0)
    BY <1>1, <2>4, WantMore, PlainParts, RuleCases DEF W
  <2>6. Ahead({}, {})'
    BY <1>0, <1>1, <2>2, <2>5
  <2>7. QED
    BY <2>1, <2>6
<1>2. CASE /\ ~vxlanAllowed /\ vxlanSrcIP # None
           /\ mainCmds = <<Assign("vxlanAllowed")>>
           /\ Ahead({Vxlan(vxlanSrcIP)}, {})
  <2>1. Head(mainCmds) = Assign("vxlanAllowed") /\ mainCmds' = <<>>
    BY <1>0, <1>2, OneLeft
  <2>2. /\ chain' = chain /\ bfdAllowed' = bfdAllowed
        /\ vxlanAllowed' = TRUE /\ vxlanSrcIP' = vxlanSrcIP
        /\ dashHaPortMap' = dashHaPortMap
    BY <2>1, StepVxlanAllowed
  <2>3. vxlanSrcIP \in Ips
    BY <1>2 DEF TypeOK
  <2>4. Plain' = Plain \cup {Vxlan(vxlanSrcIP)} /\ W' = Want(Plain', dashHaPortMap)
    BY <2>2 DEF W, Plain
  <2>5. \A r \in Rules : W'[r] = W[r] + (IF r = Vxlan(vxlanSrcIP) THEN 1 ELSE 0)
    BY <1>2, <2>3, <2>4, WantMore, PlainParts, RuleCases DEF W
  <2>6. Ahead({}, {})'
    BY <1>0, <1>2, <2>2, <2>5
  <2>7. QED
    BY <2>1, <2>6
<1>3. CASE /\ vxlanAllowed /\ vxlanSrcIP # None
           /\ mainCmds = <<Assign("vxlanBlocked"), Assign("vxlanNoIP")>>
           /\ Ahead({}, {Vxlan(vxlanSrcIP)})
  <2>1. Head(mainCmds) = Assign("vxlanBlocked") /\ mainCmds' = <<Assign("vxlanNoIP")>>
    BY <1>0, <1>3, TwoLeft
  <2>2. /\ chain' = chain /\ bfdAllowed' = bfdAllowed
        /\ vxlanAllowed' = FALSE /\ vxlanSrcIP' = vxlanSrcIP
        /\ dashHaPortMap' = dashHaPortMap
    BY <2>1, StepVxlanBlocked
  <2>3. vxlanSrcIP \in Ips
    BY <1>3 DEF TypeOK
  <2>4. /\ Plain = Plain' \cup {Vxlan(vxlanSrcIP)} /\ Vxlan(vxlanSrcIP) \notin Plain'
        /\ W' = Want(Plain', dashHaPortMap)
    BY <1>3, <2>2, RuleCases DEF W, Plain
  <2>5. \A r \in Rules : W[r] = W'[r] + (IF r = Vxlan(vxlanSrcIP) THEN 1 ELSE 0) /\ W'[r] \in Nat
    BY <2>3, <2>4, WantMore, WantParts, RuleCases DEF W
  <2>6. Ahead({}, {})'
    BY <1>0, <1>3, <2>2, <2>5
  <2>7. QED
    BY <2>1, <2>2, <2>6 DEF Begun
<1>4. CASE /\ ~vxlanAllowed
           /\ mainCmds = <<Assign("vxlanNoIP")>>
           /\ Ahead({}, {})
  <2>1. Head(mainCmds) = Assign("vxlanNoIP") /\ mainCmds' = <<>>
    BY <1>0, <1>4, OneLeft
  <2>2. /\ chain' = chain /\ bfdAllowed' = bfdAllowed
        /\ vxlanAllowed' = vxlanAllowed /\ vxlanSrcIP' = None
        /\ dashHaPortMap' = dashHaPortMap
    BY <2>1, StepVxlanNoIP
  <2>5. Plain' = Plain /\ W' = W
    BY <1>4, <2>2 DEF W, Plain
  <2>6. Ahead({}, {})'
    BY <1>0, <1>4, <2>2, <2>5
  <2>7. QED
    BY <2>1, <2>6
<1>5. ASSUME NEW d \in Dpus, NEW p \in Ports, dashHaPortMap[d] \notin {None, p},
             mainCmds = <<Insert(Dash(p)), Learn(d, p)>>,
             Ahead({}, {Dash(dashHaPortMap[d])})
      PROVE  Begun'
  <2>0. Dash(p) \in Rules /\ Dash(p) # Dash(dashHaPortMap[d]) /\ Lo \in Rules /\ Lo # Dash(dashHaPortMap[d])
    BY <1>5, RuleCases
  <2>1. Head(mainCmds) = Insert(Dash(p)) /\ mainCmds' = <<Learn(d, p)>>
    BY <1>0, <1>5, TwoLeft
  <2>2. chain[Lo] > 0
    BY <1>0, <1>5, <2>0, WType
  <2>3. /\ UNCHANGED attrs /\ chain'[Dash(p)] = chain[Dash(p)] + 1
        /\ \A s \in Rules : s # Dash(p) => chain'[s] = chain[s]
    BY <2>0, <2>1, <2>2, StepInsert
  <2>4. dashHaPortMap' = dashHaPortMap /\ W' = W
    BY <2>3 DEF attrs, W, Plain
  <2>5. Ahead({Dash(p)}, {Dash(dashHaPortMap[d])})'
    BY <1>0, <1>5, <2>0, <2>3, <2>4
  <2>6. QED
    BY <1>5, <2>1, <2>4, <2>5 DEF Begun
<1>6. ASSUME NEW d \in Dpus, NEW new \in Ports \cup {None}, dashHaPortMap[d] # new,
             \/ mainCmds = <<Forget(d)>> /\ new = None
             \/ mainCmds = <<Learn(d, new)>>,
             \A r \in Rules : chain[r] = W[r] + (IF r = Dash(new) THEN 1 ELSE 0)
                                              - (IF r = Dash(dashHaPortMap[d]) THEN 1 ELSE 0)
      PROVE  mainCmds' = <<>> /\ Ahead({}, {})'
  <2>1. /\ mainCmds' = <<>>
        /\ \/ Head(mainCmds) = Forget(d) /\ new = None
           \/ Head(mainCmds) = Learn(d, new)
    BY <1>0, <1>6, OneLeft
  <2>2. /\ chain' = chain
        /\ UNCHANGED <<bfdAllowed, bfdSubscribed, vxlanAllowed, vxlanSrcIP>>
        /\ dashHaPortMap' = Moved(dashHaPortMap, d, new)
    BY <2>1, StepMap
  <2>3. W' = Want(Plain, Moved(dashHaPortMap, d, new))
    BY <2>2 DEF W, Plain
  <2>4. \A r \in Rules : W'[r] = W[r] + (IF r = Dash(new) THEN 1 ELSE 0)
                                      - (IF r = Dash(dashHaPortMap[d]) THEN 1 ELSE 0)
    <3>1. dashHaPortMap \in [Dpus -> Ports \cup {None}] /\ new # dashHaPortMap[d]
      BY <1>6 DEF TypeOK
    <3>2. \A r \in Rules :
            Want(Plain, Moved(dashHaPortMap, d, new))[r] =
              Want(Plain, dashHaPortMap)[r]
                + (IF r = Dash(new) THEN 1 ELSE 0) - (IF r = Dash(dashHaPortMap[d]) THEN 1 ELSE 0)
      BY <3>1, WantMoved, PlainParts
    <3>3. QED
      BY <2>3, <3>2 DEF W
  <2>5. Ahead({}, {})'
    BY <1>0, <1>6, <2>2, <2>4
  <2>6. QED
    BY <2>1, <2>5
<1>7. ASSUME NEW d \in Dpus, NEW p \in Ports, dashHaPortMap[d] # p,
             mainCmds = <<Learn(d, p)>>,
             Ahead({Dash(p)}, {Dash(dashHaPortMap[d])})
      PROVE  mainCmds' = <<>> /\ Ahead({}, {})'
  <2>1. \A r \in Rules : chain[r] = W[r] + (IF r = Dash(p) THEN 1 ELSE 0)
                                         - (IF r = Dash(dashHaPortMap[d]) THEN 1 ELSE 0)
    BY <1>7
  <2>2. p \in Ports \cup {None}
    OBVIOUS
  <2> HIDE DEF Ahead
  <2>3. QED
    BY <1>6, <1>7, <2>1, <2>2
<1>8. ASSUME NEW d \in Dpus, dashHaPortMap[d] # None,
             mainCmds = <<Forget(d)>>,
             Ahead({}, {Dash(dashHaPortMap[d])})
      PROVE  mainCmds' = <<>> /\ Ahead({}, {})'
  <2>1. \A r \in Rules : chain[r] = W[r] + (IF r = Dash(None) THEN 1 ELSE 0)
                                         - (IF r = Dash(dashHaPortMap[d]) THEN 1 ELSE 0)
    BY <1>0, <1>8, NotRules
  <2>2. None \in Ports \cup {None}
    OBVIOUS
  <2> HIDE DEF Ahead
  <2>3. QED
    BY <1>6, <1>8, <2>1, <2>2
<1> HIDE DEF Ahead
<1>9. QED
  BY <1>1, <1>2, <1>3, <1>4, <1>5, <1>7, <1>8 DEF Begun

\* A handler goes on after a command that fails.
LEMMA FailedStep ==
  ASSUME TypeOK, Fresh \/ Begun, (MainStep /\ cmdFailed) \/ MainStepFails
  PROVE  cmdFailed' /\ (Begun' \/ mainCmds' = <<>>)
<1>1. mainCmds # <<>> /\ mainCmds' = Tail(mainCmds) /\ cmdFailed'
  BY DEF MainStep, MainStepFails, MainIdle, CommandFails
<1>2. ASSUME NEW r, Head(mainCmds) = Insert(r) \/ Head(mainCmds) = Delete(r)
      PROVE  UNCHANGED <<bfdAllowed, vxlanAllowed, vxlanSrcIP, dashHaPortMap>>
  <2>1. Head(mainCmds)[1] = "insert" \/ Head(mainCmds)[1] = "delete"
    BY <1>2, OpParts
  <2>2. CASE MainStep
    BY <2>1, <2>2 DEF MainStep, TypeOK
  <2>3. CASE MainStepFails
    BY <2>3 DEF MainStepFails, attrs
  <2>4. QED
    BY <2>2, <2>3
<1>3. ASSUME NEW a, mainCmds = <<a>> PROVE mainCmds' = <<>>
  BY <1>1, <1>3, OneLeft
<1>4. ASSUME NEW r, NEW a, mainCmds = <<Insert(r), a>> \/ mainCmds = <<Delete(r), a>>
      PROVE  mainCmds' = <<a>> /\ UNCHANGED <<bfdAllowed, vxlanAllowed, vxlanSrcIP, dashHaPortMap>>
  BY <1>1, <1>2, <1>4, TwoLeft
<1>5. ASSUME NEW r, NEW a, NEW b, mainCmds = <<Delete(r), a, b>>
      PROVE  mainCmds' = <<a, b>> /\ UNCHANGED <<bfdAllowed, vxlanAllowed, vxlanSrcIP, dashHaPortMap>>
  BY <1>1, <1>2, <1>5, ThreeLeft
<1>6. CASE mainCmds = <<Assign("vxlanBlocked"), Assign("vxlanNoIP")>>
  <2>1. Head(mainCmds) = Assign("vxlanBlocked") /\ mainCmds' = <<Assign("vxlanNoIP")>>
    BY <1>1, <1>6, TwoLeft
  <2>2. MainStep
    BY <2>1, OpParts DEF MainStepFails
  <2>3. vxlanAllowed' = FALSE
    BY <2>1, <2>2, StepVxlanBlocked
  <2>4. QED
    BY <1>1, <2>1, <2>3 DEF Begun, Ahead
<1>7. ASSUME NEW d \in Dpus, NEW p \in Ports, dashHaPortMap[d] \notin {None, p},
             mainCmds = <<Delete(Dash(dashHaPortMap[d])), Insert(Dash(p)), Learn(d, p)>>
      PROVE  Begun'
  BY <1>1, <1>5, <1>7 DEF Begun, Ahead
<1>8. ASSUME NEW d \in Dpus, NEW p \in Ports, dashHaPortMap[d] # p,
             mainCmds = <<Insert(Dash(p)), Learn(d, p)>>
      PROVE  Begun'
  BY <1>1, <1>4, <1>8 DEF Begun, Ahead
<1>9. ASSUME NEW d \in Dpus, dashHaPortMap[d] # None,
             mainCmds = <<Delete(Dash(dashHaPortMap[d])), Forget(d)>>
      PROVE  Begun'
  BY <1>1, <1>4, <1>9 DEF Begun, Ahead
<1>10. CASE Fresh
  <2>1. CASE ~bfdAllowed /\ mainCmds = <<Insert(Bfd), Assign("bfdAllowed")>>
    BY <1>1, <1>4, <2>1 DEF Begun, Ahead
  <2>2. CASE /\ ~vxlanAllowed /\ vxlanSrcIP # None
             /\ mainCmds = <<Insert(Vxlan(vxlanSrcIP)), Assign("vxlanAllowed")>>
    BY <1>1, <1>4, <2>2 DEF Begun, Ahead
  <2>3. CASE /\ vxlanAllowed /\ vxlanSrcIP # None
             /\ mainCmds = <<Delete(Vxlan(vxlanSrcIP)), Assign("vxlanBlocked"), Assign("vxlanNoIP")>>
    BY <1>1, <1>5, <2>3 DEF Begun, Ahead
  <2>4. ASSUME NEW d \in Dpus, NEW p \in Ports, dashHaPortMap[d] = None,
               mainCmds = <<Insert(Dash(p)), Learn(d, p)>>
        PROVE  Begun'
    BY <1>8, <2>4, ChainAssumption
  <2>5. QED
    BY <1>1, <1>7, <1>9, <1>10, <2>1, <2>2, <2>3, <2>4 DEF Fresh
<1>11. CASE Begun
  BY <1>1, <1>3, <1>6, <1>8, <1>11 DEF Begun
<1>12. QED
  BY <1>1, <1>10, <1>11

\* The steps of two parts of a handler, one after the other.
LEMMA Joined ==
  ASSUME NEW x, NEW a, NEW b
  PROVE  <<>> \o <<a, b>> = <<a, b>> /\ <<x>> \o <<a, b>> = <<x, a, b>>
<1>1. \A S : \A s \in Seq(S) : <<>> \o s = s
  OBVIOUS
<1>2. <<a, b>> \in Seq({a, b})
  OBVIOUS
<1>3. <<>> \o <<a, b>> = <<a, b>>
  BY <1>1, <1>2, Zenon
<1>4. <<x>> \o <<a, b>> = <<x, a, b>>
  <2> DEFINE r == <<x>> \o <<a, b>>
  <2>1. <<x>> \in Seq({x, a, b}) /\ <<a, b>> \in Seq({x, a, b})
    OBVIOUS
  <2>2. r \in Seq({x, a, b}) /\ Len(r) = 3
    BY <2>1
  <2>3. r[1] = x /\ r[2] = a /\ r[3] = b
    BY <2>1
  <2> HIDE DEF r
  <2>4. r = <<x, a, b>>
    BY <2>2, <2>3
  <2>5. QED
    BY <2>4 DEF r
<1>5. QED
  BY <1>3, <1>4

\* A handler that pops a notification has its steps before it.
LEMMA PoppedFresh ==
  ASSUME TypeOK, TypeOK', PopBfd \/ PopVxlanSet \/ PopVxlanDel \/ PopDpu
  PROVE  /\ mainCmds = <<>> /\ Fresh' /\ W' = W
         /\ UNCHANGED <<thread, chain, raced, cmdFailed, bfdAllowed, bfdSubscribed, vxlanAllowed, dashHaPortMap>>
         /\ vxlanAllowed => vxlanSrcIP' = vxlanSrcIP
<1>1. CASE PopBfd
  <2>1. /\ mainCmds = <<>>
        /\ UNCHANGED <<thread, chain, raced, cmdFailed, bfdAllowed, bfdSubscribed, vxlanAllowed, vxlanSrcIP, dashHaPortMap>>
        /\ \/ mainCmds' = <<>>
           \/ ~bfdAllowed /\ mainCmds' = <<Insert(Bfd), Assign("bfdAllowed")>>
    BY <1>1 DEF PopBfd, MainIdle, Begin, Insert, Assign, attrs
  <2>2. W' = W
    BY <2>1 DEF W, Plain
  <2>3. QED
    BY <2>1, <2>2 DEF Fresh
<1>2. CASE PopVxlanSet
  <2>1. /\ mainCmds = <<>>
        /\ UNCHANGED <<thread, chain, raced, cmdFailed, bfdAllowed, bfdSubscribed, vxlanAllowed, dashHaPortMap>>
        /\ vxlanAllowed => vxlanSrcIP' = vxlanSrcIP
        /\ \/ mainCmds' = <<>>
           \/ /\ ~vxlanAllowed /\ vxlanSrcIP' # None
              /\ mainCmds' = <<Insert(Vxlan(vxlanSrcIP')), Assign("vxlanAllowed")>>
    BY <1>2 DEF PopVxlanSet, MainIdle, Begin, AllowVxlan, Insert, Assign
  <2>2. W' = W
    BY <2>1 DEF W, Plain
  <2>3. QED
    BY <2>1, <2>2 DEF Fresh
<1>3. CASE PopVxlanDel
  <2>1. /\ mainCmds = <<>>
        /\ UNCHANGED <<thread, chain, raced, cmdFailed, bfdAllowed, bfdSubscribed, vxlanAllowed, vxlanSrcIP, dashHaPortMap>>
        /\ \/ mainCmds' = <<>>
           \/ /\ vxlanAllowed /\ vxlanSrcIP # None
              /\ mainCmds' = <<Delete(Vxlan(vxlanSrcIP)), Assign("vxlanBlocked"), Assign("vxlanNoIP")>>
    BY <1>3 DEF PopVxlanDel, MainIdle, Begin, Delete, Assign, attrs
  <2>2. W' = W
    BY <2>1 DEF W, Plain
  <2>3. QED
    BY <2>1, <2>2 DEF Fresh
<1>4. CASE PopDpu
  <2> DEFINE d   == Head(dpuQ)[1]
             old == dashHaPortMap[d]
             new == dpuRow[d]
  <2>1. /\ mainCmds = <<>>
        /\ UNCHANGED <<thread, chain, raced, cmdFailed, bfdAllowed, bfdSubscribed, vxlanAllowed, vxlanSrcIP, dashHaPortMap>>
    BY <1>4 DEF PopDpu, MainIdle, attrs
  <2>2. d \in Dpus /\ Head(dpuQ)[2] \in {"set", "del"}
    <3>1. dpuQ \in Seq(Dpus \X {"set", "del"}) /\ dpuQ # <<>>
      BY <1>4 DEF PopDpu, TypeOK
    <3>2. Head(dpuQ) \in Dpus \X {"set", "del"}
      BY <3>1, SeqParts
    <3>3. QED
      BY <3>2
  <2>3. old \in Ports \cup {None} /\ new \in Ports \cup {None, Blank}
    BY <2>2 DEF TypeOK
  <2>4. \/ mainCmds' = DropPort(d, old)
        \/ mainCmds' = <<>>
        \/ new \notin {None, Blank, old} /\ mainCmds' = SetPort(d, old, new)
    BY <1>4, <2>2 DEF PopDpu, Begin
  <2>5. W' = W
    BY <2>1 DEF W, Plain
  <2>6. dashHaPortMap'[d] = old
    BY <2>1
  <2> HIDE DEF d, old, new
  <2>7. CASE mainCmds' = DropPort(d, old)
    <3>1. mainCmds' = <<>> \/ (old # None /\ mainCmds' = <<Delete(Dash(old)), Forget(d)>>)
      BY <2>7 DEF DropPort, Delete, Forget
    <3>2. Fresh'
      BY <2>2, <2>6, <3>1 DEF Fresh
    <3>3. QED
      BY <2>1, <2>5, <3>2
  <2>8. CASE new \notin {None, Blank, old} /\ mainCmds' = SetPort(d, old, new)
    <3>1. new \in Ports
      BY <2>3, <2>8
    <3>2. mainCmds' = (IF old = None THEN <<>> ELSE <<Delete(Dash(old))>>) \o <<Insert(Dash(new)), Learn(d, new)>>
      BY <2>8 DEF SetPort, Delete, Insert, Learn
    <3>3. \/ old = None /\ mainCmds' = <<Insert(Dash(new)), Learn(d, new)>>
          \/ old # None /\ mainCmds' = <<Delete(Dash(old)), Insert(Dash(new)), Learn(d, new)>>
      BY <3>2, Joined, Zenon
    <3>4. Fresh'
      BY <2>2, <2>6, <2>8, <3>1, <3>3 DEF Fresh
    <3>5. QED
      BY <2>1, <2>5, <3>4
  <2>9. CASE mainCmds' = <<>>
    BY <2>1, <2>5, <2>9 DEF Fresh
  <2>10. QED
    BY <2>4, <2>7, <2>8, <2>9
<1>5. QED
  BY <1>1, <1>2, <1>3, <1>4

-----------------------------------------------------------------------------
(* The steps of an update.                                                 *)

\* What leaves the attributes alone does not disturb an update.
LEMMA UpdateKept ==
  ASSUME BuildInv, RunInv, W' = W,
         UNCHANGED <<thread, chain, cmdFailed, bfdAllowed, vxlanAllowed, dashHaPortMap>>,
         vxlanAllowed => vxlanSrcIP' = vxlanSrcIP
  PROVE  BuildInv' /\ RunInv'
<1>1. ASSUME NEW r PROVE Seen(r)' = Seen(r)
  BY DEF Seen, thread
<1>2. BuildInv'
  BY <1>1 DEF BuildInv, thread
<1>3. RunInv'
  BY DEF RunInv, thread
<1>4. QED
  BY <1>2, <1>3

\* What an update does after its first two commands is to insert rules.
LEMMA InsertParts ==
  /\ \A r, s : Insert(r) = Insert(s) <=> r = s
  /\ \A r : Insert(r) # Flush /\ Insert(r) # First
  /\ \A r \in Rules : Insert(r) \in Inserts <=> r # Lo
  /\ \A x \in Inserts : \E r \in Rules \ {Lo} : x = Insert(r)
  BY DEF Insert, Flush, First, Inserts

\* One more rule that was read.
LEMMA BuildMore ==
  ASSUME cmds \in Seq(Steps), NEW s \in Rules \ {Lo}, cmds' = Append(cmds, Insert(s)),
         Len(cmds) >= 2, cmds[1] = Flush, cmds[2] = First,
         \A k \in DOMAIN cmds : k > 2 => cmds[k] \in Inserts
  PROVE  /\ Len(cmds') >= 2 /\ cmds'[1] = Flush /\ cmds'[2] = First
         /\ \A k \in DOMAIN cmds' : k > 2 => cmds'[k] \in Inserts
         /\ \A r \in Rules : Count(cmds', Insert(r)) = Count(cmds, Insert(r)) + (IF r = s THEN 1 ELSE 0)
<1>1. Insert(s) \in Steps /\ Insert(s) \in Inserts
  BY StepForms, InsertParts
<1>2. /\ Len(cmds) \in Nat /\ DOMAIN cmds = 1 .. Len(cmds) /\ DOMAIN cmds' = 1 .. Len(cmds) + 1
      /\ Len(cmds') = Len(cmds) + 1
      /\ cmds'[Len(cmds) + 1] = Insert(s) /\ \A k \in 1 .. Len(cmds) : cmds'[k] = cmds[k]
  BY <1>1
<1>3. /\ Len(cmds') >= 2 /\ cmds'[1] = Flush /\ cmds'[2] = First
      /\ \A k \in DOMAIN cmds' : k > 2 => cmds'[k] \in Inserts
  BY <1>1, <1>2
<1>4. ASSUME NEW r \in Rules
      PROVE  Count(cmds', Insert(r)) = Count(cmds, Insert(r)) + (IF r = s THEN 1 ELSE 0)
  <2>1. Count(Append(cmds, Insert(s)), Insert(r)) =
          Count(cmds, Insert(r)) + (IF Insert(s) = Insert(r) THEN 1 ELSE 0)
    BY <1>1, CountAppend
  <2>2. QED
    BY <2>1, InsertParts
<1>5. QED
  BY <1>3, <1>4

\* How often a rule is in the commands is a number.
LEMMA CountNat ==
  ASSUME cmds \in Seq(Steps)
  PROVE  \A c : Count(cmds, c) \in Nat
  BY CountType

\* Steps of an update: it starts,
LEMMA StartStep ==
  ASSUME TypeOK, StartUpdate
  PROVE  BuildInv' /\ RunInv'
<1>1. upc' = "bfd" /\ cmds' = <<Flush, First>>
  BY DEF StartUpdate, Flush, First
<1>2. Len(cmds') = 2 /\ cmds'[1] = Flush /\ cmds'[2] = First /\ DOMAIN cmds' = {1, 2}
  BY <1>1
<1>3. ASSUME NEW r PROVE Count(cmds', Insert(r)) = 0
  <2>1. {k \in DOMAIN cmds' : cmds'[k] = Insert(r)} = {}
    BY <1>2, InsertParts
  <2>2. QED
    BY <2>1, FS_EmptySet DEF Count
<1>4. ASSUME NEW r PROVE Seen(r)' = 0
  BY <1>1 DEF Seen
<1>5. QED
  BY <1>1, <1>2, <1>3, <1>4 DEF BuildInv, RunInv

\* reads whether BFD is allowed,
LEMMA ReadBfdStep ==
  ASSUME TypeOK, BuildInv, ReadBfd
  PROVE  BuildInv' /\ RunInv'
<1>1. /\ upc = "bfd" /\ upc' = "vxlan"
      /\ UNCHANGED <<bfdAllowed, vxlanAllowed, vxlanSrcIP>>
      /\ \/ ~bfdAllowed /\ cmds' = cmds
         \/ bfdAllowed /\ cmds' = Append(cmds, Insert(Bfd))
  BY DEF ReadBfd, attrs, Insert
<1>2. /\ Len(cmds) >= 2 /\ cmds[1] = Flush /\ cmds[2] = First
      /\ \A k \in DOMAIN cmds : k > 2 => cmds[k] \in Inserts
      /\ \A r \in Rules \ {Lo} : Count(cmds, Insert(r)) = Seen(r)
  BY <1>1 DEF BuildInv
<1>3. ASSUME NEW r PROVE Seen(r) = 0 /\ Seen(r)' = (IF r = Bfd /\ bfdAllowed THEN 1 ELSE 0)
  BY <1>1 DEF Seen
<1>4. Bfd \in Rules \ {Lo} /\ cmds \in Seq(Steps)
  BY RuleCases DEF TypeOK
<1>5. /\ Len(cmds') >= 2 /\ cmds'[1] = Flush /\ cmds'[2] = First
      /\ \A k \in DOMAIN cmds' : k > 2 => cmds'[k] \in Inserts
      /\ \A r \in Rules \ {Lo} : Count(cmds', Insert(r)) = Seen(r)'
  <2>1. CASE ~bfdAllowed /\ cmds' = cmds
    BY <1>2, <1>3, <2>1
  <2>2. CASE bfdAllowed /\ cmds' = Append(cmds, Insert(Bfd))
    BY <1>2, <1>3, <1>4, <2>2, BuildMore
  <2>3. QED
    BY <1>1, <2>1, <2>2
<1>6. QED
  BY <1>1, <1>5 DEF BuildInv, RunInv

\* whether a tunnel is, and the ports,
LEMMA ReadVxlanStep ==
  ASSUME TypeOK, BuildInv, ReadVxlan \/ ReadVxlanSrc \/ ReadDash
  PROVE  BuildInv' /\ RunInv'
<1>1. /\ UNCHANGED <<bfdAllowed, vxlanAllowed, vxlanSrcIP, dashHaPortMap, cmds>>
      /\ \/ upc = "vxlan" /\ upc' = "vxlanSrc" /\ vxlanAllowed
         \/ upc = "vxlan" /\ upc' = "dash" /\ ~vxlanAllowed
         \/ upc = "vxlanSrc" /\ upc' = "vxlanCmd" /\ fvs' = vxlanSrcIP
         \/ upc = "dash" /\ upc' = "dashEnd" /\ dashItems' = dashHaPortMap
  BY DEF ReadVxlan, ReadVxlanSrc, ReadDash, attrs
<1>2. ASSUME NEW r PROVE Seen(r)' = Seen(r)
  BY <1>1 DEF Seen
<1>3. QED
  BY <1>1, <1>2 DEF BuildInv, RunInv

\* makes the rule of the tunnel, whose address stays,
LEMMA VxlanCommandStep ==
  ASSUME TypeOK, BuildInv, VxlanCommand
  PROVE  BuildInv' /\ RunInv' /\ vxlanSrcIP' = vxlanSrcIP
<1>1. /\ upc = "vxlanCmd" /\ upc' = "dash" /\ vxlanSrcIP' = fvs
      /\ UNCHANGED <<bfdAllowed, vxlanAllowed>>
      /\ \/ fvs = None /\ cmds' = cmds
         \/ fvs # None /\ cmds' = Append(cmds, Insert(Vxlan(fvs)))
  BY DEF VxlanCommand, Insert
<1>2. /\ Len(cmds) >= 2 /\ cmds[1] = Flush /\ cmds[2] = First
      /\ \A k \in DOMAIN cmds : k > 2 => cmds[k] \in Inserts
      /\ \A r \in Rules \ {Lo} : Count(cmds, Insert(r)) = Seen(r)
      /\ vxlanAllowed /\ fvs = vxlanSrcIP
  BY <1>1 DEF BuildInv
<1>3. ASSUME NEW r \in Rules
      PROVE  /\ Seen(r) \in Nat
             /\ Seen(r)' = Seen(r) + (IF r = Vxlan(fvs) THEN 1 ELSE 0)
  BY <1>1, <1>2 DEF Seen
<1>4. cmds \in Seq(Steps) /\ fvs \in Ips \cup {None}
  BY DEF TypeOK
<1>5. /\ Len(cmds') >= 2 /\ cmds'[1] = Flush /\ cmds'[2] = First
      /\ \A k \in DOMAIN cmds' : k > 2 => cmds'[k] \in Inserts
      /\ \A r \in Rules \ {Lo} : Count(cmds', Insert(r)) = Seen(r)'
  <2>1. CASE fvs = None /\ cmds' = cmds
    BY <1>2, <1>3, <2>1, NotRules
  <2>2. CASE fvs # None /\ cmds' = Append(cmds, Insert(Vxlan(fvs)))
    <3>1. Vxlan(fvs) \in Rules \ {Lo}
      BY <1>4, <2>2, RuleCases
    <3>2. QED
      BY <1>2, <1>3, <1>4, <2>2, <3>1, BuildMore
  <2>3. QED
    BY <1>1, <2>1, <2>2
<1>6. QED
  BY <1>1, <1>2, <1>5 DEF BuildInv, RunInv

\* makes the rules of the ports, in any order,
LEMMA DashDoneStep ==
  ASSUME TypeOK, BuildInv, DashDone
  PROVE  BuildInv' /\ RunInv'
<1> DEFINE n == Cardinality(Entries(dashItems))
<1>1. /\ upc = "dashEnd" /\ upc' = "run"
      /\ UNCHANGED <<bfdAllowed, vxlanAllowed, vxlanSrcIP, dashHaPortMap>>
  BY DEF DashDone, attrs
<1>2. PICK order \in [1 .. n -> Entries(dashItems)] :
        /\ \A i, j \in DOMAIN order : i # j => order[i] # order[j]
        /\ cmds' = cmds \o [i \in 1 .. n |-> Insert(Dash(dashItems[order[i]]))]
  BY DEF DashDone, Insert
<1> DEFINE f == [i \in 1 .. n |-> Insert(Dash(dashItems[order[i]]))]
<1>3. /\ Len(cmds) >= 2 /\ cmds[1] = Flush /\ cmds[2] = First
      /\ \A k \in DOMAIN cmds : k > 2 => cmds[k] \in Inserts
      /\ \A r \in Rules \ {Lo} : Count(cmds, Insert(r)) = Seen(r)
      /\ dashItems = dashHaPortMap
  BY <1>1 DEF BuildInv
<1>4. cmds \in Seq(Steps) /\ dashHaPortMap \in [Dpus -> Ports \cup {None}]
  BY DEF TypeOK
<1>5. n \in Nat
  BY ChainAssumption, FS_Subset, FS_CardinalityType DEF Entries
<1>6. \A i \in 1 .. n : dashItems[order[i]] \in Ports
  BY <1>3, <1>4 DEF Entries
<1>7. f \in [1 .. n -> Steps] /\ \A i \in 1 .. n : f[i] \in Inserts
  BY <1>6, StepForms, RuleCases, InsertParts
<1>8. ASSUME NEW p \in Ports
      PROVE  Cardinality({i \in 1 .. n : dashItems[order[i]] = p}) = Holders(dashItems, p)
  <2>1. n = Cardinality(Entries(dashItems)) /\ dashItems \in [Dpus -> Ports \cup {None}]
    BY <1>3, <1>4
  <2>2. /\ order \in [1 .. n -> Entries(dashItems)]
        /\ \A i, j \in DOMAIN order : i # j => order[i] # order[j]
    BY <1>2
  <2> DEFINE map == dashItems
  <2> HIDE DEF n, f, map
  <2>3. /\ n = Cardinality(Entries(map)) /\ map \in [Dpus -> Ports \cup {None}]
        /\ order \in [1 .. n -> Entries(map)]
    BY <2>1, <2>2 DEF map
  <2>4. Placed(map, order, n, p) = Holders(map, p)
    BY <2>2, <2>3, OrderedHolders
  <2>5. QED
    BY <2>4 DEF map, Placed
<1>9. ASSUME NEW p \in Ports PROVE {i \in 1 .. n : f[i] = Insert(Dash(p))} = {i \in 1 .. n : dashItems[order[i]] = p}
  BY InsertParts, RuleCases
<1>10. ASSUME NEW r \in Rules, \A p \in Ports : r # Dash(p) PROVE {i \in 1 .. n : f[i] = Insert(r)} = {}
  BY <1>6, <1>10, InsertParts
<1> DEFINE Added(r) == Cardinality({i \in 1 .. n : f[i] = Insert(r)})
<1>11. \A r \in Rules : /\ \A p \in Ports : r = Dash(p) => Added(r) = Holders(dashHaPortMap, p)
                        /\ (\A p \in Ports : r # Dash(p)) => Added(r) = 0
  <2>1. ASSUME NEW p \in Ports PROVE Added(Dash(p)) = Holders(dashHaPortMap, p)
    <3>1. Added(Dash(p)) = Cardinality({i \in 1 .. n : dashItems[order[i]] = p})
      BY <1>9
    <3> HIDE DEF Added, n, f
    <3>2. QED
      BY <1>3, <1>8, <3>1
  <2>2. ASSUME NEW r \in Rules, \A p \in Ports : r # Dash(p) PROVE Added(r) = 0
    <3>1. Added(r) = Cardinality({})
      BY <1>10, <2>2
    <3> HIDE DEF Added
    <3>2. QED
      BY <3>1, FS_EmptySet
  <2> HIDE DEF Added
  <2>3. QED
    BY <2>1, <2>2
<1>12. /\ cmds' = cmds \o f /\ Len(cmds') = Len(cmds) + n /\ cmds' \in Seq(Steps)
       /\ \A k \in 1 .. Len(cmds) : cmds'[k] = cmds[k]
       /\ \A k \in 1 .. n : cmds'[Len(cmds) + k] = f[k]
       /\ \A r \in Rules : Count(cmds', Insert(r)) = Count(cmds, Insert(r)) + Added(r)
  <2>1. cmds' = cmds \o f
    BY <1>2
  <2> HIDE DEF f, n, Added
  <2>5. cmds \in Seq(Steps) /\ n \in Nat /\ f \in [1 .. n -> Steps]
    BY <1>4, <1>5, <1>7
  <2>2. /\ Len(cmds') = Len(cmds) + n /\ cmds' \in Seq(Steps)
        /\ \A k \in 1 .. Len(cmds) : cmds'[k] = cmds[k]
        /\ \A k \in 1 .. n : cmds'[Len(cmds) + k] = f[k]
    <3>1. /\ cmds \o f \in Seq(Steps) /\ Len(cmds \o f) = Len(cmds) + n
          /\ \A k \in 1 .. Len(cmds) : (cmds \o f)[k] = cmds[k]
          /\ \A k \in 1 .. n : (cmds \o f)[Len(cmds) + k] = f[k]
      <4>1. f \in Seq(Steps) /\ Len(f) = n
        BY <2>5
      <4>2. QED
        BY <2>5, <4>1
    <3>2. QED
      BY <2>1, <3>1
  <2>3. ASSUME NEW r \in Rules
        PROVE  Count(cmds', Insert(r)) = Count(cmds, Insert(r)) + Cardinality({i \in 1 .. n : f[i] = Insert(r)})
    <3> DEFINE c == Insert(r)
    <3> HIDE DEF c
    <3>1. Count(cmds \o f, c) = Count(cmds, c) + Cardinality({i \in 1 .. n : f[i] = c})
      BY <2>5, CountConcat, SMTT(30)
    <3>2. QED
      BY <2>1, <3>1 DEF c
  <2>4. QED
    BY <2>1, <2>2, <2>3 DEF Added
<1> HIDE DEF f, n, Added
<1>13. /\ Len(cmds') >= 2 /\ cmds'[1] = Flush /\ cmds'[2] = First
       /\ Len(cmds) \in Nat /\ DOMAIN cmds' = 1 .. Len(cmds) + n /\ DOMAIN cmds = 1 .. Len(cmds)
  BY <1>3, <1>4, <1>5, <1>12
<1>14. ASSUME NEW k \in DOMAIN cmds', k > 2 PROVE cmds'[k] \in Inserts
  <2>1. CASE k <= Len(cmds)
    BY <1>3, <1>12, <1>13, <1>14, <2>1
  <2>2. CASE k > Len(cmds)
    <3>1. k - Len(cmds) \in 1 .. n /\ k = Len(cmds) + (k - Len(cmds))
      BY <1>5, <1>13, <2>2
    <3>2. QED
      BY <1>7, <1>12, <3>1
  <2>3. QED
    BY <1>13, <2>1, <2>2
<1>15. ASSUME NEW r \in Rules \ {Lo} PROVE Seen(r) + Added(r) = W[r]
  <2>1. CASE \E p \in Ports : r = Dash(p)
    <3>1. PICK p \in Ports : r = Dash(p)
      BY <2>1
    <3>2. Seen(r) = 0
      BY <3>1, RuleCases DEF Seen
    <3>3. W[r] = Holders(dashHaPortMap, p) /\ Holders(dashHaPortMap, p) \in Nat
      BY <3>1, WantParts, PlainParts, HoldersType DEF W
    <3>4. QED
      BY <1>11, <3>1, <3>2, <3>3
  <2>2. CASE \A p \in Ports : r # Dash(p)
    <3>1. Added(r) = 0
      BY <1>11, <2>2
    <3>2. Seen(r) = IF r \in Plain THEN 1 ELSE 0
      BY <1>1, RuleCases DEF Seen, Plain
    <3>3. W[r] = IF r \in Plain THEN 1 ELSE 0
      BY <2>2, WantParts DEF W
    <3>4. QED
      BY <3>1, <3>2, <3>3
  <2>3. QED
    BY <2>1, <2>2
<1>16. W' = W
  BY <1>1 DEF W, Plain
<1>17. \A r \in Rules \ {Lo} : Count(cmds', Insert(r)) = W'[r]
  BY <1>3, <1>12, <1>15, <1>16
<1>18. QED
  BY <1>1, <1>13, <1>14, <1>17 DEF BuildInv, RunInv

\* runs a command,
LEMMA RunStep ==
  ASSUME TypeOK, TypeOK', RunInv, RunCommand
  PROVE  BuildInv' /\ RunInv'
<1>1. /\ upc = "run" /\ upc' = "run" /\ cmds # <<>> /\ cmds' = Tail(cmds)
      /\ chain' = Apply(Head(cmds), chain) /\ cmdFailed' = cmdFailed
      /\ UNCHANGED <<bfdAllowed, vxlanAllowed, vxlanSrcIP, dashHaPortMap>>
  BY DEF RunCommand, attrs
<1>2. W' = W
  BY <1>1 DEF W, Plain
<1>3. cmds \in Seq(Steps) /\ chain \in [Rules -> Nat] /\ cmds' \in Seq(Steps)
  BY DEF TypeOK
<1>4. /\ Head(cmds) = cmds[1] /\ Len(cmds) \in Nat \ {0} /\ Len(cmds') = Len(cmds) - 1
      /\ DOMAIN cmds = 1 .. Len(cmds) /\ DOMAIN cmds' = 1 .. Len(cmds) - 1
      /\ \A k \in 1 .. Len(cmds) - 1 : cmds'[k] = cmds[k + 1] /\ k + 1 \in 1 .. Len(cmds)
  BY <1>1, <1>3
<1>5. \A c : /\ Count(cmds, c) = Count(cmds', c) + (IF cmds[1] = c THEN 1 ELSE 0)
             /\ Count(cmds', c) \in Nat
  BY <1>1, <1>3, CountTail, CountType
<1>6. CASE /\ Len(cmds) >= 2 /\ cmds[1] = Flush /\ cmds[2] = First
           /\ \A k \in DOMAIN cmds : k > 2 => cmds[k] \in Inserts
           /\ \A r \in Rules \ {Lo} : Count(cmds, Insert(r)) = W[r]
  <2>1. chain' = Empty
    BY <1>1, <1>4, <1>6 DEF Apply, Flush
  <2>2. cmds' # <<>> /\ cmds'[1] = First
    BY <1>4, <1>6
  <2>3. \A k \in DOMAIN cmds' : k > 1 => cmds'[k] \in Inserts
    BY <1>4, <1>6
  <2>4. \A r \in Rules \ {Lo} : Count(cmds', Insert(r)) = W'[r]
    BY <1>2, <1>5, <1>6, InsertParts
  <2>5. QED
    BY <1>1, <2>1, <2>2, <2>3, <2>4 DEF BuildInv, RunInv
<1>7. CASE /\ cmds # <<>> /\ cmds[1] = First /\ chain = Empty
           /\ \A k \in DOMAIN cmds : k > 1 => cmds[k] \in Inserts
           /\ \A r \in Rules \ {Lo} : Count(cmds, Insert(r)) = W[r]
  <2>0. Head(cmds)[1] = "append" /\ Head(cmds)[2] = Lo
    BY <1>4, <1>7 DEF First
  <2>1. chain' = [chain EXCEPT ![Lo] = @ + 1]
    BY <1>1, <2>0 DEF Apply
  <2>2. chain'[Lo] = 1 /\ \A r \in Rules \ {Lo} : chain'[r] = 0
    BY <1>3, <1>7, <2>1, RuleCases DEF Empty
  <2>3. \A k \in DOMAIN cmds' : cmds'[k] \in Inserts
    BY <1>4, <1>7
  <2>4. \A r \in Rules \ {Lo} : chain'[r] + Count(cmds', Insert(r)) = W'[r]
    BY <1>2, <1>5, <1>7, <2>2, InsertParts
  <2>5. QED
    BY <1>1, <2>2, <2>3, <2>4 DEF BuildInv, RunInv
<1>8. CASE /\ chain[Lo] = 1
           /\ \A k \in DOMAIN cmds : cmds[k] \in Inserts
           /\ \A r \in Rules \ {Lo} : chain[r] + Count(cmds, Insert(r)) = W[r]
  <2>1. PICK s \in Rules \ {Lo} : cmds[1] = Insert(s)
    BY <1>4, <1>8, InsertParts
  <2>0. Head(cmds)[1] = "insert" /\ Head(cmds)[2] = s /\ chain[Lo] > 0
    BY <1>4, <1>8, <2>1, OpParts
  <2>2. chain' = [chain EXCEPT ![s] = @ + 1]
    BY <1>1, <2>0 DEF Apply
  <2>3. chain'[Lo] = 1
    BY <1>3, <1>8, <2>2
  <2>4. \A k \in DOMAIN cmds' : cmds'[k] \in Inserts
    BY <1>4, <1>8
  <2>5. ASSUME NEW r \in Rules \ {Lo} PROVE chain'[r] + Count(cmds', Insert(r)) = W'[r]
    <3>1. chain'[r] = chain[r] + (IF r = s THEN 1 ELSE 0) /\ chain[r] \in Nat
      BY <1>3, <2>2
    <3>2. Count(cmds, Insert(r)) = Count(cmds', Insert(r)) + (IF r = s THEN 1 ELSE 0)
      BY <1>5, <2>1, InsertParts
    <3>3. Count(cmds', Insert(r)) \in Nat
      BY <1>5
    <3>4. chain[r] + Count(cmds, Insert(r)) = W'[r]
      BY <1>2, <1>8
    <3>5. QED
      BY <3>1, <3>2, <3>3, <3>4
  <2>6. QED
    BY <1>1, <2>3, <2>4, <2>5 DEF BuildInv, RunInv
<1>10. CASE cmdFailed
  BY <1>1, <1>10 DEF BuildInv, RunInv
<1>9. QED
  BY <1>1, <1>6, <1>7, <1>8, <1>10 DEF RunInv

\* and has run them all.
LEMMA EndStep ==
  ASSUME TypeOK, RunInv, EndUpdate
  PROVE  BuildInv' /\ RunInv' /\ Ahead({}, {})'
<1>1. /\ upc = "run" /\ cmds = <<>> /\ upc' = "idle" /\ chain' = chain /\ cmdFailed' = cmdFailed
      /\ UNCHANGED <<bfdAllowed, vxlanAllowed, vxlanSrcIP, dashHaPortMap>>
  BY DEF EndUpdate, attrs
<1>2. W' = W
  BY <1>1 DEF W, Plain
<1>3. ~cmdFailed => /\ chain[Lo] = 1
                    /\ \A r \in Rules \ {Lo} : chain[r] + Count(cmds, Insert(r)) = W[r]
  BY <1>1 DEF RunInv
<1>4. \A c : Count(cmds, c) = 0
  <2>1. \A c : {k \in DOMAIN cmds : cmds[k] = c} = {}
    BY <1>1
  <2>2. QED
    BY <2>1, FS_EmptySet DEF Count
<1>5. ~cmdFailed => \A r \in Rules : chain'[r] = W'[r] /\ W'[r] \in Nat
  BY <1>1, <1>2, <1>3, <1>4, WType DEF TypeOK
<1>6. QED
  BY <1>1, <1>5 DEF BuildInv, RunInv, Ahead

\* The chain at the start is the one no attribute adds a rule to.
LEMMA BootedWanted ==
  ASSUME NEW S, S = {Lo}
  PROVE  \A r \in Rules : Booted[r] = Want(S, NoMap)[r] /\ Booted[r] \in Nat
<1>1. \A r \in Rules : Holds(r, NoMap) = 0
  <2>1. ASSUME NEW r \in Rules PROVE {d \in Dpus : r = Dash(NoMap[d])} = {}
    BY NotRules DEF NoMap
  <2>2. QED
    BY <2>1, FS_EmptySet DEF Holds
<1>2. \A r \in Rules : Booted[r] = IF r = Lo THEN 1 ELSE 0
  BY RuleCases DEF Booted, Empty
<1>3. QED
  BY <1>1, <1>2 DEF Want

\* What leaves attributes and chain alone does not disturb a handler.
LEMMA MainKept ==
  ASSUME MainInv, W' = W, UNCHANGED <<upc, chain, cmdFailed, mainCmds, attrs>>
  PROVE  MainInv'
<1>1. Fresh => Fresh'
  BY DEF Fresh, attrs
<1>3. Ahead({}, {}) => Ahead({}, {})'
  BY DEF Ahead
<1>4. Begun => Begun'
  BY DEF Begun, Ahead, attrs
<1>5. QED
  BY <1>1, <1>3, <1>4 DEF MainInv

\* Every step that does not overlap keeps handlers, updates and chain in step.
LEMMA SyncStep ==
  ASSUME TypeOK, TypeOK', raced # "now" => MainInv /\ BuildInv /\ RunInv,
         [Next]_vars, raced' # "now"
  PROVE  MainInv' /\ BuildInv' /\ RunInv'
<1>1. CASE UNCHANGED vars \/ Db
  <2>1. UNCHANGED <<attrs, mainCmds, thread, chain, raced, cmdFailed>>
    BY <1>1 DEF vars, Db, BfdSession, SetVxlan, SetDpu, DbStep
  <2>2. MainInv /\ BuildInv /\ RunInv
    BY <2>1
  <2>3. W' = W
    BY <2>1 DEF W, Plain, attrs
  <2>4. QED
    BY <2>1, <2>2, <2>3, MainKept, UpdateKept DEF thread, attrs
<1>2. CASE PopBfd \/ PopVxlanSet \/ PopVxlanDel \/ PopDpu
  <2>1. /\ mainCmds = <<>> /\ Fresh' /\ W' = W
        /\ UNCHANGED <<thread, chain, raced, cmdFailed, bfdAllowed, bfdSubscribed, vxlanAllowed, dashHaPortMap>>
        /\ vxlanAllowed => vxlanSrcIP' = vxlanSrcIP
    BY <1>2, PoppedFresh
  <2>2. MainInv /\ BuildInv /\ RunInv
    BY <2>1
  <2>3. ~Begun
    BY <2>1 DEF Begun
  <2>4. upc = "idle" => Ahead({}, {})
    BY <2>2, <2>3 DEF MainInv
  <2>5. upc' = "idle" => Ahead({}, {})'
    BY <2>1, <2>4 DEF Ahead, thread
  <2>6. QED
    BY <2>1, <2>2, <2>5, UpdateKept DEF MainInv
<1>3. CASE MainStep \/ MainStepFails
  <2>1. upc = "idle" /\ upc' = "idle" /\ raced # "now"
    BY <1>3 DEF MainStep, MainStepFails, thread
  <2>2. Begun' \/ (mainCmds' = <<>> /\ Ahead({}, {})')
    <3>1. CASE MainStep /\ ~cmdFailed
      BY <2>1, <3>1, FreshStep, BegunStep DEF MainInv
    <3>2. CASE (MainStep /\ cmdFailed) \/ MainStepFails
      <4>1. cmdFailed' /\ (Begun' \/ mainCmds' = <<>>)
        BY <2>1, <3>2, FailedStep DEF MainInv
      <4>2. QED
        BY <4>1 DEF Ahead
    <3>3. QED
      BY <1>3, <3>1, <3>2
  <2>3. MainInv'
    BY <2>1, <2>2 DEF MainInv, Fresh
  <2>4. QED
    BY <2>1, <2>3 DEF BuildInv, RunInv
<1>4. CASE StartUpdate
  <2>1. mainCmds' = <<>> /\ upc' = "bfd"
    BY <1>4 DEF StartUpdate, MainIdle
  <2>2. QED
    BY <1>4, <2>1, StartStep DEF MainInv, Fresh
<1>5. ASSUME raced' = raced, mainCmds' = mainCmds, upc # "idle",
             UNCHANGED <<bfdAllowed, vxlanAllowed, dashHaPortMap>>, vxlanSrcIP' = vxlanSrcIP,
             upc' = "idle" => Ahead({}, {})'
      PROVE  MainInv'
  <2>1. Fresh
    BY <1>5 DEF MainInv
  <2>2. Fresh'
    BY <1>5, <2>1 DEF Fresh
  <2>3. QED
    BY <1>5, <2>2 DEF MainInv
<1>6. CASE ReadBfd
  <2>1. /\ raced' = raced /\ mainCmds' = mainCmds /\ upc # "idle" /\ upc' # "idle"
        /\ UNCHANGED <<bfdAllowed, vxlanAllowed, dashHaPortMap>> /\ vxlanSrcIP' = vxlanSrcIP
    BY <1>6 DEF ReadBfd, attrs
  <2>2. QED
    BY <1>5, <1>6, <2>1, ReadBfdStep
<1>7. CASE ReadVxlan \/ ReadVxlanSrc \/ ReadDash
  <2>1. /\ raced' = raced /\ mainCmds' = mainCmds /\ upc # "idle" /\ upc' # "idle"
        /\ UNCHANGED <<bfdAllowed, vxlanAllowed, dashHaPortMap>> /\ vxlanSrcIP' = vxlanSrcIP
    BY <1>7 DEF ReadVxlan, ReadVxlanSrc, ReadDash, attrs
  <2>2. QED
    BY <1>5, <1>7, <2>1, ReadVxlanStep
<1>8. CASE VxlanCommand
  <2>1. /\ raced' = raced /\ mainCmds' = mainCmds /\ upc # "idle" /\ upc' # "idle"
        /\ UNCHANGED <<bfdAllowed, vxlanAllowed, dashHaPortMap>>
    BY <1>8 DEF VxlanCommand
  <2>2. QED
    BY <1>5, <1>8, <2>1, VxlanCommandStep
<1>9. CASE DashDone
  <2>1. /\ raced' = raced /\ mainCmds' = mainCmds /\ upc # "idle" /\ upc' # "idle"
        /\ UNCHANGED <<bfdAllowed, vxlanAllowed, dashHaPortMap>> /\ vxlanSrcIP' = vxlanSrcIP
    BY <1>9 DEF DashDone, attrs
  <2>2. QED
    BY <1>5, <1>9, <2>1, DashDoneStep
<1>10. CASE RunCommand
  <2>1. /\ raced' = raced /\ mainCmds' = mainCmds /\ upc # "idle" /\ upc' # "idle"
        /\ UNCHANGED <<bfdAllowed, vxlanAllowed, dashHaPortMap>> /\ vxlanSrcIP' = vxlanSrcIP
    BY <1>10 DEF RunCommand, attrs
  <2>2. QED
    BY <1>5, <1>10, <2>1, RunStep
<1>14. CASE RunCommandFails
  <2>1. /\ raced' = raced /\ mainCmds' = mainCmds /\ upc # "idle" /\ upc' = "run" /\ cmdFailed'
        /\ UNCHANGED <<bfdAllowed, vxlanAllowed, dashHaPortMap>> /\ vxlanSrcIP' = vxlanSrcIP
    BY <1>14 DEF RunCommandFails, CommandFails, attrs
  <2>2. BuildInv' /\ RunInv'
    BY <2>1 DEF BuildInv, RunInv
  <2>3. QED
    BY <1>5, <2>1, <2>2
<1>11. CASE EndUpdate
  <2>1. /\ raced' = raced /\ mainCmds' = mainCmds /\ upc # "idle"
        /\ UNCHANGED <<bfdAllowed, vxlanAllowed, dashHaPortMap>> /\ vxlanSrcIP' = vxlanSrcIP
    BY <1>11 DEF EndUpdate, attrs
  <2>2. QED
    BY <1>5, <1>11, <2>1, EndStep
<1>12. CASE DashRaises
  <2>1. /\ mainCmds' = <<>> /\ upc' = "idle" /\ (~cmdFailed' => chain' = Booted)
        /\ bfdAllowed' = FALSE /\ vxlanAllowed' = FALSE /\ dashHaPortMap' = NoMap
    BY <1>12 DEF DashRaises, CommandFails
  <2>2. Ahead({}, {})'
    BY <2>1, BootedWanted DEF Ahead, W, Plain
  <2>3. QED
    BY <2>1, <2>2 DEF MainInv, Fresh, BuildInv, RunInv
<1>13. QED
  BY <1>1, <1>2, <1>3, <1>4, <1>6, <1>7, <1>8, <1>9, <1>10, <1>11, <1>12, <1>14
     DEF Next, Handler, Update

-----------------------------------------------------------------------------
(* The databases: BFD.                                                     *)

\* Assignments are different from each other.
LEMMA LastParts ==
  /\ \A a, b : Assign(a) = Assign(b) <=> a = b
  /\ \A a, d : a # "pop" => Assign(a) # Forget(d)
  /\ \A a, d, p : a # "map" => Assign(a) # Learn(d, p)
  /\ \A d, p : Learn(d, p)[1] = "map" /\ Learn(d, p)[2] = d /\ Learn(d, p)[3] = p
  /\ \A d : Forget(d)[1] = "pop" /\ Forget(d)[2] = d
  /\ \A a : Assign(a)[1] = a
  BY DEF Assign, Forget, Learn

\* A step of a handler leaves the attributes alone, makes its last assignment, or blocks the tunnel.
Keeps == UNCHANGED attrs /\ Last' = Last
Ends  ==
    /\ Last' = Assign("none")
    /\ \/ /\ Last = Assign("bfdAllowed") /\ bfdAllowed' = TRUE /\ bfdSubscribed' = FALSE
          /\ UNCHANGED <<vxlanAllowed, vxlanSrcIP, dashHaPortMap>>
       \/ /\ Last = Assign("vxlanAllowed") /\ ~vxlanAllowed /\ vxlanAllowed' = TRUE /\ vxlanSrcIP # None
          /\ UNCHANGED <<bfdAllowed, bfdSubscribed, vxlanSrcIP, dashHaPortMap>>
       \/ /\ Last = Assign("vxlanNoIP") /\ ~vxlanAllowed /\ vxlanSrcIP' = None
          /\ UNCHANGED <<bfdAllowed, bfdSubscribed, vxlanAllowed, dashHaPortMap>>
       \/ \E d \in Dpus : \E new :
             /\ (Last = Forget(d) /\ new = None) \/ Last = Learn(d, new)
             /\ dashHaPortMap' = Moved(dashHaPortMap, d, new)
             /\ UNCHANGED <<bfdAllowed, bfdSubscribed, vxlanAllowed, vxlanSrcIP>>
Blocks ==
    /\ Last = Assign("vxlanNoIP") /\ Last' = Last /\ vxlanAllowed' = FALSE
    /\ UNCHANGED <<bfdAllowed, bfdSubscribed, vxlanSrcIP, dashHaPortMap>>

\* There are no other steps of handlers.
LEMMA StepKinds ==
  ASSUME TypeOK, MainStep \/ MainStepFails, Fresh \/ Begun
  PROVE  Keeps \/ Ends \/ Blocks
<1>0. mainCmds # <<>> /\ mainCmds' = Tail(mainCmds)
  BY DEF MainStep, MainStepFails, MainIdle
<1>13. ASSUME MainStepFails PROVE UNCHANGED attrs /\ Head(mainCmds)[1] \in {"insert", "delete"}
  BY <1>13 DEF MainStepFails
<1>14. /\ \A a \in {"bfdAllowed", "vxlanAllowed", "vxlanBlocked", "vxlanNoIP"} :
            Head(mainCmds) = Assign(a) => MainStep
       /\ \A d : Head(mainCmds) = Forget(d) => MainStep
       /\ \A d, p : Head(mainCmds) = Learn(d, p) => MainStep
  BY <1>13, OpParts
<1>1. ASSUME NEW r, Head(mainCmds) = Insert(r) \/ Head(mainCmds) = Delete(r) PROVE UNCHANGED attrs
  <2>1. Head(mainCmds)[1] = "insert" \/ Head(mainCmds)[1] = "delete"
    BY <1>1, OpParts
  <2>2. CASE MainStep
    BY <2>1, <2>2 DEF MainStep, attrs, TypeOK
  <2>3. QED
    BY <1>13, <2>2
<1>2. ASSUME NEW r, NEW a, mainCmds = <<Insert(r), a>> \/ mainCmds = <<Delete(r), a>> PROVE Keeps
  <2>1. (Head(mainCmds) = Insert(r) \/ Head(mainCmds) = Delete(r)) /\ mainCmds' = <<a>> /\ mainCmds[Len(mainCmds)] = a
    BY <1>0, <1>2, TwoLeft
  <2>2. mainCmds' # <<>> /\ mainCmds'[Len(mainCmds')] = a
    BY <2>1, OneLeft
  <2>3. QED
    BY <1>0, <1>1, <2>1, <2>2 DEF Keeps, Last
<1>3. ASSUME NEW r, NEW a, NEW b, mainCmds = <<Delete(r), a, b>> PROVE Keeps
  <2>1. Head(mainCmds) = Delete(r) /\ mainCmds' = <<a, b>> /\ mainCmds[Len(mainCmds)] = b
    BY <1>0, <1>3, ThreeLeft
  <2>2. mainCmds' # <<>> /\ mainCmds'[Len(mainCmds')] = b
    BY <2>1, TwoLeft
  <2>3. QED
    BY <1>0, <1>1, <2>1, <2>2 DEF Keeps, Last
<1>4. ASSUME NEW a, mainCmds = <<a>> PROVE Head(mainCmds) = a /\ Last = a /\ Last' = Assign("none")
  <2>1. Head(mainCmds) = a /\ mainCmds' = <<>> /\ mainCmds[Len(mainCmds)] = a
    BY <1>0, <1>4, OneLeft
  <2>2. QED
    BY <1>0, <2>1 DEF Last
<1>5. CASE mainCmds = <<Assign("bfdAllowed")>>
  BY <1>4, <1>5, <1>14, StepBfdAllowed DEF Ends
<1>6. CASE ~vxlanAllowed /\ vxlanSrcIP # None /\ mainCmds = <<Assign("vxlanAllowed")>>
  BY <1>4, <1>6, <1>14, StepVxlanAllowed DEF Ends
<1>7. CASE ~vxlanAllowed /\ mainCmds = <<Assign("vxlanNoIP")>>
  BY <1>4, <1>7, <1>14, StepVxlanNoIP DEF Ends
<1>8. CASE mainCmds = <<Assign("vxlanBlocked"), Assign("vxlanNoIP")>>
  <2>1. Head(mainCmds) = Assign("vxlanBlocked") /\ mainCmds' = <<Assign("vxlanNoIP")>> /\ mainCmds[Len(mainCmds)] = Assign("vxlanNoIP")
    BY <1>0, <1>8, TwoLeft
  <2>2. mainCmds' # <<>> /\ mainCmds'[Len(mainCmds')] = Assign("vxlanNoIP")
    BY <2>1, OneLeft
  <2>3. Last = Assign("vxlanNoIP") /\ Last' = Assign("vxlanNoIP")
    BY <1>0, <2>1, <2>2 DEF Last
  <2>4. QED
    BY <1>14, <2>1, <2>3, StepVxlanBlocked DEF Blocks
<1>9. ASSUME NEW d \in Dpus, NEW new,
             (mainCmds = <<Forget(d)>> /\ new = None) \/ mainCmds = <<Learn(d, new)>>
      PROVE  Ends
  <2>1. /\ (Head(mainCmds) = Forget(d) /\ new = None) \/ Head(mainCmds) = Learn(d, new)
        /\ (Last = Forget(d) /\ new = None) \/ Last = Learn(d, new)
        /\ Last' = Assign("none")
    BY <1>4, <1>9
  <2>2. /\ UNCHANGED <<bfdAllowed, bfdSubscribed, vxlanAllowed, vxlanSrcIP>>
        /\ dashHaPortMap' = Moved(dashHaPortMap, d, new)
    BY <1>14, <2>1, StepMap
  <2>3. QED
    BY <2>1, <2>2 DEF Ends
<1>10. CASE Fresh
  BY <1>0, <1>2, <1>3, <1>10 DEF Fresh
<1>11. CASE Begun
  BY <1>2, <1>5, <1>6, <1>7, <1>8, <1>9, <1>11 DEF Begun
<1>12. QED
  BY <1>10, <1>11

\* The daemon starts anew with every BFD session waiting.
LEMMA RaisesBfd ==
  ASSUME DashRaises
  PROVE  BfdInv'
  BY DEF DashRaises, BfdInv, db

\* Every step that does not overlap keeps BfdInv.
LEMMA BfdStep ==
  ASSUME TypeOK, TypeOK', MainInv, BuildInv, BfdInv, [Next]_vars,
         raced' = "never"
  PROVE  BfdInv'
<1>1. CASE UNCHANGED vars \/ StartUpdate \/ ReadBfd \/ ReadVxlan \/ ReadVxlanSrc \/ VxlanCommand
           \/ ReadDash \/ DashDone \/ RunCommand \/ RunCommandFails \/ EndUpdate
           \/ (\E row \in Ips \union {None, Blank} : SetVxlan(row))
           \/ (\E d \in Dpus, row \in Ports \union {None, Blank} : SetDpu(d, row))
  <2>1. UNCHANGED <<bfdRow, bfdQ, bfdAllowed, bfdSubscribed, mainCmds>>
    BY <1>1 DEF vars, db, queues, attrs, StartUpdate, ReadBfd, ReadVxlan, ReadVxlanSrc, VxlanCommand,
       ReadDash, DashDone, RunCommand, RunCommandFails, EndUpdate, SetVxlan, SetDpu, DbStep
  <2>2. Last' = Last
    BY <2>1 DEF Last
  <2>3. QED
    BY <2>1, <2>2 DEF BfdInv
<1>2. CASE BfdSession
  <2>1. /\ UNCHANGED <<bfdAllowed, bfdSubscribed, mainCmds>>
        /\ bfdQ' = (bfdSubscribed /\ (bfdQ \/ bfdRow'))
    BY <1>2 DEF BfdSession, DbStep, attrs
  <2>2. QED
    BY <2>1 DEF BfdInv, TypeOK
<1>3. CASE PopBfd
  <2>1. /\ UNCHANGED <<bfdRow, bfdAllowed, bfdSubscribed>>
        /\ \/ bfdAllowed \/ ~bfdRow
           \/ mainCmds' = <<Insert(Bfd), Assign("bfdAllowed")>>
    BY <1>3 DEF PopBfd, Begin, Insert, Assign, db, attrs
  <2>2. mainCmds' = <<Insert(Bfd), Assign("bfdAllowed")>> => Last' = Assign("bfdAllowed")
    BY TwoLeft DEF Last
  <2>3. QED
    BY <2>1, <2>2 DEF BfdInv
<1>4. CASE PopVxlanSet \/ PopVxlanDel \/ PopDpu
  <2>1. /\ UNCHANGED <<bfdRow, bfdQ, bfdAllowed, bfdSubscribed>>
        /\ mainCmds = <<>>
    BY <1>4 DEF PopVxlanSet, PopVxlanDel, PopDpu, MainIdle, db, attrs
  <2>2. Last # Assign("bfdAllowed")
    BY <2>1, LastParts DEF Last
  <2>3. QED
    BY <2>1, <2>2 DEF BfdInv
<1>5. CASE MainStep \/ MainStepFails
  <2>1. Keeps \/ Ends \/ Blocks
    BY <1>5, StepKinds DEF MainInv
  <2>2. UNCHANGED <<bfdRow, bfdQ>>
    BY <1>5 DEF MainStep, MainStepFails, db, queues
  <2>3. CASE Keeps
    BY <2>2, <2>3 DEF Keeps, BfdInv, attrs
  <2>4. CASE Blocks
    BY <2>2, <2>4 DEF Blocks, BfdInv
  <2>5. CASE Ends
    <3>1. \/ bfdAllowed' = TRUE /\ bfdSubscribed' = FALSE
          \/ UNCHANGED <<bfdAllowed, bfdSubscribed>> /\ Last # Assign("bfdAllowed")
      BY <2>5, LastParts DEF Ends
    <3>2. CASE bfdAllowed' = TRUE /\ bfdSubscribed' = FALSE
      BY <3>2 DEF BfdInv
    <3>3. CASE UNCHANGED <<bfdAllowed, bfdSubscribed>> /\ Last # Assign("bfdAllowed")
      BY <2>2, <3>3 DEF BfdInv
    <3>4. QED
      BY <3>1, <3>2, <3>3
  <2>6. QED
    BY <2>1, <2>3, <2>4, <2>5
<1>6. CASE DashRaises
  BY <1>6, RaisesBfd
<1>7. QED
  BY <1>1, <1>2, <1>3, <1>4, <1>5, <1>6 DEF Next, Db, Handler, Update

-----------------------------------------------------------------------------
(* The databases: DPUs.                                                    *)

\* Popping a notification leaves the last ones what they are.
LEMMA RestOfDpus ==
  ASSUME NEW S, NEW q \in Seq(S), q # <<>>, NEW d
  PROVE  /\ About(Tail(q), d) => About(q, d)
         /\ Head(q)[1] # d => (About(Tail(q), d) <=> About(q, d))
         /\ About(q, d) /\ ~About(Tail(q), d) => IsLast(q, d, 1)
         /\ \A k : IsLast(Tail(q), d, k) => IsLast(q, d, k + 1) /\ Tail(q)[k] = q[k + 1]
         /\ \A k : IsLast(q, d, k) /\ About(Tail(q), d) => IsLast(Tail(q), d, k - 1)
         /\ Deleted(q, d) /\ Head(q) # <<d, "del">> => Deleted(Tail(q), d)
<1> DEFINE r == Tail(q)
<1>1. /\ r \in Seq(S) /\ Len(q) \in Nat \ {0} /\ DOMAIN r = 1 .. Len(q) - 1
      /\ DOMAIN q = 1 .. Len(q) /\ \A k \in 1 .. Len(q) - 1 : r[k] = q[k + 1]
      /\ Head(q) = q[1] /\ Head(q) \in S
  OBVIOUS
<1> HIDE DEF r
<1>2. About(r, d) => About(q, d)
  BY <1>1 DEF About
<1>3. ASSUME NEW k \in DOMAIN q, q[k][1] = d, k # 1 PROVE About(r, d)
  <2>1. k - 1 \in DOMAIN r /\ r[k - 1] = q[k]
    BY <1>1, <1>3
  <2>2. QED
    BY <2>1, <1>3 DEF About
<1>4. Head(q)[1] # d => (About(r, d) <=> About(q, d))
  BY <1>1, <1>2, <1>3 DEF About
<1>5. About(q, d) /\ ~About(r, d) => IsLast(q, d, 1)
  BY <1>1, <1>3 DEF About, IsLast
<1>6. ASSUME NEW k, IsLast(r, d, k) PROVE IsLast(q, d, k + 1) /\ r[k] = q[k + 1]
  <2>1. k \in 1 .. Len(q) - 1 /\ r[k] = q[k + 1]
    BY <1>1, <1>6 DEF IsLast
  <2>2. ASSUME NEW j \in DOMAIN q, j > k + 1 PROVE q[j][1] # d
    <3>1. j - 1 \in DOMAIN r /\ j - 1 > k /\ r[j - 1] = q[j]
      BY <1>1, <2>1, <2>2
    <3>2. QED
      BY <3>1, <1>6 DEF IsLast
  <2>3. QED
    BY <1>1, <1>6, <2>1, <2>2 DEF IsLast
<1>7. ASSUME NEW k, IsLast(q, d, k), About(r, d) PROVE IsLast(r, d, k - 1)
  <2>1. PICK j \in DOMAIN r : r[j][1] = d
    BY <1>7 DEF About
  <2>2. j + 1 \in DOMAIN q /\ q[j + 1][1] = d
    BY <1>1, <2>1
  <2>3. k \in 2 .. Len(q) /\ r[k - 1] = q[k]
    BY <1>1, <1>7, <2>1, <2>2 DEF IsLast
  <2>4. ASSUME NEW l \in DOMAIN r, l > k - 1 PROVE r[l][1] # d
    <3>1. l + 1 \in DOMAIN q /\ l + 1 > k /\ r[l] = q[l + 1]
      BY <1>1, <2>3, <2>4
    <3>2. QED
      BY <3>1, <1>7 DEF IsLast
  <2>5. QED
    BY <1>1, <1>7, <2>3, <2>4 DEF IsLast
<1>8. ASSUME NEW k \in DOMAIN q, q[k] = <<d, "del">>, Head(q) # <<d, "del">> PROVE Deleted(r, d)
  <2>1. k - 1 \in DOMAIN r /\ r[k - 1] = q[k]
    BY <1>1, <1>8
  <2>2. QED
    BY <2>1, <1>8 DEF Deleted
<1>9. QED
  BY <1>2, <1>4, <1>5, <1>6, <1>7, <1>8 DEF r, Deleted

\* A notification that arrives is the last one of its DPU, and of no other.
LEMMA MoreOfDpus ==
  ASSUME NEW S, NEW q \in Seq(S), NEW x \in S, NEW d
  PROVE  /\ x[1] # d => (About(Append(q, x), d) <=> About(q, d))
         /\ x[1] # d => \A k : IsLast(Append(q, x), d, k) <=> IsLast(q, d, k)
         /\ \A k \in DOMAIN q : Append(q, x)[k] = q[k]
         /\ x[1] = d => About(Append(q, x), d)
         /\ x[1] = d => IsLast(Append(q, x), d, Len(q) + 1)
         /\ x[1] = d => \A k : IsLast(Append(q, x), d, k) => k = Len(q) + 1
         /\ Deleted(q, d) => Deleted(Append(q, x), d)
<1> DEFINE r == Append(q, x)
           n == Len(q) + 1
<1>1. /\ Len(q) \in Nat /\ DOMAIN q = 1 .. Len(q) /\ DOMAIN r = 1 .. n
      /\ r[n] = x /\ \A k \in 1 .. Len(q) : r[k] = q[k]
      /\ n = Len(q) + 1
  OBVIOUS
<1> HIDE DEF r, n
<1>2. x[1] # d => (About(r, d) <=> About(q, d))
  BY <1>1 DEF About
<1>3. x[1] # d => \A k : IsLast(r, d, k) <=> IsLast(q, d, k)
  BY <1>1 DEF IsLast
<1>4. x[1] = d => About(r, d) /\ IsLast(r, d, n)
  BY <1>1 DEF About, IsLast
<1>5. x[1] = d => \A k : IsLast(r, d, k) => k = n
  BY <1>1 DEF IsLast
<1>6. Deleted(q, d) => Deleted(r, d)
  BY <1>1 DEF Deleted
<1>7. QED
  BY <1>1, <1>2, <1>3, <1>4, <1>5, <1>6 DEF r, n

\* The ports after the handler, by its last assignment.
LEMMA NewPorts ==
  /\ \A d, a : a \notin {"pop", "map"} /\ Last = Assign(a) => NewPort(d) = dashHaPortMap[d]
  /\ \A d, e : Last = Forget(e) => NewPort(d) = IF d = e THEN None ELSE dashHaPortMap[d]
  /\ \A d, e, p : Last = Learn(e, p) => NewPort(d) = IF d = e THEN p ELSE dashHaPortMap[d]
<1>1. ASSUME NEW d, NEW a, a \notin {"pop", "map"}, Last = Assign(a)
      PROVE  NewPort(d) = dashHaPortMap[d]
  BY <1>1, OpParts DEF NewPort
<1>2. ASSUME NEW d, NEW e, Last = Forget(e)
      PROVE  NewPort(d) = IF d = e THEN None ELSE dashHaPortMap[d]
  BY <1>2, OpParts DEF NewPort
<1>3. ASSUME NEW d, NEW e, NEW p, Last = Learn(e, p)
      PROVE  NewPort(d) = IF d = e THEN p ELSE dashHaPortMap[d]
  BY <1>3, OpParts DEF NewPort
<1>4. QED
  BY <1>1, <1>2, <1>3

\* A step of a handler does not change what it comes to.
LEMMA NewPortKept ==
  ASSUME TypeOK, MainStep \/ MainStepFails, Fresh \/ Begun, NEW d \in Dpus
  PROVE  NewPort(d)' = NewPort(d)
<1>1. Keeps \/ Ends \/ Blocks
  BY StepKinds
<1>2. CASE Keeps
  BY <1>2 DEF Keeps, NewPort, attrs
<1>3. CASE Blocks
  BY <1>3 DEF Blocks, NewPort
<1>4. CASE Ends
  <2>1. Last' = Assign("none")
    BY <1>4 DEF Ends
  <2>2. NewPort(d)' = dashHaPortMap'[d]
    BY <2>1, OpParts DEF NewPort
  <2>3. \/ dashHaPortMap' = dashHaPortMap /\ \E a \in {"bfdAllowed", "vxlanAllowed", "vxlanNoIP"} : Last = Assign(a)
        \/ \E e \in Dpus : \E new : /\ (Last = Forget(e) /\ new = None) \/ Last = Learn(e, new)
                               /\ dashHaPortMap' = Moved(dashHaPortMap, e, new)
    BY <1>4 DEF Ends
  <2>4. CASE dashHaPortMap' = dashHaPortMap /\ \E a \in {"bfdAllowed", "vxlanAllowed", "vxlanNoIP"} : Last = Assign(a)
    BY <2>2, <2>4, NewPorts
  <2>5. ASSUME NEW e \in Dpus, NEW new, (Last = Forget(e) /\ new = None) \/ Last = Learn(e, new),
               dashHaPortMap' = Moved(dashHaPortMap, e, new)
        PROVE  NewPort(d)' = NewPort(d)
    <3>1. dashHaPortMap'[d] = IF d = e THEN new ELSE dashHaPortMap[d]
      BY <2>5 DEF Moved, TypeOK
    <3>2. NewPort(d) = IF d = e THEN new ELSE dashHaPortMap[d]
      BY <2>5, NewPorts
    <3>3. QED
      BY <2>2, <3>1, <3>2
  <2>6. QED
    BY <2>3, <2>4, <2>5
<1>5. QED
  BY <1>1, <1>2, <1>3, <1>4

\* DpuInv, of one DPU.
DpuOk(q, row, d, port) ==
    /\ About(q, d) => \E k \in DOMAIN q : IsLast(q, d, k)
    /\ \A k \in DOMAIN q : IsLast(q, d, k) => (q[k][2] = "del" <=> row = None)
    /\ ~About(q, d) => port = (IF row = Blank THEN None ELSE row)
    /\ row = Blank /\ port # None => Deleted(q, d)

\* DpuInv holds of each DPU.
LEMMA DpuOkParts ==
  /\ DpuInv <=> \A d \in Dpus : DpuOk(dpuQ, dpuRow[d], d, NewPort(d))
  /\ DpuInv' <=> \A d \in Dpus : DpuOk(dpuQ', dpuRow'[d], d, NewPort(d)')
  BY DEF DpuInv, DpuOk, PortOf

\* A change of a row keeps DpuInv,
LEMMA SetDpuStep ==
  ASSUME TypeOK, DpuInv, NEW e \in Dpus, NEW row \in Ports \union {None, Blank}, SetDpu(e, row)
  PROVE  DpuInv'
<1> DEFINE x == <<e, IF row = None THEN "del" ELSE "set">>
           S == Dpus \X {"set", "del"}
<1>1. /\ dpuQ' = Append(dpuQ, x) /\ dpuQ \in Seq(S) /\ x \in S /\ x[1] = e
      /\ row # dpuRow[e] /\ (row = Blank => dpuRow[e] = None)
      /\ dpuRow' = [dpuRow EXCEPT ![e] = row]
      /\ UNCHANGED <<attrs, mainCmds>>
      /\ dpuRow \in [Dpus -> Ports \union {None, Blank}]
      /\ x[2] = "del" <=> row = None
  BY DEF SetDpu, DbStep, TypeOK
<1>2. Len(dpuQ) \in Nat /\ DOMAIN dpuQ = 1 .. Len(dpuQ) /\ DOMAIN dpuQ' = 1 .. Len(dpuQ) + 1
  BY <1>1
<1> HIDE DEF x
<1>3. \A d : NewPort(d)' = NewPort(d)
  BY <1>1 DEF NewPort, Last, attrs
<1>4. ASSUME NEW d \in Dpus, d # e PROVE DpuOk(dpuQ', dpuRow'[d], d, NewPort(d)')
  <2>1. dpuRow'[d] = dpuRow[d] /\ NewPort(d)' = NewPort(d) /\ DpuOk(dpuQ, dpuRow[d], d, NewPort(d))
    BY <1>1, <1>3, <1>4, DpuOkParts
  <2>2. /\ About(dpuQ', d) <=> About(dpuQ, d)
        /\ \A k : IsLast(dpuQ', d, k) <=> IsLast(dpuQ, d, k)
        /\ \A k \in DOMAIN dpuQ : dpuQ'[k] = dpuQ[k]
        /\ Deleted(dpuQ, d) => Deleted(dpuQ', d)
    BY <1>1, <1>4, MoreOfDpus
  <2>3. \A k : IsLast(dpuQ, d, k) => k \in DOMAIN dpuQ
    BY DEF IsLast
  <2>4. DOMAIN dpuQ \subseteq DOMAIN dpuQ'
    BY <1>2
  <2>5. QED
    BY <2>1, <2>2, <2>3, <2>4 DEF DpuOk
<1>5. DpuOk(dpuQ', dpuRow'[e], e, NewPort(e)')
  <2>1. dpuRow'[e] = row /\ NewPort(e)' = NewPort(e) /\ DpuOk(dpuQ, dpuRow[e], e, NewPort(e))
    BY <1>1, <1>3, DpuOkParts
  <2>2. /\ About(dpuQ', e) /\ IsLast(dpuQ', e, Len(dpuQ) + 1) /\ dpuQ'[Len(dpuQ) + 1] = x
        /\ \A k : IsLast(dpuQ', e, k) => k = Len(dpuQ) + 1
        /\ Deleted(dpuQ, e) => Deleted(dpuQ', e)
    <3>0. dpuQ' = Append(dpuQ, x) /\ dpuQ \in Seq(S) /\ x \in S /\ x[1] = e
      BY <1>1
    <3> HIDE DEF S
    <3>1. /\ About(Append(dpuQ, x), e) /\ IsLast(Append(dpuQ, x), e, Len(dpuQ) + 1)
          /\ \A k : IsLast(Append(dpuQ, x), e, k) => k = Len(dpuQ) + 1
          /\ Deleted(dpuQ, e) => Deleted(Append(dpuQ, x), e)
      BY <3>0, MoreOfDpus
    <3>2. dpuQ'[Len(dpuQ) + 1] = x
      BY <1>1, <1>2
    <3>3. QED
      BY <3>0, <3>1, <3>2
  <2>3. Len(dpuQ) + 1 \in DOMAIN dpuQ'
    BY <1>2
  <2>4. ASSUME row = Blank, NewPort(e) # None PROVE Deleted(dpuQ, e)
    <3>1. dpuRow[e] = None /\ None # Blank
      BY <1>1, <2>4, ChainAssumption
    <3>2. About(dpuQ, e)
      BY <2>1, <2>4, <3>1 DEF DpuOk
    <3>3. PICK k \in DOMAIN dpuQ : IsLast(dpuQ, e, k) /\ dpuQ[k][2] = "del"
      BY <2>1, <3>1, <3>2 DEF DpuOk
    <3>4. dpuQ[k] = <<e, "del">>
      <4>1. dpuQ[k] \in S
        BY <1>1
      <4>2. QED
        BY <3>3, <4>1 DEF IsLast
    <3>5. QED
      BY <3>4 DEF Deleted
  <2>5. QED
    BY <1>1, <2>1, <2>2, <2>3, <2>4 DEF DpuOk
<1>6. QED
  BY <1>4, <1>5, DpuOkParts

\* The assignment with which the handler of a DPU ends.
LEMMA PoppedLast ==
  ASSUME PopDpu, NEW e, e = Head(dpuQ)[1], NEW old, old = dashHaPortMap[e],
         NEW new, new = dpuRow[e], Head(dpuQ)[2] \in {"set", "del"}
  PROVE  /\ Head(dpuQ)[2] = "del" => (old = None /\ Last' = Assign("none")) \/ Last' = Forget(e)
         /\ Head(dpuQ)[2] = "set" /\ new \in {None, Blank, old} => Last' = Assign("none")
         /\ Head(dpuQ)[2] = "set" /\ new \notin {None, Blank, old} => Last' = Learn(e, new)
<1>1. mainCmds' = CASE Head(dpuQ)[2] = "del" -> DropPort(e, old)
                   [] Head(dpuQ)[2] = "set" /\ new \in {None, Blank, old} -> <<>>
                   [] OTHER -> SetPort(e, old, new)
  BY DEF PopDpu, Begin
<1>2. mainCmds' = <<>> => Last' = Assign("none")
  BY DEF Last
<1>3. Head(dpuQ)[2] = "del" => (old = None /\ Last' = Assign("none")) \/ Last' = Forget(e)
  <2>1. SUFFICES ASSUME Head(dpuQ)[2] = "del"
                 PROVE  (old = None /\ Last' = Assign("none")) \/ Last' = Forget(e)
    OBVIOUS
  <2>2. mainCmds' = DropPort(e, old)
    BY <1>1, <2>1
  <2>3. CASE old = None
    BY <1>2, <2>2, <2>3 DEF DropPort
  <2>4. CASE old # None
    <3>1. mainCmds' = <<Delete(Dash(old)), Forget(e)>>
      BY <2>2, <2>4 DEF DropPort, Delete, Forget
    <3>2. QED
      BY <3>1, TwoLeft DEF Last
  <2>5. QED
    BY <2>3, <2>4
<1>4. Head(dpuQ)[2] = "set" /\ new \in {None, Blank, old} => Last' = Assign("none")
  BY <1>1, <1>2
<1>5. Head(dpuQ)[2] = "set" /\ new \notin {None, Blank, old} => Last' = Learn(e, new)
  <2>1. SUFFICES ASSUME Head(dpuQ)[2] = "set", new \notin {None, Blank, old}
                 PROVE  Last' = Learn(e, new)
    OBVIOUS
  <2>2. mainCmds' = SetPort(e, old, new)
    BY <1>1, <2>1
  <2>3. CASE old = None
    <3>1. mainCmds' = <<>> \o <<Insert(Dash(new)), Learn(e, new)>>
      BY <2>2, <2>3 DEF SetPort, Insert, Learn
    <3>2. mainCmds' = <<Insert(Dash(new)), Learn(e, new)>>
      BY <3>1, Joined
    <3>3. QED
      BY <3>2, TwoLeft DEF Last
  <2>4. CASE old # None
    <3>1. mainCmds' = <<Delete(Dash(old))>> \o <<Insert(Dash(new)), Learn(e, new)>>
      BY <2>2, <2>4 DEF SetPort, Insert, Learn, Delete
    <3>2. mainCmds' = <<Delete(Dash(old)), Insert(Dash(new)), Learn(e, new)>>
      BY <3>1, Joined
    <3>3. QED
      BY <3>2, ThreeLeft DEF Last
  <2>5. QED
    BY <2>3, <2>4
<1>6. QED
  BY <1>3, <1>4, <1>5

\* and so does the handler of the change.
LEMMA PopDpuStep ==
  ASSUME TypeOK, DpuInv, PopDpu
  PROVE  DpuInv'
<1> DEFINE S == Dpus \X {"set", "del"}
           e == Head(dpuQ)[1]
           new == dpuRow[e]
           old == dashHaPortMap[e]
<1>1. /\ dpuQ # <<>> /\ dpuQ' = Tail(dpuQ) /\ dpuQ \in Seq(S) /\ Head(dpuQ) \in S
      /\ mainCmds = <<>> /\ UNCHANGED <<dpuRow, dashHaPortMap>>
      /\ dpuRow \in [Dpus -> Ports \union {None, Blank}]
      /\ dashHaPortMap \in [Dpus -> Ports \union {None}]
  BY DEF PopDpu, MainIdle, TypeOK, db, attrs
<1>2. /\ Len(dpuQ) \in Nat \ {0} /\ DOMAIN dpuQ = 1 .. Len(dpuQ)
      /\ Head(dpuQ) = dpuQ[1]
      /\ \A k \in 1 .. Len(dpuQ) - 1 : dpuQ'[k] = dpuQ[k + 1]
      /\ DOMAIN dpuQ' = 1 .. Len(dpuQ) - 1
  BY <1>1
<1>3. e \in Dpus /\ Head(dpuQ)[2] \in {"set", "del"} /\ Head(dpuQ) = <<e, Head(dpuQ)[2]>>
  BY <1>1
<1>4. /\ Head(dpuQ)[2] = "del" => (old = None /\ Last' = Assign("none")) \/ Last' = Forget(e)
      /\ Head(dpuQ)[2] = "set" /\ new \in {None, Blank, old} => Last' = Assign("none")
      /\ Head(dpuQ)[2] = "set" /\ new \notin {None, Blank, old} => Last' = Learn(e, new)
  BY <1>3, PoppedLast
<1> HIDE DEF e, new, old
<1>5. \A d : NewPort(d) = dashHaPortMap[d]
  <2>1. Last = Assign("none")
    BY <1>1 DEF Last
  <2>2. QED
    BY <2>1, NewPorts
<1>6. Last' = Assign("none") => \A d : NewPort(d)' = dashHaPortMap[d]
  BY <1>1, OpParts DEF NewPort
<1>7. Last' = Forget(e) => \A d : NewPort(d)' = IF d = e THEN None ELSE dashHaPortMap[d]
  BY <1>1, OpParts DEF NewPort
<1>8. Last' = Learn(e, new) => \A d : NewPort(d)' = IF d = e THEN new ELSE dashHaPortMap[d]
  BY <1>1, OpParts DEF NewPort
<1>10. Head(dpuQ)[2] = "del" => \A d : NewPort(d)' = IF d = e THEN None ELSE dashHaPortMap[d]
  BY <1>4, <1>6, <1>7 DEF old
<1>11. Head(dpuQ)[2] = "set" /\ new \in {None, Blank, old} => \A d : NewPort(d)' = dashHaPortMap[d]
  BY <1>4, <1>6
<1>12. Head(dpuQ)[2] = "set" /\ new \notin {None, Blank, old}
       => \A d : NewPort(d)' = IF d = e THEN new ELSE dashHaPortMap[d]
  BY <1>4, <1>8
<1>13. ASSUME NEW d \in Dpus PROVE DpuOk(dpuQ', dpuRow'[d], d, NewPort(d)')
  <2>1. DpuOk(dpuQ, dpuRow[d], d, NewPort(d)) /\ dpuRow'[d] = dpuRow[d]
    BY <1>1, DpuOkParts
  <2>2. /\ About(dpuQ', d) => About(dpuQ, d)
        /\ Head(dpuQ)[1] # d => (About(dpuQ', d) <=> About(dpuQ, d))
        /\ About(dpuQ, d) /\ ~About(dpuQ', d) => IsLast(dpuQ, d, 1)
        /\ \A k : IsLast(dpuQ', d, k) => IsLast(dpuQ, d, k + 1) /\ dpuQ'[k] = dpuQ[k + 1]
        /\ \A k : IsLast(dpuQ, d, k) /\ About(dpuQ', d) => IsLast(dpuQ', d, k - 1)
        /\ Deleted(dpuQ, d) /\ Head(dpuQ) # <<d, "del">> => Deleted(dpuQ', d)
    BY <1>1, RestOfDpus
  <2>3. About(dpuQ', d) => \E k \in DOMAIN dpuQ' : IsLast(dpuQ', d, k)
    <3>1. SUFFICES ASSUME About(dpuQ', d) PROVE \E k : IsLast(dpuQ', d, k)
      BY DEF IsLast
    <3>2. PICK k : IsLast(dpuQ, d, k)
      BY <2>1, <2>2, <3>1 DEF DpuOk
    <3>3. QED
      BY <2>2, <3>1, <3>2
  <2>4. \A k \in DOMAIN dpuQ' : IsLast(dpuQ', d, k) => (dpuQ'[k][2] = "del" <=> dpuRow[d] = None)
    <3>1. \A k : IsLast(dpuQ, d, k) => k \in DOMAIN dpuQ
      BY DEF IsLast
    <3>2. QED
      BY <2>1, <2>2, <3>1 DEF DpuOk
  <2>5. CASE Head(dpuQ)[1] # d
    <3>1. NewPort(d)' = NewPort(d) /\ d # e
      <4>1. d # e
        BY <2>5 DEF e
      <4>2. QED
        BY <1>3, <1>5, <1>10, <1>11, <1>12, <4>1
    <3>2. Head(dpuQ) # <<d, "del">>
      BY <2>5
    <3>3. QED
      BY <2>1, <2>2, <2>3, <2>4, <2>5, <3>1, <3>2 DEF DpuOk
  <2>6. CASE Head(dpuQ)[1] = d /\ Head(dpuQ)[2] = "del"
    <3>1. NewPort(d)' = None
      <4>1. d = e
        BY <2>6 DEF e
      <4>2. QED
        BY <1>10, <2>6, <4>1
    <3>2. ASSUME ~About(dpuQ', d) PROVE dpuRow[d] = None
      <4>1. About(dpuQ, d)
        BY <1>2, <2>6 DEF About
      <4>2. IsLast(dpuQ, d, 1) /\ 1 \in DOMAIN dpuQ
        BY <1>2, <2>2, <3>2, <4>1
      <4>3. QED
        BY <1>2, <2>1, <2>6, <4>2 DEF DpuOk
    <3>3. QED
      BY <2>1, <2>3, <2>4, <3>1, <3>2 DEF DpuOk
  <2>7. CASE Head(dpuQ)[1] = d /\ Head(dpuQ)[2] = "set"
    <3>1. d = e /\ Head(dpuQ) # <<d, "del">>
      BY <2>7 DEF e
    <3>2. \/ dpuRow[d] \in {None, Blank, dashHaPortMap[d]} /\ NewPort(d)' = NewPort(d)
          \/ dpuRow[d] \notin {None, Blank} /\ NewPort(d)' = dpuRow[d]
      <4>1. new = dpuRow[d] /\ old = dashHaPortMap[d]
        BY <3>1 DEF new, old
      <4>2. QED
        BY <1>5, <1>11, <1>12, <2>7, <3>1, <4>1
    <3>3. ASSUME ~About(dpuQ', d) PROVE dpuRow[d] # None /\ ~Deleted(dpuQ, d)
      <4>1. About(dpuQ, d)
        BY <1>2, <2>7 DEF About
      <4>2. IsLast(dpuQ, d, 1) /\ 1 \in DOMAIN dpuQ
        BY <1>2, <2>2, <3>3, <4>1
      <4>3. dpuRow[d] # None
        BY <1>2, <2>1, <2>7, <4>2 DEF DpuOk
      <4>4. ~Deleted(dpuQ', d)
        <5>1. ASSUME NEW k \in DOMAIN dpuQ', dpuQ'[k] = <<d, "del">> PROVE About(dpuQ', d)
          BY <5>1 DEF About
        <5>2. QED
          BY <3>3, <5>1 DEF Deleted
      <4>5. QED
        BY <2>2, <3>1, <4>3, <4>4
    <3>4. NewPort(d) = dashHaPortMap[d]
      BY <1>5
    <3>5. QED
      BY <2>1, <2>2, <2>3, <2>4, <3>1, <3>2, <3>3, <3>4 DEF DpuOk
  <2>8. QED
    BY <1>3, <2>5, <2>6, <2>7
<1>14. QED
  BY <1>13, DpuOkParts

\* A new subscription tells of every row, once.
LEMMA ReplayOk ==
  ASSUME NEW q \in DpuReplays, NEW d \in Dpus, dpuRow \in [Dpus -> Ports \union {None, Blank}]
  PROVE  DpuOk(q, dpuRow[d], d, None)
<1> DEFINE rows == Entries(dpuRow)
           n == Cardinality(rows)
           f == [k \in 1 .. n |-> q[k][1]]
<1>1. /\ q \in [1 .. n -> Dpus \X {"set"}]
      /\ {q[i][1] : i \in DOMAIN q} = rows
  BY DEF DpuReplays
<1>2. IsFiniteSet(rows) /\ n \in Nat
  BY ChainAssumption, FS_Subset, FS_CardinalityType DEF Entries
<1>3. IsFiniteSet(1 .. n) /\ Cardinality(1 .. n) = n
  BY <1>2, FS_Interval
<1> HIDE DEF n
<1>4. f \in Surjection(1 .. n, rows)
  BY <1>1 DEF Surjection
<1>5. f \in Injection(1 .. n, rows)
  <2> HIDE DEF f, rows
  <2>1. Cardinality(1 .. n) = Cardinality(rows)
    BY <1>3 DEF n
  <2>2. QED
    BY <1>2, <1>3, <1>4, <2>1, FS_Surjection
<1>6. \A j, k \in 1 .. n : q[j][1] = q[k][1] => j = k
  BY <1>5 DEF Injection, IsInjective
<1>7. DOMAIN q = 1 .. n
  BY <1>1
<1>8. \A k \in DOMAIN q : q[k][1] = d => IsLast(q, d, k)
  BY <1>2, <1>6, <1>7 DEF IsLast
<1>9. \A k \in DOMAIN q : q[k][2] = "set"
  BY <1>1
<1>10. \A k \in DOMAIN q : q[k][1] = d => dpuRow[d] # None
  BY <1>1 DEF Entries
<1>11. dpuRow[d] # None => About(q, d)
  <2>1. dpuRow[d] # None => d \in rows
    BY DEF Entries
  <2>2. QED
    BY <1>1, <2>1 DEF About
<1>12. QED
  BY <1>8, <1>9, <1>10, <1>11, ChainAssumption DEF DpuOk, About, IsLast

\* The daemon starts anew with every row of a DPU waiting.
LEMMA RaisesDpu ==
  ASSUME TypeOK, DashRaises
  PROVE  DpuInv'
<1>1. dpuQ' \in DpuReplays /\ dpuRow' = dpuRow /\ mainCmds' = <<>> /\ dashHaPortMap' = NoMap
  BY DEF DashRaises, db
<1>2. \A d \in Dpus : NewPort(d)' = None
  <2>1. Last' = Assign("none")
    BY <1>1 DEF Last
  <2>2. QED
    BY <1>1, <2>1, OpParts DEF NewPort, NoMap
<1>3. QED
  BY <1>1, <1>2, ReplayOk, DpuOkParts DEF TypeOK

\* Every step that does not overlap keeps DpuInv.
LEMMA DpuStep ==
  ASSUME TypeOK, TypeOK', MainInv, BuildInv, DpuInv, [Next]_vars,
         raced' = "never"
  PROVE  DpuInv'
<1>1. CASE UNCHANGED vars \/ StartUpdate \/ ReadBfd \/ ReadVxlan \/ ReadVxlanSrc \/ VxlanCommand
           \/ ReadDash \/ DashDone \/ RunCommand \/ RunCommandFails \/ EndUpdate \/ BfdSession
           \/ (\E row \in Ips \union {None, Blank} : SetVxlan(row))
  <2>1. UNCHANGED <<dpuRow, dpuQ, dashHaPortMap, mainCmds>>
    BY <1>1 DEF vars, db, queues, attrs, StartUpdate, ReadBfd, ReadVxlan, ReadVxlanSrc, VxlanCommand,
       ReadDash, DashDone, RunCommand, RunCommandFails, EndUpdate, SetVxlan, BfdSession, DbStep
  <2>2. \A d : NewPort(d)' = NewPort(d)
    BY <2>1 DEF NewPort, Last
  <2>3. QED
    BY <2>1, <2>2, DpuOkParts
<1>2. ASSUME NEW d \in Dpus, NEW row \in Ports \union {None, Blank}, SetDpu(d, row) PROVE DpuInv'
  BY <1>2, SetDpuStep
<1>3. CASE PopDpu
  BY <1>3, PopDpuStep
<1>4. CASE PopBfd \/ PopVxlanSet \/ PopVxlanDel
  <2>1. /\ UNCHANGED <<dpuRow, dpuQ, dashHaPortMap>>
        /\ mainCmds = <<>>
    BY <1>4 DEF PopBfd, PopVxlanSet, PopVxlanDel, MainIdle, db, attrs
  <2>2. \E a \in {"none", "bfdAllowed", "vxlanAllowed", "vxlanNoIP"} : Last' = Assign(a)
    <3>1. mainCmds' = <<>> => Last' = Assign("none")
      BY DEF Last
    <3>2. \A r, a : mainCmds' = <<Insert(r), Assign(a)>> => Last' = Assign(a)
      BY TwoLeft DEF Last
    <3>3. \A r, a, b : mainCmds' = <<Delete(r), Assign(a), Assign(b)>> => Last' = Assign(b)
      BY ThreeLeft DEF Last
    <3>4. CASE PopBfd
      <4>1. mainCmds' = <<>> \/ mainCmds' = <<Insert(Bfd), Assign("bfdAllowed")>>
        BY <3>4 DEF PopBfd, Begin, Insert, Assign
      <4>2. QED
        BY <3>1, <3>2, <4>1
    <3>5. CASE PopVxlanSet
      <4>1. mainCmds' = <<>> \/ mainCmds' = <<Insert(Vxlan(vxlanSrcIP')), Assign("vxlanAllowed")>>
        BY <3>5 DEF PopVxlanSet, Begin, AllowVxlan, Insert, Assign
      <4>2. QED
        BY <3>1, <3>2, <4>1
    <3>6. CASE PopVxlanDel
      <4>1. \/ mainCmds' = <<>>
            \/ mainCmds' = <<Delete(Vxlan(vxlanSrcIP)), Assign("vxlanBlocked"), Assign("vxlanNoIP")>>
        BY <3>6 DEF PopVxlanDel, Begin, Delete, Assign
      <4>2. QED
        BY <3>1, <3>3, <4>1
    <3>7. QED
      BY <1>4, <3>4, <3>5, <3>6
  <2>3. \A d : NewPort(d) = dashHaPortMap[d]
    <3>1. Last = Assign("none")
      BY <2>1 DEF Last
    <3>2. QED
      BY <3>1, NewPorts
  <2>4. \A d : NewPort(d)' = dashHaPortMap'[d]
    BY <2>2, OpParts DEF NewPort
  <2>5. QED
    BY <2>1, <2>3, <2>4, DpuOkParts
<1>5. CASE MainStep \/ MainStepFails
  <2>1. \A d \in Dpus : NewPort(d)' = NewPort(d)
    BY <1>5, NewPortKept DEF MainInv
  <2>2. UNCHANGED <<dpuRow, dpuQ>>
    BY <1>5 DEF MainStep, MainStepFails, db, queues
  <2>3. QED
    BY <2>1, <2>2, DpuOkParts
<1>6. CASE DashRaises
  BY <1>6, RaisesDpu
<1>7. QED
  BY <1>1, <1>2, <1>3, <1>4, <1>5, <1>6 DEF Next, Db, Handler, Update

-----------------------------------------------------------------------------
(* The databases: the tunnel.                                              *)

\* Flag and address after the handler, by its last assignment.
LEMMA VxlanParts ==
  /\ \A a : a \notin {"vxlanAllowed", "vxlanNoIP"} /\ Last = Assign(a) =>
       (NewAllowed <=> vxlanAllowed) /\ NewSrcIP = vxlanSrcIP
  /\ \A d : Last = Forget(d) => (NewAllowed <=> vxlanAllowed) /\ NewSrcIP = vxlanSrcIP
  /\ \A d, p : Last = Learn(d, p) => (NewAllowed <=> vxlanAllowed) /\ NewSrcIP = vxlanSrcIP
  /\ Last = Assign("vxlanAllowed") => NewAllowed /\ NewSrcIP = vxlanSrcIP
  /\ Last = Assign("vxlanNoIP") => ~NewAllowed /\ NewSrcIP = None
<1>1. ASSUME NEW a, a \notin {"vxlanAllowed", "vxlanNoIP"}, Last = Assign(a)
      PROVE  (NewAllowed <=> vxlanAllowed) /\ NewSrcIP = vxlanSrcIP
  <2>1. Last # Assign("vxlanAllowed") /\ Last # Assign("vxlanNoIP")
    BY <1>1, LastParts
  <2>2. QED
    BY <2>1 DEF NewAllowed, NewSrcIP
<1>2. ASSUME NEW d, NEW p, Last = Forget(d) \/ Last = Learn(d, p)
      PROVE  (NewAllowed <=> vxlanAllowed) /\ NewSrcIP = vxlanSrcIP
  <2>1. Last # Assign("vxlanAllowed") /\ Last # Assign("vxlanNoIP")
    BY <1>2, LastParts
  <2>2. QED
    BY <2>1 DEF NewAllowed, NewSrcIP
<1>3. Last = Assign("vxlanAllowed") => NewAllowed /\ NewSrcIP = vxlanSrcIP
  <2>1. Last = Assign("vxlanAllowed") => Last # Assign("vxlanNoIP")
    BY LastParts
  <2>2. QED
    BY <2>1 DEF NewAllowed, NewSrcIP
<1>4. Last = Assign("vxlanNoIP") => ~NewAllowed /\ NewSrcIP = None
  <2>1. Last = Assign("vxlanNoIP") => Last # Assign("vxlanAllowed")
    BY LastParts
  <2>2. QED
    BY <2>1 DEF NewAllowed, NewSrcIP
<1>5. QED
  BY <1>1, <1>2, <1>3, <1>4

\* Flag and address after the handler stay.
VxlanSame == (NewAllowed' <=> NewAllowed) /\ NewSrcIP' = NewSrcIP

\* A step of a handler does not change what it comes to.
LEMMA VxlanKept ==
  ASSUME TypeOK, MainStep \/ MainStepFails, Fresh \/ Begun
  PROVE  VxlanSame
<1>1. Keeps \/ Ends \/ Blocks
  BY StepKinds
<1>2. CASE Keeps
  BY <1>2 DEF Keeps, VxlanSame, NewAllowed, NewSrcIP, attrs
<1>3. CASE Blocks
  <2>1. ~NewAllowed /\ NewSrcIP = None
    BY <1>3, VxlanParts DEF Blocks
  <2>2. Last' = Assign("vxlanNoIP") /\ Last' # Assign("vxlanAllowed")
    BY <1>3, LastParts DEF Blocks
  <2>3. ~NewAllowed' /\ NewSrcIP' = None
    BY <2>2 DEF NewAllowed, NewSrcIP
  <2>4. QED
    BY <2>1, <2>3 DEF VxlanSame
<1>4. CASE Ends
  <2>1. Last' # Assign("vxlanAllowed") /\ Last' # Assign("vxlanNoIP")
    BY <1>4, LastParts DEF Ends
  <2>2. (NewAllowed' <=> vxlanAllowed') /\ NewSrcIP' = vxlanSrcIP'
    BY <2>1 DEF NewAllowed, NewSrcIP
  <2>3. CASE Last = Assign("vxlanAllowed") /\ vxlanAllowed' = TRUE /\ vxlanSrcIP' = vxlanSrcIP
    BY <2>2, <2>3, VxlanParts DEF VxlanSame
  <2>4. CASE Last = Assign("vxlanNoIP") /\ ~vxlanAllowed /\ vxlanSrcIP' = None /\ vxlanAllowed' = vxlanAllowed
    BY <2>2, <2>4, VxlanParts DEF VxlanSame
  <2>5. CASE UNCHANGED <<vxlanAllowed, vxlanSrcIP>>
             /\ (NewAllowed <=> vxlanAllowed) /\ NewSrcIP = vxlanSrcIP
    BY <2>2, <2>5 DEF VxlanSame
  <2>6. QED
    BY <1>4, <2>3, <2>4, <2>5, VxlanParts DEF Ends
<1>5. QED
  BY <1>1, <1>2, <1>3, <1>4

\* Every step keeps AddrInv.
LEMMA AddrStep ==
  ASSUME AddrInv, [Next]_vars
  PROVE  AddrInv'
<1>1. ASSUME NEW row \in Ips \union {None, Blank}, SetVxlan(row) PROVE AddrInv'
  BY <1>1, ChainAssumption DEF SetVxlan, AddrInv
<1>2. CASE ~\E row \in Ips \union {None, Blank} : SetVxlan(row)
  <2>1. UNCHANGED <<vxlanRow, addrs>>
    BY <1>2 DEF Next, Db, Handler, Update, vars, db, BfdSession, SetDpu, PopBfd, PopVxlanSet, PopVxlanDel,
       PopDpu, MainStep, MainStepFails, StartUpdate, ReadBfd, ReadVxlan, ReadVxlanSrc, VxlanCommand,
       ReadDash, DashDone, DashRaises, RunCommand, RunCommandFails, EndUpdate
  <2>2. QED
    BY <2>1 DEF AddrInv
<1>3. QED
  BY <1>1, <1>2

\* What leaves the tunnel alone keeps VxlanInv.
LEMMA VxlanOther ==
  ASSUME VxlanInv, VxlanSame, UNCHANGED <<vxlanRow, vxlanQ, addrs>>
  PROVE  VxlanInv'
  BY DEF VxlanInv, VxlanSame

\* The last notification, and whether one tells of a deletion, as they come and go.
LEMMA NotesParts ==
  ASSUME NEW S, NEW q \in Seq(S)
  PROVE  /\ \A x \in S : /\ Append(q, x) # <<>>
                         /\ Append(q, x)[Len(Append(q, x))] = x
                         /\ Gone(Append(q, x)) <=> Gone(q) \/ x = "del"
         /\ q # <<>> => /\ Gone(q) => Gone(Tail(q)) \/ Head(q) = "del"
                        /\ Tail(q) # <<>> => Tail(q)[Len(Tail(q))] = q[Len(q)]
                        /\ Tail(q) = <<>> => q[Len(q)] = Head(q)
<1>1. ASSUME NEW x \in S
      PROVE  /\ Append(q, x) # <<>>
             /\ Append(q, x)[Len(Append(q, x))] = x
             /\ Gone(Append(q, x)) <=> Gone(q) \/ x = "del"
  <2> DEFINE r == Append(q, x)
  <2>1. /\ Len(q) \in Nat /\ DOMAIN q = 1 .. Len(q) /\ DOMAIN r = 1 .. Len(q) + 1
        /\ r[Len(q) + 1] = x /\ \A k \in 1 .. Len(q) : r[k] = q[k]
        /\ Len(r) = Len(q) + 1 /\ r # <<>>
    OBVIOUS
  <2> HIDE DEF r
  <2>2. Gone(r) <=> Gone(q) \/ x = "del"
    BY <2>1 DEF Gone
  <2>3. QED
    BY <2>1, <2>2 DEF r
<1>2. ASSUME q # <<>>
      PROVE  /\ Gone(q) => Gone(Tail(q)) \/ Head(q) = "del"
             /\ Tail(q) # <<>> => Tail(q)[Len(Tail(q))] = q[Len(q)]
             /\ Tail(q) = <<>> => q[Len(q)] = Head(q)
  <2> DEFINE r == Tail(q)
  <2>1. /\ Len(q) \in Nat \ {0} /\ DOMAIN q = 1 .. Len(q) /\ DOMAIN r = 1 .. Len(q) - 1
        /\ \A k \in 1 .. Len(q) - 1 : r[k] = q[k + 1]
        /\ Head(q) = q[1] /\ Len(r) = Len(q) - 1 /\ r \in Seq(S)
    BY <1>2
  <2>2. r = <<>> <=> Len(q) = 1
    BY <2>1
  <2> HIDE DEF r
  <2>3. ASSUME NEW k \in DOMAIN q, q[k] = "del", Head(q) # "del" PROVE Gone(r)
    <3>1. k - 1 \in DOMAIN r /\ r[k - 1] = q[k]
      BY <2>1, <2>3
    <3>2. QED
      BY <2>3, <3>1 DEF Gone
  <2>4. r # <<>> => r[Len(r)] = q[Len(q)]
    BY <2>1, <2>2
  <2>5. r = <<>> => q[Len(q)] = Head(q)
    BY <2>1, <2>2
  <2>6. QED
    BY <2>3, <2>4, <2>5 DEF r, Gone
<1>3. QED
  BY <1>1, <1>2

\* A change of the row keeps VxlanInv,
LEMMA SetVxlanStep ==
  ASSUME TypeOK, AddrInv, VxlanInv, NEW row \in Ips \union {None, Blank}, SetVxlan(row)
  PROVE  VxlanInv'
<1> DEFINE x == IF row = None THEN "del" ELSE "set"
<1>1. /\ vxlanQ' = Append(vxlanQ, x) /\ vxlanQ \in Seq({"set", "del"}) /\ x \in {"set", "del"}
      /\ x = "del" <=> row = None
      /\ vxlanRow' = row
      /\ addrs' = (IF vxlanRow = None \/ row = None THEN {} ELSE addrs) \union ({row} \cap Ips)
      /\ UNCHANGED <<vxlanAllowed, vxlanSrcIP, mainCmds>>
  BY DEF SetVxlan, DbStep, TypeOK, attrs
<1> HIDE DEF x
<1>2. VxlanSame
  BY <1>1 DEF VxlanSame, NewAllowed, NewSrcIP, Last
<1>3. /\ vxlanQ' # <<>> /\ vxlanQ'[Len(vxlanQ')] = x
      /\ Gone(vxlanQ') <=> Gone(vxlanQ) \/ x = "del"
  BY <1>1, NotesParts
<1>5. NewAllowed' /\ ~Gone(vxlanQ') => NewSrcIP' \in addrs'
  <2>1. SUFFICES ASSUME NewAllowed, ~Gone(vxlanQ), row # None PROVE NewSrcIP \in addrs'
    BY <1>1, <1>2, <1>3 DEF VxlanSame
  <2>2. NewSrcIP \in addrs
    BY <2>1 DEF VxlanInv
  <2>3. vxlanRow # None
    BY <2>2 DEF AddrInv
  <2>4. QED
    BY <1>1, <2>1, <2>2, <2>3
<1>6. NewAllowed' <=> NewSrcIP' # None
  BY <1>2 DEF VxlanInv, VxlanSame
<1>7. QED
  BY <1>1, <1>3, <1>5, <1>6 DEF VxlanInv

\* and so do the handlers of the change.
LEMMA PopVxlanStep ==
  ASSUME TypeOK, AddrInv, VxlanInv, PopVxlanSet \/ PopVxlanDel
  PROVE  VxlanInv'
<1>1. /\ vxlanQ # <<>> /\ vxlanQ' = Tail(vxlanQ) /\ mainCmds = <<>>
      /\ UNCHANGED <<vxlanRow, addrs, vxlanAllowed>>
      /\ vxlanQ \in Seq({"set", "del"})
      /\ PopVxlanSet => Head(vxlanQ) = "set"
      /\ PopVxlanDel => Head(vxlanQ) = "del"
  BY DEF PopVxlanSet, PopVxlanDel, MainIdle, db, attrs, TypeOK
<1>2. (NewAllowed <=> vxlanAllowed) /\ NewSrcIP = vxlanSrcIP
  <2>1. Last = Assign("none")
    BY <1>1 DEF Last
  <2>2. QED
    BY <2>1, VxlanParts
<1>3. mainCmds' = <<>> => (NewAllowed' <=> vxlanAllowed') /\ NewSrcIP' = vxlanSrcIP'
  <2>1. mainCmds' = <<>> => Last' # Assign("vxlanAllowed") /\ Last' # Assign("vxlanNoIP")
    BY LastParts DEF Last
  <2>2. QED
    BY <2>1 DEF NewAllowed, NewSrcIP
<1>4. /\ Gone(vxlanQ) => Gone(vxlanQ') \/ Head(vxlanQ) = "del"
      /\ vxlanQ' # <<>> => vxlanQ'[Len(vxlanQ')] = vxlanQ[Len(vxlanQ)]
      /\ vxlanQ' = <<>> => vxlanQ[Len(vxlanQ)] = Head(vxlanQ)
  BY <1>1, NotesParts
<1>5. /\ vxlanQ[Len(vxlanQ)] = "del" <=> vxlanRow = None
      /\ vxlanAllowed <=> vxlanSrcIP # None
      /\ vxlanAllowed /\ ~Gone(vxlanQ) => vxlanSrcIP \in addrs
      /\ vxlanRow \in Ips => vxlanRow \in addrs
      /\ vxlanRow = None => addrs = {}
  BY <1>1, <1>2 DEF VxlanInv, AddrInv
<1>6. vxlanQ' # <<>> => (vxlanQ'[Len(vxlanQ')] = "del" <=> vxlanRow' = None)
  BY <1>1, <1>4, <1>5
<1>7. CASE PopVxlanSet /\ vxlanAllowed
  <2>1. mainCmds' = <<>> /\ vxlanSrcIP' = vxlanSrcIP
    BY <1>7 DEF PopVxlanSet, Begin
  <2>2. QED
    BY <1>1, <1>3, <1>4, <1>5, <1>6, <1>7, <2>1 DEF VxlanInv
<1>8. CASE PopVxlanSet /\ ~vxlanAllowed /\ vxlanRow \in Ips
  <2>1. vxlanSrcIP' = vxlanRow /\ vxlanRow # None
    BY <1>8, ChainAssumption DEF PopVxlanSet
  <2>2. mainCmds' = <<Insert(Vxlan(vxlanSrcIP')), Assign("vxlanAllowed")>>
    <3>1. mainCmds' = AllowVxlan(vxlanSrcIP')
      BY <1>8, <2>1 DEF PopVxlanSet, Begin
    <3>2. QED
      BY <2>1, <3>1 DEF AllowVxlan, Insert, Assign
  <2>3. Last' = Assign("vxlanAllowed") /\ Last' # Assign("vxlanNoIP")
    BY <2>2, TwoLeft, LastParts DEF Last
  <2>4. NewAllowed' /\ NewSrcIP' = vxlanRow
    BY <2>1, <2>3 DEF NewAllowed, NewSrcIP
  <2>5. QED
    BY <1>1, <1>5, <1>6, <1>8, <2>1, <2>4 DEF VxlanInv
<1>9. CASE PopVxlanSet /\ ~vxlanAllowed /\ vxlanRow \notin Ips
  <2>1. vxlanSrcIP' = vxlanSrcIP /\ vxlanSrcIP = None
    BY <1>5, <1>9 DEF PopVxlanSet
  <2>2. mainCmds' = <<>>
    BY <1>9, <2>1 DEF PopVxlanSet, Begin, AllowVxlan
  <2>3. ~NewAllowed' /\ NewSrcIP' = None
    BY <1>1, <1>3, <1>9, <2>1, <2>2
  <2>4. QED
    BY <1>1, <1>5, <1>6, <1>9, <2>3 DEF VxlanInv
<1>10. CASE PopVxlanDel
  <2>1. vxlanSrcIP' = vxlanSrcIP
    BY <1>10 DEF PopVxlanDel, attrs
  <2>2. ~NewAllowed' /\ NewSrcIP' = None
    <3>1. CASE vxlanAllowed
      <4>1. mainCmds' = <<Delete(Vxlan(vxlanSrcIP)), Assign("vxlanBlocked"), Assign("vxlanNoIP")>>
        BY <1>5, <1>10, <3>1 DEF PopVxlanDel, Begin, Delete, Assign
      <4>2. Last' = Assign("vxlanNoIP") /\ Last' # Assign("vxlanAllowed")
        BY <4>1, ThreeLeft, LastParts DEF Last
      <4>3. QED
        BY <4>2 DEF NewAllowed, NewSrcIP
    <3>2. CASE ~vxlanAllowed
      <4>1. mainCmds' = <<>>
        BY <1>10, <3>2 DEF PopVxlanDel, Begin
      <4>2. QED
        BY <1>1, <1>3, <1>5, <2>1, <3>2, <4>1
    <3>3. QED
      BY <3>1, <3>2
  <2>3. vxlanQ' = <<>> => vxlanRow' \notin Ips
    BY <1>1, <1>4, <1>5, <1>10, ChainAssumption
  <2>4. QED
    BY <1>1, <1>5, <1>6, <2>2, <2>3 DEF VxlanInv
<1>11. QED
  BY <1>7, <1>8, <1>9, <1>10

\* The daemon starts anew with the row of the tunnel waiting.
LEMMA RaisesVxlan ==
  ASSUME DashRaises
  PROVE  VxlanInv'
<1>1. /\ mainCmds' = <<>> /\ vxlanAllowed' = FALSE /\ vxlanSrcIP' = None /\ vxlanRow' = vxlanRow
      /\ vxlanQ' = IF vxlanRow = None THEN <<>> ELSE <<"set">>
  BY DEF DashRaises, db
<1>2. Last' # Assign("vxlanAllowed") /\ Last' # Assign("vxlanNoIP")
  BY <1>1, LastParts DEF Last
<1>3. ~NewAllowed' /\ NewSrcIP' = None
  BY <1>1, <1>2 DEF NewAllowed, NewSrcIP
<1>4. QED
  BY <1>1, <1>3, ChainAssumption DEF VxlanInv

\* Every step that does not overlap keeps VxlanInv.
LEMMA VxlanStep ==
  ASSUME TypeOK, TypeOK', MainInv, BuildInv, VxlanInv, [Next]_vars,
         AddrInv, raced' = "never"
  PROVE  VxlanInv'
<1>1. CASE UNCHANGED vars \/ StartUpdate \/ ReadBfd \/ ReadVxlan \/ ReadVxlanSrc
           \/ ReadDash \/ DashDone \/ RunCommand \/ RunCommandFails \/ EndUpdate \/ BfdSession
           \/ (\E d \in Dpus, row \in Ports \union {None, Blank} : SetDpu(d, row))
  <2>1. UNCHANGED <<vxlanRow, vxlanQ, addrs, vxlanAllowed, vxlanSrcIP, mainCmds>>
    BY <1>1 DEF vars, db, queues, attrs, StartUpdate, ReadBfd, ReadVxlan, ReadVxlanSrc,
       ReadDash, DashDone, RunCommand, RunCommandFails, EndUpdate, SetDpu, BfdSession, DbStep
  <2>2. VxlanSame
    BY <2>1 DEF VxlanSame, NewAllowed, NewSrcIP, Last
  <2>3. QED
    BY <2>1, <2>2, VxlanOther
<1>2. CASE VxlanCommand
  <2>1. UNCHANGED <<vxlanRow, vxlanQ, addrs, vxlanAllowed, vxlanSrcIP, mainCmds>>
    BY <1>2, VxlanCommandStep DEF VxlanCommand, db, queues
  <2>2. VxlanSame
    BY <2>1 DEF VxlanSame, NewAllowed, NewSrcIP, Last
  <2>3. QED
    BY <2>1, <2>2, VxlanOther
<1>3. ASSUME NEW row \in Ips \union {None, Blank}, SetVxlan(row) PROVE VxlanInv'
  BY <1>3, SetVxlanStep
<1>4. CASE PopVxlanSet \/ PopVxlanDel
  BY <1>4, PopVxlanStep
<1>5. CASE PopBfd \/ PopDpu
  <2>1. UNCHANGED <<vxlanRow, vxlanQ, addrs, vxlanAllowed, vxlanSrcIP>> /\ mainCmds = <<>>
    BY <1>5 DEF PopBfd, PopDpu, MainIdle, db, attrs
  <2>2. (NewAllowed <=> vxlanAllowed) /\ NewSrcIP = vxlanSrcIP
    <3>1. Last = Assign("none")
      BY <2>1 DEF Last
    <3>2. QED
      BY <3>1, VxlanParts
  <2>3. Last' # Assign("vxlanAllowed") /\ Last' # Assign("vxlanNoIP")
    <3>1. CASE PopBfd
      <4>1. mainCmds' = <<>> \/ mainCmds' = <<Insert(Bfd), Assign("bfdAllowed")>>
        BY <3>1 DEF PopBfd, Begin, Insert, Assign
      <4>2. Last' = Assign("none") \/ Last' = Assign("bfdAllowed")
        BY <4>1, TwoLeft DEF Last
      <4>3. QED
        BY <4>2, LastParts
    <3>2. CASE PopDpu
      <4>1. Head(dpuQ) \in Dpus \X {"set", "del"}
        BY <3>2, SeqParts DEF PopDpu, TypeOK
      <4>2. Head(dpuQ)[2] \in {"set", "del"}
        BY <4>1
      <4>3. \/ Last' = Assign("none")
            \/ \E e : Last' = Forget(e)
            \/ \E e, p : Last' = Learn(e, p)
        BY <3>2, <4>2, PoppedLast
      <4>4. QED
        BY <4>3, LastParts
    <3>3. QED
      BY <1>5, <3>1, <3>2
  <2>4. VxlanSame
    BY <2>1, <2>2, <2>3 DEF VxlanSame, NewAllowed, NewSrcIP
  <2>5. QED
    BY <2>1, <2>4, VxlanOther
<1>6. CASE MainStep \/ MainStepFails
  <2>1. VxlanSame
    BY <1>6, VxlanKept DEF MainInv
  <2>2. UNCHANGED <<vxlanRow, vxlanQ, addrs>>
    BY <1>6 DEF MainStep, MainStepFails, db, queues
  <2>3. QED
    BY <2>1, <2>2, VxlanOther
<1>7. CASE DashRaises
  BY <1>7, RaisesVxlan
<1>8. QED
  BY <1>1, <1>2, <1>3, <1>4, <1>5, <1>6, <1>7 DEF Next, Db, Handler, Update

-----------------------------------------------------------------------------
(* The theorems.                                                           *)

\* The invariant holds at the start.
LEMMA InitOk == Init => CaclIInv
<1> SUFFICES ASSUME Init PROVE CaclIInv
  OBVIOUS
<1> USE DEF Init
<1>1. dpuQ \in Seq(Dpus \X {"set", "del"})
  BY ReplayTyped
<1>2. TypeOK
  <2>1. <<>> \in Seq(Steps) /\ chain \in [Rules -> Nat]
    BY ShortSteps, BootedType
  <2>2. vxlanQ \in Seq({"set", "del"})
    <3>1. vxlanQ = <<>> \/ vxlanQ = <<"set">>
      OBVIOUS
    <3>2. <<>> \in Seq({"set", "del"}) /\ <<"set">> \in Seq({"set", "del"})
      OBVIOUS
    <3>3. QED
      BY <3>1, <3>2
  <2>3. dashHaPortMap \in [Dpus -> Ports \union {None}] /\ dashItems \in [Dpus -> Ports \union {None}]
    BY DEF NoMap
  <2>4. /\ changes \in 0 .. MaxChanges /\ updates \in 0 .. MaxUpdates
        /\ chainFaults \in 0 .. MaxChainFaults
    BY ChainAssumption
  <2>5. cmdFailed \in BOOLEAN /\ addrs \in SUBSET Ips
    OBVIOUS
  <2>6. QED
    BY <1>1, <2>1, <2>2, <2>3, <2>4, <2>5 DEF TypeOK
<1>9. AddrInv
  BY ChainAssumption DEF AddrInv
<1>3. MainInv /\ BuildInv /\ RunInv
  <2>1. Ahead({}, {})
    BY BootedWanted DEF Ahead, W, Plain
  <2>2. QED
    BY <2>1 DEF MainInv, Fresh, BuildInv, RunInv
<1>4. Last = Assign("none")
  BY DEF Last
<1>5. BfdInv
  BY DEF BfdInv
<1>6. DpuInv
  <2>1. \A d \in Dpus : NewPort(d) = None
    BY <1>4, NewPorts DEF NoMap
  <2>2. QED
    BY <2>1, ReplayOk, DpuOkParts
<1>7. VxlanInv
  <2>1. ~NewAllowed /\ NewSrcIP = None
    BY <1>4, LastParts DEF NewAllowed, NewSrcIP
  <2>2. QED
    BY <2>1, ChainAssumption DEF VxlanInv
<1>8. QED
  BY <1>2, <1>3, <1>5, <1>6, <1>7, <1>9 DEF CaclIInv

\* Only an overlap, or a new process, changes the history of overlaps.
LEMMA RacedStep ==
  ASSUME [Next]_vars, raced' # "now", ~DashRaises
  PROVE  raced' = "never" => raced = "never"
<1>1. CASE UNCHANGED vars \/ Db \/ PopBfd \/ PopVxlanSet \/ PopVxlanDel \/ PopDpu
           \/ ReadBfd \/ ReadVxlan \/ ReadVxlanSrc \/ VxlanCommand
           \/ ReadDash \/ DashDone \/ RunCommand \/ RunCommandFails \/ EndUpdate
  <2>1. raced' = raced
    BY <1>1 DEF vars, Db, BfdSession, SetVxlan, SetDpu, DbStep, PopBfd, PopVxlanSet, PopVxlanDel,
       PopDpu, ReadBfd, ReadVxlan, ReadVxlanSrc, VxlanCommand, ReadDash, DashDone, RunCommand, RunCommandFails, EndUpdate
  <2>2. QED
    BY <2>1
<1>2. CASE MainStep \/ MainStepFails
  BY <1>2 DEF MainStep, MainStepFails
<1>3. CASE StartUpdate
  BY <1>3 DEF StartUpdate
<1>4. QED
  BY <1>1, <1>2, <1>3 DEF Next, Handler, Update

\* The invariant is kept by every step.
LEMMA CaclInductive == CaclIInv /\ [Next]_vars => CaclIInv'
<1> SUFFICES ASSUME CaclIInv, [Next]_vars PROVE CaclIInv'
  OBVIOUS
<1>1. TypeOK /\ TypeOK' /\ AddrInv /\ AddrInv' /\ (raced # "now" => MainInv /\ BuildInv /\ RunInv)
  BY CaclTypeStep, AddrStep DEF CaclIInv
<1>2. raced' # "now" => MainInv' /\ BuildInv' /\ RunInv'
  BY <1>1, SyncStep
<1>3. ASSUME raced' = "never" PROVE BfdInv' /\ DpuInv' /\ VxlanInv'
  <2>1. CASE DashRaises
    BY <1>1, <2>1, RaisesBfd, RaisesDpu, RaisesVxlan
  <2>2. CASE ~DashRaises
    <3>1. raced = "never"
      BY <1>3, <2>2, RacedStep
    <3>2. MainInv /\ BuildInv /\ BfdInv /\ DpuInv /\ VxlanInv
      BY <3>1 DEF CaclIInv
    <3>3. QED
      BY <1>1, <1>3, <3>1, <3>2, BfdStep, DpuStep, VxlanStep
  <2>3. QED
    BY <2>1, <2>2
<1>4. QED
  BY <1>1, <1>2, <1>3 DEF CaclIInv

\* Every reachable state satisfies the inductive invariant.
THEOREM CaclInvariant == Spec => []CaclIInv
  BY InitOk, CaclInductive, PTL DEF Spec

\* Every variable has its type.
THEOREM CaclTypeCorrect == Spec => []TypeOK
<1>1. CaclIInv => TypeOK
  BY DEF CaclIInv
<1>2. QED
  BY <1>1, CaclInvariant, PTL

\* Between handlers and updates the chain is the one of the attributes.
LEMMA RestIsWanted ==
  ASSUME CaclIInv, AtRest, raced # "now", ~cmdFailed
  PROVE  chain = W
<1>1. Ahead({}, {})
  BY DEF CaclIInv, MainInv, Begun, AtRest, MainIdle
<1>2. chain \in [Rules -> Nat]
  BY DEF CaclIInv, TypeOK
<1>3. \A r \in Rules : chain[r] = W[r]
  BY <1>1, <1>2, WType DEF Ahead, CaclIInv
<1>4. W = [r \in Rules |-> W[r]]
  BY DEF W, Want
<1>5. chain = [r \in Rules |-> chain[r]]
  BY <1>2
<1>6. QED
  BY <1>3, <1>4, <1>5

\* Unless a handler has overlapped the latest update or a command has failed since it began, the
\* chain holds each rule the attributes stand for exactly as often as they ask for it, and no
\* other: the next update that no handler overlaps repairs what a failed command has left.
THEOREM ChainHoldsAttributes == Spec => []ChainFollowsAttributes
<1>1. CaclIInv => ChainFollowsAttributes
  BY RestIsWanted, WantedIsW DEF ChainFollowsAttributes
<1>2. QED
  BY <1>1, CaclInvariant, PTL

\* Without an overlap since the start and without a failed command, and with every notification
\* handled, the chain holds exactly what BFD_SESSION_TABLE, VXLAN_TUNNEL and DPU ask for, with an
\* address the tunnel has had since it was created.
THEOREM ChainHoldsDatabases == Spec => []ChainFollowsDatabases
<1>1. ASSUME CaclIInv PROVE ChainFollowsDatabases
  <2> DEFINE ports == [d \in Dpus |-> IF dpuRow[d] = Blank THEN None ELSE dpuRow[d]]
             asked == {Lo} \cup {r \in {Bfd} : bfdRow \/ bfdAllowed}
                           \cup {r \in {Vxlan(vxlanSrcIP)} : vxlanSrcIP # None}
  <2>1. SUFFICES ASSUME AtRest, raced = "never", ~cmdFailed, ~bfdQ, vxlanQ = <<>>, dpuQ = <<>>
                 PROVE  /\ vxlanSrcIP \in addrs \union {None}
                        /\ vxlanRow \in Ips => vxlanSrcIP # None
                        /\ chain = Wanted(bfdRow \/ bfdAllowed, vxlanSrcIP # None, vxlanSrcIP, ports)
    BY DEF ChainFollowsDatabases
  <2>2. TypeOK /\ BfdInv /\ DpuInv /\ VxlanInv
    BY <1>1, <2>1 DEF CaclIInv
  <2>3. Last = Assign("none")
    BY <2>1 DEF Last, AtRest, MainIdle
  <2>4. dashHaPortMap = ports
    <3>1. \A d \in Dpus : dashHaPortMap[d] = ports[d]
      <4>1. \A d \in Dpus : ~About(dpuQ, d)
        BY <2>1 DEF About
      <4>2. \A d \in Dpus : NewPort(d) = PortOf(d)
        BY <2>2, <4>1 DEF DpuInv
      <4>3. QED
        BY <2>3, <4>2, NewPorts DEF PortOf
    <3>2. dashHaPortMap = [d \in Dpus |-> dashHaPortMap[d]]
      BY <2>2 DEF TypeOK
    <3>3. QED
      BY <3>1, <3>2
  <2>5. bfdRow => bfdAllowed
    BY <2>1, <2>2, <2>3, LastParts DEF BfdInv
  <2>6. /\ vxlanAllowed <=> vxlanSrcIP # None
        /\ vxlanSrcIP \in addrs \union {None}
        /\ vxlanRow \in Ips => vxlanSrcIP # None
    <3>1. (NewAllowed <=> vxlanAllowed) /\ NewSrcIP = vxlanSrcIP
      BY <2>3, VxlanParts
    <3>2. ~Gone(vxlanQ)
      BY <2>1 DEF Gone
    <3>3. QED
      BY <2>1, <2>2, <3>1, <3>2 DEF VxlanInv
  <2>7. Plain = asked
    BY <2>5, <2>6 DEF Plain
  <2>8. Want(asked, ports) = Wanted(bfdRow \/ bfdAllowed, vxlanSrcIP # None, vxlanSrcIP, ports)
    <3> HIDE DEF ports
    <3>1. QED
      BY DEF Want, Wanted, Holds
  <2>9. chain = Want(Plain, dashHaPortMap)
    BY <1>1, <2>1, RestIsWanted DEF W
  <2> HIDE DEF ports, asked
  <2>10. QED
    BY <2>4, <2>6, <2>7, <2>8, <2>9
<1>2. QED
  BY <1>1, CaclInvariant, PTL
=============================================================================
