--------------------------- MODULE CaclRulesProofs ---------------------------
(***************************************************************************)
(* Theorems about what caclmgrd makes of databases, for any tables, rules, *)
(* interfaces and marks and any number of changes and failing commands.    *)
(*                                                                         *)
(* The DHCP chain of a dual ToR device: once every notification has been   *)
(* handled the DROP rules are those of the tables.  The main thread reads  *)
(* a table when it drains the notifications, works on what it has read,    *)
(* and runs the commands one by one, so that the invariant has to say, for *)
(* each interface, what is still to be told, to be read and to be run.     *)
(*                                                                         *)
(* The rules of control plane ACLs: after an update they are those of the  *)
(* tables, in the order of their priorities.  An update goes through       *)
(* tables, services and rules, and keeps a version and ports that it has   *)
(* found, so that the invariant says what holds of a service that is       *)
(* finished, of the one at work and of those to come.                      *)
(*                                                                         *)
(* The third behaviour, of the INPUT chain, is in CaclChainProofs.         *)
(***************************************************************************)
EXTENDS MCCaclRules, CaclChainProofs, FiniteSetTheorems, WellFoundedInduction, TLAPS

-----------------------------------------------------------------------------
(* The DHCP chain: DhcpChain                                               *)

\* The last notification of an interface says whether its row is there.
LastTells(q, i, present) ==
    \A k \in DOMAIN q : IsLast(q, i, k) => (q[k][2] = "del" <=> ~present)

\* Notifications tell of the rows, in each queue and in what was drained for later.
NotesInv ==
    \A i \in Intfs :
        /\ LastTells(markQ, i, markRow[i] # NoMark)
        /\ LastTells(muxQ, i, muxRow[i] # NoMux)
        /\ ~About(muxQ, i) => LastTells(muxLater, i, muxRow[i] # NoMux)

\* Nothing is left over between two selects.
PhaseInv ==
    /\ phase = "select" => buffer = <<>> /\ todo = <<>>
    /\ phase # "marks" => muxLater = <<>>

\* An interface whose mark no notification will tell: its mark has been learned, or the last
\* thing read of it is the mark.
MarkInv ==
    \A i \in Intfs : ~About(markQ, i) =>
        IF phase = "marks" /\ About(buffer, i)
        THEN \A k \in DOMAIN buffer : IsLast(buffer, i, k) => buffer[k][2] = markRow[i]
        ELSE markTbl[i] = markRow[i]

Cmd(op, i, m) == <<op, i, m>>

\* What can be left of the commands for an interface whose rule has had mark m.
Rest(i, m) ==
    LET n == markTbl[i]
    IN  {<<Cmd("if_present", i, m), Cmd("delete", i, m), Cmd("insert", i, n)>>,
         <<Cmd("delete", i, m), Cmd("insert", i, n)>>,
         <<Cmd("insert", i, n)>>,
         <<Cmd("if_present", i, n), Cmd("delete", i, n)>>,
         <<Cmd("delete", i, n)>>,
         <<Cmd("if_absent", i, n), Cmd("insert", i, n)>>}

\* The commands to be run are the rest of those of one interface.
TodoInv == todo # <<>> => \E i \in Intfs, m \in MarksOrNone : todo \in Rest(i, m)

\* The commands to be run are about interface i.
Mine(i) == todo # <<>> /\ todo[1][2] = i

\* The only rule of interface i is one with mark m, n times.
Only(i, m, n) ==
    \A other \in MarksOrNone : drops[<<i, other>>] = IF other = m THEN n ELSE 0

\* The rules of an interface, at each of its commands: never two, and none of another mark.
Stands(i) ==
    IF ~Mine(i)
    THEN \E n \in {0, 1} : Only(i, markTbl[i], n)
    ELSE /\ todo[1][1] \in {"if_present", "if_absent"} => \E n \in {0, 1} : Only(i, todo[1][3], n)
         /\ todo[1][1] = "delete" => Only(i, todo[1][3], 1)
         /\ todo[1][1] = "insert" => Only(i, todo[1][3], 0)

\* Interfaces of which no command has failed have one rule at most.
RuleInv == \A i \in Intfs \ missed : Stands(i)

\* The interface has its rule once its commands have been run.
Will(i) ==
    IF ~Mine(i) THEN drops[<<i, markTbl[i]>>] = 1
    ELSE /\ todo[Len(todo)][1] = "insert"
         /\ todo[1][1] = "if_present" => drops[<<i, todo[1][3]>>] = 1

\* Standby interfaces are to have a rule, active ones not.
Fits(state, stands) ==
    /\ state = "standby" => stands
    /\ state \in {"active", "unknown"} => ~stands

\* An interface whose state no notification will tell: its rule fits its state once its commands
\* have been run, or the last thing read of it is its state.
MuxInv ==
    \A i \in Intfs \ missed : ~About(muxQ, i) /\ ~About(muxLater, i) =>
        IF phase = "muxes" /\ About(buffer, i)
        THEN \A k \in DOMAIN buffer : IsLast(buffer, i, k) => buffer[k][2] = muxRow[i]
        ELSE Fits(muxRow[i], Will(i))

\* The inductive invariant.
DhcpIInv == DhcpTypeOK /\ NotesInv /\ PhaseInv /\ MarkInv /\ TodoInv /\ RuleInv /\ MuxInv

-----------------------------------------------------------------------------
(* Queues and what is read of them.                                        *)

\* A subscription replays exactly the rows there are.
LEMMA ReplaysAll ==
  ASSUME NEW none, NEW row, NEW q \in Replays(row, none)
  PROVE  /\ q \in Seq(Notes)
         /\ \A k \in DOMAIN q : q[k][2] = "set" /\ row[q[k][1]] # none
         /\ \A i \in Intfs : row[i] # none => About(q, i)
<1> DEFINE rows == {i \in Intfs : row[i] # none}
           n    == Cardinality(rows)
<1>1. n \in Nat
  BY DhcpAssumption, FS_Subset, FS_CardinalityType
<1>2. q \in [1 .. n -> rows \X {"set"}] /\ {q[k][1] : k \in DOMAIN q} = rows
  BY DEF Replays
<1>3. q \in [1 .. n -> Notes] /\ \A k \in DOMAIN q : q[k][2] = "set" /\ q[k][1] \in rows
  BY <1>2 DEF Notes
<1>4. \A i \in rows : About(q, i)
  BY <1>2 DEF About
<1> HIDE DEF n
<1>5. q \in Seq(Notes)
  BY <1>1, <1>3
<1>6. QED
  BY <1>3, <1>4, <1>5

\* A notification that arrives is the last one of its interface, and of no other.
LEMMA AppendedNote ==
  ASSUME NEW q \in Seq(Notes), NEW note \in Notes
  PROVE  /\ Append(q, note) \in Seq(Notes)
         /\ \A i \in Intfs : About(Append(q, note), i) <=> About(q, i) \/ note[1] = i
         /\ \A i \in Intfs, present \in BOOLEAN :
               IF note[1] = i THEN (note[2] = "del" <=> ~present) => LastTells(Append(q, note), i, present)
               ELSE LastTells(q, i, present) => LastTells(Append(q, note), i, present)
<1> DEFINE r == Append(q, note)
<1>1. /\ r \in Seq(Notes) /\ Len(r) = Len(q) + 1 /\ r[Len(q) + 1] = note
      /\ \A k \in 1 .. Len(q) : r[k] = q[k]
      /\ DOMAIN r = 1 .. Len(q) + 1 /\ DOMAIN q = 1 .. Len(q) /\ Len(q) \in Nat
  OBVIOUS
<1> HIDE DEF r
<1>2. ASSUME NEW i \in Intfs PROVE About(r, i) <=> About(q, i) \/ note[1] = i
  BY <1>1 DEF About
<1>3. ASSUME NEW i \in Intfs, NEW present \in BOOLEAN, note[1] = i, note[2] = "del" <=> ~present
      PROVE  LastTells(r, i, present)
  BY <1>1, <1>3 DEF LastTells, IsLast
<1>4. ASSUME NEW i \in Intfs, NEW present \in BOOLEAN, note[1] # i, LastTells(q, i, present)
      PROVE  LastTells(r, i, present)
  BY <1>1, <1>4 DEF LastTells, IsLast
<1>5. QED
  BY <1>1, <1>2, <1>3, <1>4 DEF r

\* Taking the first entry leaves the last ones what they are.
LEMMA RestOfBuffer ==
  ASSUME NEW S, NEW q \in Seq(S), q # <<>>, NEW i \in Intfs
  PROVE  /\ Tail(q) \in Seq(S) /\ Head(q) = q[1] /\ Head(q) \in S
         /\ About(Tail(q), i) => About(q, i)
         /\ Head(q)[1] # i => (About(Tail(q), i) <=> About(q, i))
         /\ About(q, i) /\ ~About(Tail(q), i) => IsLast(q, i, 1)
         /\ \A k : IsLast(Tail(q), i, k) => IsLast(q, i, k + 1) /\ Tail(q)[k] = q[k + 1]
<1> DEFINE r == Tail(q)
<1>1. /\ r \in Seq(S) /\ Len(q) \in Nat \ {0} /\ DOMAIN r = 1 .. Len(q) - 1
      /\ DOMAIN q = 1 .. Len(q) /\ \A k \in 1 .. Len(q) - 1 : r[k] = q[k + 1]
      /\ Head(q) = q[1] /\ Head(q) \in S
  OBVIOUS
<1> HIDE DEF r
<1>2. About(r, i) => About(q, i)
  BY <1>1 DEF About
<1>3. ASSUME NEW k \in DOMAIN q, q[k][1] = i, k # 1 PROVE About(r, i)
  <2>1. k - 1 \in DOMAIN r /\ r[k - 1] = q[k]
    BY <1>1, <1>3
  <2>2. QED
    BY <2>1, <1>3 DEF About
<1>4. Head(q)[1] # i => (About(r, i) <=> About(q, i))
  BY <1>1, <1>2, <1>3 DEF About
<1>5. About(q, i) /\ ~About(r, i) => IsLast(q, i, 1)
  BY <1>1, <1>3 DEF About, IsLast
<1>6. ASSUME NEW k, IsLast(r, i, k) PROVE IsLast(q, i, k + 1) /\ r[k] = q[k + 1]
  <2>1. k \in 1 .. Len(q) - 1 /\ r[k] = q[k + 1]
    BY <1>1, <1>6 DEF IsLast
  <2>2. ASSUME NEW j \in DOMAIN q, j > k + 1 PROVE q[j][1] # i
    <3>1. j - 1 \in DOMAIN r /\ j - 1 > k /\ r[j - 1] = q[j]
      BY <1>1, <2>1, <2>2
    <3>2. QED
      BY <3>1, <1>6 DEF IsLast
  <2>3. QED
    BY <1>1, <1>6, <2>1, <2>2 DEF IsLast
<1>7. QED
  BY <1>1, <1>2, <1>4, <1>5, <1>6 DEF r

\* What was read of a drained queue is typed.
LEMMA ReadTyped ==
  ASSUME NEW q \in Seq(Notes), NEW none, NEW Rows, NEW row \in [Intfs -> Rows \cup {none}]
  PROVE  ReadRows(q, row, none) \in Seq(Intfs \X (Rows \cup {none} \cup {Vanished}))
<1> DEFINE S == Intfs \X (Rows \cup {none} \cup {Vanished})
           b == ReadRows(q, row, none)
<1>1. /\ DOMAIN b = 1 .. Len(q) /\ Len(q) \in Nat
      /\ \A k \in 1 .. Len(q) : b[k] \in S
  BY DEF ReadRows, Notes
<1>2. b = [k \in 1 .. Len(q) |-> b[k]]
  BY DEF ReadRows
<1> HIDE DEF S, b
<1>3. b \in Seq(S)
  BY <1>1, <1>2
<1>4. QED
  BY <1>3 DEF S, b

\* What was read last of an interface is its row, if its last notification told the truth.
LEMMA ReadTells ==
  ASSUME NEW q \in Seq(Notes), NEW row, NEW none, NEW i \in Intfs,
         NEW b, b = ReadRows(q, row, none)
  PROVE  /\ About(b, i) <=> About(q, i)
         /\ LastTells(q, i, row[i] # none) =>
              \A k \in DOMAIN b : IsLast(b, i, k) => b[k][2] = row[i]
<1>1. /\ DOMAIN b = DOMAIN q
      /\ \A k \in DOMAIN q : /\ b[k][1] = q[k][1]
                             /\ b[k][2] = IF q[k][2] = "del" THEN none
                                          ELSE IF row[q[k][1]] = none THEN Vanished
                                          ELSE row[q[k][1]]
  BY DEF ReadRows
<1>2. About(b, i) <=> About(q, i)
  BY <1>1 DEF About
<1>3. ASSUME LastTells(q, i, row[i] # none), NEW k \in DOMAIN b, IsLast(b, i, k)
      PROVE  b[k][2] = row[i]
  <2>1. k \in DOMAIN q /\ IsLast(q, i, k)
    BY <1>1, <1>3 DEF IsLast
  <2>2. q[k][1] = i /\ (q[k][2] = "del" <=> row[i] = none)
    BY <1>3, <2>1 DEF LastTells, IsLast
  <2>3. QED
    BY <1>1, <2>1, <2>2
<1>4. QED
  BY <1>2, <1>3

\* Sequences written out are sequences.
LEMMA ShortSeqs ==
  ASSUME NEW S, NEW a \in S, NEW b \in S, NEW c \in S
  PROVE  <<>> \in Seq(S) /\ <<a>> \in Seq(S) /\ <<a, b>> \in Seq(S) /\ <<a, b, c>> \in Seq(S)
  OBVIOUS

-----------------------------------------------------------------------------
(* The steps.                                                              *)

\* Every step keeps the types.
LEMMA DhcpTypeStep ==
  ASSUME DhcpTypeOK, [DhcpNext]_dhcpVars
  PROVE  DhcpTypeOK'
<1> USE DEF DhcpTypeOK
<1>1. ASSUME NEW i \in Intfs, NEW m \in MarksOrNone, SetMark(i, m) PROVE DhcpTypeOK'
  <2>1. Note(i, m, NoMark) \in Notes
    BY DEF Note, Notes
  <2>2. markQ' \in Seq(Notes) /\ markRow' \in [Intfs -> MarksOrNone] /\ dhcpChanges' \in 0 .. MaxDhcpChanges
    BY <1>1, <2>1, DhcpAssumption DEF SetMark, DhcpDbStep
  <2>3. QED
    BY <1>1, <2>2 DEF SetMark, DhcpDbStep, drain
<1>2. ASSUME NEW i \in Intfs, NEW state \in MuxStates \union {NoMux}, SetMux(i, state) PROVE DhcpTypeOK'
  <2>1. Note(i, state, NoMux) \in Notes
    BY DEF Note, Notes
  <2>2. muxQ' \in Seq(Notes) /\ muxRow' \in [Intfs -> MuxStates \union {NoMux}] /\ dhcpChanges' \in 0 .. MaxDhcpChanges
    BY <1>2, <2>1, DhcpAssumption DEF SetMux, DhcpDbStep
  <2>3. QED
    BY <1>2, <2>2 DEF SetMux, DhcpDbStep, drain
<1>3. ASSUME SelectReady PROVE DhcpTypeOK'
  <2>1. buffer' \in Seq(Intfs \X (MarksOrNone \cup {Vanished}))
    BY <1>3, ReadTyped DEF SelectReady, MarksOrNone
  <2>3. phase' = "marks" /\ markQ' \in Seq(Notes) /\ muxQ' \in Seq(Notes) /\ muxLater' \in Seq(Notes)
    BY <1>3 DEF SelectReady
  <2>4. QED
    BY <1>3, <2>1, <2>3 DEF SelectReady, dhcpDb
<1>4. ASSUME PopMark PROVE DhcpTypeOK'
  <2>1. /\ buffer \in Seq(Intfs \X (MarksOrNone \cup {Vanished})) /\ buffer # <<>> /\ buffer' = Tail(buffer)
        /\ phase' = phase /\ phase = "marks"
    BY <1>4 DEF PopMark
  <2>2. Head(buffer) \in Intfs \X (MarksOrNone \cup {Vanished}) /\ buffer' \in Seq(Intfs \X (MarksOrNone \cup {Vanished}))
    BY <2>1
  <2>3. CASE Head(buffer)[2] = Vanished
    BY <1>4, <2>1, <2>2, <2>3 DEF PopMark, dhcpDb, dhcpQs
  <2>4. CASE Head(buffer)[2] # Vanished
    <3> DEFINE i == Head(buffer)[1]
               cur == Head(buffer)[2]
    <3>1. i \in Intfs /\ cur \in MarksOrNone /\ markTbl[i] \in MarksOrNone
      BY <2>2, <2>4
    <3>2. todo' = MarkChange(i, markTbl[i], cur) /\ markTbl' = [markTbl EXCEPT ![i] = cur]
      BY <1>4, <2>4 DEF PopMark
    <3>3. todo' \in Seq(Commands)
      <4>1. \A op \in {"if_present", "delete", "insert"}, m \in MarksOrNone : <<op, i, m>> \in Commands
        BY <3>1 DEF Commands
      <4>2. QED
        BY <3>1, <3>2, <4>1, ShortSeqs DEF MarkChange
    <3>4. QED
      BY <1>4, <2>1, <2>2, <3>1, <3>2, <3>3 DEF PopMark, dhcpDb, dhcpQs
  <2>5. QED
    BY <2>3, <2>4
<1>5. ASSUME MarksDone PROVE DhcpTypeOK'
  <2>1. buffer' \in Seq(Intfs \X (MuxStates \cup {NoMux} \cup {Vanished}))
    BY <1>5, ReadTyped DEF MarksDone
  <2>3. phase' = "muxes" /\ muxLater' \in Seq(Notes)
    BY <1>5 DEF MarksDone
  <2>4. QED
    BY <1>5, <2>1, <2>3 DEF MarksDone, dhcpDb, dhcpQs
<1>6. ASSUME PopMux PROVE DhcpTypeOK'
  <2> DEFINE Values == MuxStates \union {NoMux} \union {Vanished}
  <2>1. buffer \in Seq(Intfs \X Values) /\ buffer # <<>> /\ buffer' = Tail(buffer) /\ phase' = phase /\ phase = "muxes"
    BY <1>6 DEF PopMux
  <2>2. Head(buffer) \in Intfs \X Values /\ buffer' \in Seq(Intfs \X Values)
    BY <2>1
  <2> DEFINE i == Head(buffer)[1]
  <2>3. i \in Intfs /\ markTbl[i] \in MarksOrNone /\ todo' = MuxChange(i, Head(buffer)[2], markTbl[i])
    BY <1>6, <2>2 DEF PopMux
  <2>4. todo' \in Seq(Commands)
    <3>1. \A op \in {"if_present", "if_absent", "delete", "insert"} : <<op, i, markTbl[i]>> \in Commands
      BY <2>3 DEF Commands
    <3>2. QED
      BY <2>3, <3>1, ShortSeqs DEF MuxChange
  <2>5. QED
    BY <1>6, <2>1, <2>2, <2>4 DEF PopMux, dhcpDb, dhcpQs
<1>7. ASSUME MuxesDone PROVE DhcpTypeOK'
  <2>1. buffer' \in Seq(Intfs \X (MarksOrNone \cup {Vanished})) /\ phase' = "select"
    BY <1>7 DEF MuxesDone
  <2>2. QED
    BY <1>7, <2>1 DEF MuxesDone, dhcpDb, dhcpQs
<1>8. ASSUME DhcpCommand PROVE DhcpTypeOK'
  <2> DEFINE rule == <<Head(todo)[2], Head(todo)[3]>>
  <2>1. Head(todo) \in Commands /\ Tail(todo) \in Seq(Commands)
    BY <1>8, SeqParts DEF DhcpCommand
  <2>2. rule \in DropRules /\ drops[rule] \in Nat
    BY <2>1 DEF DropRules, Commands
  <2>3. todo' \in Seq(Commands)
    BY <1>8, <2>1, ShortSeqs DEF DhcpCommand
  <2>4. drops' \in [DropRules -> Nat]
    <3>1. \/ drops' = [drops EXCEPT ![rule] = @ + 1]
          \/ drops' = [drops EXCEPT ![rule] = IF @ = 0 THEN 0 ELSE @ - 1]
          \/ drops' = drops
      BY <1>8 DEF DhcpCommand
    <3>2. CASE drops' = [drops EXCEPT ![rule] = @ + 1]
      BY <2>2, <3>2
    <3>3. CASE drops' = [drops EXCEPT ![rule] = IF @ = 0 THEN 0 ELSE @ - 1]
      BY <2>2, <3>3
    <3>4. QED
      BY <3>1, <3>2, <3>3
  <2>5. QED
    BY <1>8, <2>3, <2>4 DEF DhcpCommand, dhcpDb, dhcpQs, drain
<1>9. ASSUME DhcpCommandFails PROVE DhcpTypeOK'
  <2>1. Head(todo) \in Commands /\ Tail(todo) \in Seq(Commands)
    BY <1>9, SeqParts DEF DhcpCommandFails
  <2>2. todo' \in Seq(Commands) /\ missed' \subseteq Intfs /\ dhcpFaults' \in 0 .. MaxDhcpFaults
    <3>1. todo' = <<>> \/ todo' = Tail(todo)
      BY <1>9 DEF DhcpCommandFails
    <3>2. todo' \in Seq(Commands)
      <4>1. <<>> \in Seq(Commands)
        OBVIOUS
      <4>2. QED
        BY <2>1, <3>1, <4>1
    <3>3. Head(todo)[2] \in Intfs
      BY <2>1 DEF Commands
    <3>4. missed' \subseteq Intfs
      BY <1>9, <3>3 DEF DhcpCommandFails
    <3>5. dhcpFaults' \in 0 .. MaxDhcpFaults
      <4>1. dhcpFaults < MaxDhcpFaults /\ dhcpFaults' = dhcpFaults + 1
        BY <1>9 DEF DhcpCommandFails
      <4>2. QED
        BY <4>1, DhcpAssumption
    <3>6. QED
      BY <3>2, <3>4, <3>5
  <2>3. QED
    BY <1>9, <2>2 DEF DhcpCommandFails, dhcpDb, dhcpQs, drain
<1>10. ASSUME DhcpRestart PROVE DhcpTypeOK'
  <2>1. markQ' \in Seq(Notes) /\ muxQ' \in Seq(Notes)
    BY <1>10, ReplaysAll DEF DhcpRestart
  <2>2. drops' \in [DropRules -> Nat] /\ missed' \subseteq Intfs /\ markTbl' \in [Intfs -> MarksOrNone]
    BY <1>10 DEF DhcpRestart, NoDrops, NoMarks, MarksOrNone
  <2>3. dhcpFaults' \in 0 .. MaxDhcpFaults
    BY <1>10, DhcpAssumption DEF DhcpRestart
  <2>4. /\ phase' = "select" /\ buffer' = <<>> /\ muxLater' = <<>> /\ todo' = <<>>
        /\ UNCHANGED <<dhcpDb, dhcpChanges>>
    BY <1>10 DEF DhcpRestart
  <2>5. /\ buffer' \in Seq(Intfs \X (MarksOrNone \cup {Vanished})) /\ muxLater' \in Seq(Notes)
        /\ todo' \in Seq(Commands)
    BY <2>4
  <2>6. QED
    BY <2>1, <2>2, <2>3, <2>4, <2>5 DEF dhcpDb
<1>11. ASSUME UNCHANGED dhcpVars PROVE DhcpTypeOK'
  BY <1>11 DEF dhcpVars, dhcpDb, dhcpQs, drain
<1>12. QED
  BY <1>1, <1>2, <1>3, <1>4, <1>5, <1>6, <1>7, <1>8, <1>9, <1>10, <1>11 DEF DhcpNext

\* An empty queue is about no interface.
LEMMA NothingTold ==
  ASSUME NEW i, NEW present PROVE ~About(<<>>, i) /\ LastTells(<<>>, i, present)
  BY DEF About, LastTells, IsLast

\* Every step keeps the notifications true.
LEMMA NotesStep ==
  ASSUME DhcpTypeOK, NotesInv, [DhcpNext]_dhcpVars
  PROVE  NotesInv'
<1> USE DEF DhcpTypeOK
<1>1. ASSUME NEW i \in Intfs, NEW m \in MarksOrNone, SetMark(i, m) PROVE NotesInv'
  <2>1. Note(i, m, NoMark) \in Notes /\ Note(i, m, NoMark)[1] = i
        /\ (Note(i, m, NoMark)[2] = "del" <=> m = NoMark)
    BY DEF Note, Notes
  <2>2. ASSUME NEW x \in Intfs PROVE LastTells(markQ', x, markRow'[x] # NoMark)
    <3>1. markQ' = Append(markQ, Note(i, m, NoMark)) /\ markRow' = [markRow EXCEPT ![i] = m]
      BY <1>1 DEF SetMark
    <3>2. LastTells(markQ, x, markRow[x] # NoMark)
      BY DEF NotesInv
    <3>3. CASE x = i
      BY <2>1, <3>1, <3>3, AppendedNote
    <3>4. CASE x # i
      BY <2>1, <3>1, <3>2, <3>4, AppendedNote
    <3>5. QED
      BY <3>3, <3>4
  <2>3. QED
    BY <1>1, <2>2 DEF SetMark, DhcpDbStep, drain, NotesInv
<1>2. ASSUME NEW i \in Intfs, NEW state \in MuxStates \union {NoMux}, SetMux(i, state) PROVE NotesInv'
  <2>1. Note(i, state, NoMux) \in Notes /\ Note(i, state, NoMux)[1] = i
        /\ (Note(i, state, NoMux)[2] = "del" <=> state = NoMux)
    BY DEF Note, Notes
  <2>2. ASSUME NEW x \in Intfs
        PROVE  /\ LastTells(muxQ', x, muxRow'[x] # NoMux)
               /\ ~About(muxQ', x) => LastTells(muxLater, x, muxRow'[x] # NoMux)
    <3>1. muxQ' = Append(muxQ, Note(i, state, NoMux)) /\ muxRow' = [muxRow EXCEPT ![i] = state]
      BY <1>2 DEF SetMux
    <3>2. /\ LastTells(muxQ, x, muxRow[x] # NoMux)
          /\ ~About(muxQ, x) => LastTells(muxLater, x, muxRow[x] # NoMux)
      BY DEF NotesInv
    <3>3. CASE x = i
      BY <2>1, <3>1, <3>3, AppendedNote
    <3>4. CASE x # i
      BY <2>1, <3>1, <3>2, <3>4, AppendedNote
    <3>5. QED
      BY <3>3, <3>4
  <2>3. QED
    BY <1>2, <2>2 DEF SetMux, DhcpDbStep, drain, NotesInv
<1>3. ASSUME SelectReady PROVE NotesInv'
  BY <1>3, NothingTold DEF SelectReady, NotesInv, dhcpDb
<1>4. ASSUME MarksDone PROVE NotesInv'
  BY <1>4, NothingTold DEF MarksDone, NotesInv, dhcpDb, dhcpQs
<1>5. ASSUME DhcpRestart PROVE NotesInv'
  <2>1. /\ markQ' \in Replays(markRow, NoMark) /\ muxQ' \in Replays(muxRow, NoMux)
        /\ muxLater' = <<>> /\ markRow' = markRow /\ muxRow' = muxRow
    BY <1>5 DEF DhcpRestart, dhcpDb
  <2>2. /\ \A k \in DOMAIN markQ' : markQ'[k][2] = "set" /\ markRow[markQ'[k][1]] # NoMark
        /\ \A k \in DOMAIN muxQ' : muxQ'[k][2] = "set" /\ muxRow[muxQ'[k][1]] # NoMux
    BY <2>1, ReplaysAll
  <2>3. ASSUME NEW x \in Intfs
        PROVE  LastTells(markQ', x, markRow[x] # NoMark) /\ LastTells(muxQ', x, muxRow[x] # NoMux)
    BY <2>2 DEF LastTells, IsLast
  <2>4. QED
    BY <2>1, <2>3, NothingTold DEF NotesInv
<1>6. ASSUME UNCHANGED <<dhcpDb, dhcpQs, muxLater>> PROVE NotesInv'
  BY <1>6 DEF NotesInv, dhcpDb, dhcpQs
<1>7. QED
  BY <1>1, <1>2, <1>3, <1>4, <1>5, <1>6
  DEF DhcpNext, PopMark, PopMux, MuxesDone, DhcpCommand, DhcpCommandFails, dhcpVars, drain

\* Every step keeps PhaseInv.
LEMMA PhaseStep ==
  ASSUME PhaseInv, [DhcpNext]_dhcpVars
  PROVE  PhaseInv'
<1>1. ASSUME NEW i \in Intfs, NEW m \in MarksOrNone, SetMark(i, m) PROVE PhaseInv'
  BY <1>1 DEF PhaseInv, SetMark, DhcpDbStep, drain
<1>2. ASSUME NEW i \in Intfs, NEW state \in MuxStates \union {NoMux}, SetMux(i, state) PROVE PhaseInv'
  BY <1>2 DEF PhaseInv, SetMux, DhcpDbStep, drain
<1>3. ASSUME SelectReady \/ PopMark \/ MarksDone \/ PopMux \/ MuxesDone PROVE PhaseInv'
  BY <1>3 DEF PhaseInv, SelectReady, PopMark, MarksDone, PopMux, MuxesDone
<1>4. ASSUME DhcpCommand \/ DhcpCommandFails PROVE PhaseInv'
  BY <1>4 DEF PhaseInv, DhcpCommand, DhcpCommandFails, drain
<1>5. ASSUME DhcpRestart \/ UNCHANGED dhcpVars PROVE PhaseInv'
  BY <1>5 DEF PhaseInv, DhcpRestart, dhcpVars, drain
<1>6. QED
  BY <1>1, <1>2, <1>3, <1>4, <1>5 DEF DhcpNext

\* Every step keeps MarkInv.
LEMMA MarkStep ==
  ASSUME DhcpTypeOK, NotesInv, PhaseInv, MarkInv, [DhcpNext]_dhcpVars
  PROVE  MarkInv'
<1> USE DEF DhcpTypeOK
<1>1. ASSUME NEW i \in Intfs, NEW m \in MarksOrNone, SetMark(i, m) PROVE MarkInv'
  <2>1. /\ Note(i, m, NoMark) \in Notes /\ Note(i, m, NoMark)[1] = i
        /\ markQ' = Append(markQ, Note(i, m, NoMark)) /\ markRow' = [markRow EXCEPT ![i] = m]
        /\ UNCHANGED <<phase, buffer, markTbl>>
    BY <1>1 DEF Note, Notes, SetMark, DhcpDbStep, drain
  <2>2. ASSUME NEW x \in Intfs, ~About(markQ', x)
        PROVE  ~About(markQ, x) /\ markRow'[x] = markRow[x]
    BY <2>1, <2>2, AppendedNote
  <2>3. QED
    BY <2>1, <2>2 DEF MarkInv
<1>2. ASSUME SelectReady PROVE MarkInv'
  <2>1. /\ phase = "select" /\ phase' = "marks" /\ markRow' = markRow /\ markTbl' = markTbl
        /\ buffer' = ReadRows(markQ, markRow, NoMark)
    BY <1>2 DEF SelectReady, dhcpDb
  <2>2. ASSUME NEW x \in Intfs
        PROVE  IF About(buffer', x)
               THEN \A k \in DOMAIN buffer' : IsLast(buffer', x, k) => buffer'[k][2] = markRow[x]
               ELSE markTbl[x] = markRow[x]
    <3>1. LastTells(markQ, x, markRow[x] # NoMark)
      BY DEF NotesInv
    <3>2. /\ About(buffer', x) <=> About(markQ, x)
          /\ \A k \in DOMAIN buffer' : IsLast(buffer', x, k) => buffer'[k][2] = markRow[x]
      <4>1. ASSUME NEW b, b = ReadRows(markQ, markRow, NoMark)
            PROVE  /\ About(b, x) <=> About(markQ, x)
                   /\ \A k \in DOMAIN b : IsLast(b, x, k) => b[k][2] = markRow[x]
        BY <3>1, <4>1, ReadTells
      <4>2. QED
        BY <2>1, <4>1
    <3>3. QED
      BY <2>1, <3>2 DEF MarkInv
  <2>3. QED
    BY <2>1, <2>2 DEF MarkInv
<1>3. ASSUME PopMark PROVE MarkInv'
  <2> DEFINE i == Head(buffer)[1]
             cur == Head(buffer)[2]
             S == Intfs \X (MarksOrNone \cup {Vanished})
  <2>1. /\ buffer \in Seq(S) /\ buffer # <<>> /\ buffer' = Tail(buffer)
        /\ phase = "marks" /\ phase' = "marks" /\ markRow' = markRow /\ markQ' = markQ
        /\ IF cur = Vanished THEN markTbl' = markTbl ELSE markTbl' = [markTbl EXCEPT ![i] = cur]
    BY <1>3 DEF PopMark, dhcpDb, dhcpQs
  <2>2. ASSUME NEW x \in Intfs, ~About(markQ, x)
        PROVE  IF About(buffer', x)
               THEN \A k \in DOMAIN buffer' : IsLast(buffer', x, k) => buffer'[k][2] = markRow[x]
               ELSE markTbl'[x] = markRow[x]
    <3> HIDE DEF S
    <3>1. /\ Head(buffer) = buffer[1] /\ Head(buffer) \in S
          /\ About(Tail(buffer), x) => About(buffer, x)
          /\ Head(buffer)[1] # x => (About(Tail(buffer), x) <=> About(buffer, x))
          /\ About(buffer, x) /\ ~About(Tail(buffer), x) => IsLast(buffer, x, 1)
          /\ \A k : IsLast(Tail(buffer), x, k) => IsLast(buffer, x, k + 1) /\ Tail(buffer)[k] = buffer[k + 1]
      BY <2>1, RestOfBuffer
    <3>2. CASE About(buffer', x)
      <4>1. \A k \in DOMAIN buffer : IsLast(buffer, x, k) => buffer[k][2] = markRow[x]
        BY <2>1, <2>2, <3>1, <3>2 DEF MarkInv
      <4>2. QED
        BY <2>1, <3>1, <3>2, <4>1 DEF IsLast
    <3>3. CASE ~About(buffer', x) /\ About(buffer, x)
      <4>1. IsLast(buffer, x, 1)
        BY <2>1, <3>1, <3>3
      <4>2. x = i /\ cur = markRow[x]
        BY <2>1, <2>2, <3>1, <3>3, <4>1 DEF MarkInv, IsLast
      <4>3. cur # Vanished
        BY <4>2, DhcpAssumption DEF MarksOrNone
      <4>4. QED
        BY <2>1, <3>3, <4>2, <4>3
    <3>4. CASE ~About(buffer', x) /\ ~About(buffer, x)
      <4>1. x # i
        <5>1. 1 \in DOMAIN buffer
          BY <2>1
        <5>2. QED
          BY <3>1, <3>4, <5>1 DEF About
      <4>2. markTbl[x] = markRow[x]
        BY <2>2, <3>4 DEF MarkInv
      <4>3. QED
        BY <2>1, <3>4, <4>1, <4>2
    <3>5. QED
      BY <3>2, <3>3, <3>4
  <2>3. QED
    BY <2>1, <2>2 DEF MarkInv
<1>4. ASSUME MarksDone PROVE MarkInv'
  BY <1>4, NothingTold DEF MarksDone, MarkInv, dhcpDb, dhcpQs
<1>5. ASSUME PopMux \/ MuxesDone PROVE MarkInv'
  BY <1>5 DEF PopMux, MuxesDone, MarkInv, dhcpDb, dhcpQs
<1>6. ASSUME DhcpRestart PROVE MarkInv'
  <2>1. /\ markQ' \in Replays(markRow, NoMark) /\ markTbl' = NoMarks /\ markRow' = markRow
        /\ phase' = "select"
    BY <1>6 DEF DhcpRestart, dhcpDb
  <2>2. \A x \in Intfs : markRow[x] # NoMark => About(markQ', x)
    BY <2>1, ReplaysAll
  <2>3. QED
    BY <2>1, <2>2 DEF MarkInv, NoMarks
<1>7. ASSUME UNCHANGED <<markRow, markQ, phase, buffer, markTbl>> PROVE MarkInv'
  BY <1>7 DEF MarkInv
<1>8. QED
  BY <1>1, <1>2, <1>3, <1>4, <1>5, <1>6, <1>7
  DEF DhcpNext, SetMux, DhcpDbStep, DhcpCommand, DhcpCommandFails, dhcpVars, drain, dhcpDb, dhcpQs

-----------------------------------------------------------------------------
(* Commands.                                                               *)

\* The parts of a command.
LEMMA CmdParts ==
  ASSUME NEW op, NEW i, NEW m
  PROVE  Cmd(op, i, m)[1] = op /\ Cmd(op, i, m)[2] = i /\ Cmd(op, i, m)[3] = m
  BY DEF Cmd

\* The first, the last and the rest of one command,
LEMMA OneCommand ==
  ASSUME NEW a
  PROVE  <<a>>[1] = a /\ Tail(<<a>>) = <<>> /\ <<a>>[Len(<<a>>)] = a /\ <<a>> # <<>>
<1>1. Tail(<<a>>) = <<>>
  OBVIOUS
<1>2. QED
  BY <1>1

\* of two,
LEMMA TwoCommands ==
  ASSUME NEW a, NEW b
  PROVE  <<a, b>>[1] = a /\ Tail(<<a, b>>) = <<b>> /\ <<a, b>>[Len(<<a, b>>)] = b /\ <<a, b>> # <<>>
<1>1. Tail(<<a, b>>) = <<b>>
  OBVIOUS
<1>2. QED
  BY <1>1

\* and of three.
LEMMA ThreeCommands ==
  ASSUME NEW a, NEW b, NEW c
  PROVE  /\ <<a, b, c>>[1] = a /\ Tail(<<a, b, c>>) = <<b, c>>
         /\ <<a, b, c>>[Len(<<a, b, c>>)] = c /\ <<a, b, c>> # <<>>
<1>1. Tail(<<a, b, c>>) = <<b, c>>
  OBVIOUS
<1>2. QED
  BY <1>1

\* What is left after a command is again the rest of the commands.
LEMMA RestLeft ==
  ASSUME NEW i, NEW m, NEW q \in Rest(i, m)
  PROVE  Tail(q) = <<>> \/ Tail(q) \in Rest(i, m)
<1> DEFINE n == markTbl[i]
<1>0. q \in {<<Cmd("if_present", i, m), Cmd("delete", i, m), Cmd("insert", i, n)>>,
             <<Cmd("delete", i, m), Cmd("insert", i, n)>>,
             <<Cmd("insert", i, n)>>,
             <<Cmd("if_present", i, n), Cmd("delete", i, n)>>,
             <<Cmd("delete", i, n)>>,
             <<Cmd("if_absent", i, n), Cmd("insert", i, n)>>}
  BY DEF Rest
<1> HIDE DEF n
<1>1. CASE q = <<Cmd("if_present", i, m), Cmd("delete", i, m), Cmd("insert", i, n)>>
  <2>1. Tail(q) = <<Cmd("delete", i, m), Cmd("insert", i, n)>>
    BY <1>1, ThreeCommands
  <2>2. QED
    BY <2>1 DEF Rest, n
<1>2. CASE q = <<Cmd("delete", i, m), Cmd("insert", i, n)>>
  <2>1. Tail(q) = <<Cmd("insert", i, n)>>
    BY <1>2, TwoCommands
  <2>2. QED
    BY <2>1 DEF Rest, n
<1>3. CASE q = <<Cmd("if_present", i, n), Cmd("delete", i, n)>>
  <2>1. Tail(q) = <<Cmd("delete", i, n)>>
    BY <1>3, TwoCommands
  <2>2. QED
    BY <2>1 DEF Rest, n
<1>4. CASE q = <<Cmd("if_absent", i, n), Cmd("insert", i, n)>>
  <2>1. Tail(q) = <<Cmd("insert", i, n)>>
    BY <1>4, TwoCommands
  <2>2. QED
    BY <2>1 DEF Rest, n
<1>5. CASE q = <<Cmd("insert", i, n)>> \/ q = <<Cmd("delete", i, n)>>
  BY <1>5, OneCommand
<1>6. QED
  BY <1>0, <1>1, <1>2, <1>3, <1>4, <1>5

\* Every step keeps TodoInv.
LEMMA TodoStep ==
  ASSUME DhcpTypeOK, TodoInv, [DhcpNext]_dhcpVars
  PROVE  TodoInv'
<1> USE DEF DhcpTypeOK
<1>1. ASSUME PopMark PROVE TodoInv'
  <2> DEFINE i == Head(buffer)[1]
             cur == Head(buffer)[2]
             S == Intfs \X (MarksOrNone \cup {Vanished})
  <2>1. Head(buffer) \in S
    <3>1. buffer \in Seq(S) /\ buffer # <<>>
      BY <1>1 DEF PopMark
    <3> HIDE DEF S
    <3>2. QED
      BY <3>1
  <2>2. CASE cur = Vanished
    BY <1>1, <2>2 DEF PopMark, TodoInv, Rest
  <2>3. CASE cur # Vanished
    <3>1. /\ i \in Intfs /\ markTbl[i] \in MarksOrNone
          /\ markTbl' = [markTbl EXCEPT ![i] = cur] /\ todo' = MarkChange(i, markTbl[i], cur)
      BY <1>1, <2>1, <2>3 DEF PopMark
    <3>2. todo' = <<Cmd("if_present", i, markTbl[i]), Cmd("delete", i, markTbl[i]),
                    Cmd("insert", i, markTbl'[i])>>
      BY <3>1 DEF MarkChange, Cmd
    <3> HIDE DEF i
    <3>3. QED
      BY <3>1, <3>2 DEF TodoInv, Rest
  <2>4. QED
    BY <2>2, <2>3
<1>2. ASSUME PopMux PROVE TodoInv'
  <2> DEFINE i == Head(buffer)[1]
             S == Intfs \X (MuxStates \cup {NoMux} \cup {Vanished})
  <2>1. Head(buffer) \in S
    <3>1. buffer \in Seq(S) /\ buffer # <<>>
      BY <1>2 DEF PopMux
    <3> HIDE DEF S
    <3>2. QED
      BY <3>1
  <2>2. /\ i \in Intfs /\ markTbl[i] \in MarksOrNone /\ markTbl' = markTbl
        /\ todo' = MuxChange(i, Head(buffer)[2], markTbl[i])
    BY <1>2, <2>1 DEF PopMux
  <2>3. \/ todo' = <<Cmd("if_present", i, markTbl[i]), Cmd("delete", i, markTbl[i])>>
        \/ todo' = <<Cmd("if_absent", i, markTbl[i]), Cmd("insert", i, markTbl[i])>>
        \/ todo' = <<>>
    BY <2>2 DEF MuxChange, Cmd
  <2> HIDE DEF i
  <2>4. QED
    BY <2>2, <2>3 DEF TodoInv, Rest
<1>3. ASSUME DhcpCommand \/ DhcpCommandFails PROVE TodoInv'
  <2>1. todo # <<>> /\ markTbl' = markTbl /\ (todo' = <<>> \/ todo' = Tail(todo))
    BY <1>3 DEF DhcpCommand, DhcpCommandFails
  <2>2. PICK i \in Intfs, m \in MarksOrNone : todo \in Rest(i, m)
    BY <2>1 DEF TodoInv
  <2>3. Tail(todo) = <<>> \/ Tail(todo) \in Rest(i, m)
    BY <2>2, RestLeft
  <2>4. QED
    BY <2>1, <2>2, <2>3 DEF TodoInv, Rest
<1>4. ASSUME DhcpRestart PROVE TodoInv'
  BY <1>4 DEF DhcpRestart, TodoInv
<1>5. ASSUME UNCHANGED <<todo, markTbl>> PROVE TodoInv'
  BY <1>5 DEF TodoInv, Rest
<1>6. QED
  BY <1>1, <1>2, <1>3, <1>4, <1>5
  DEF DhcpNext, SetMark, SetMux, DhcpDbStep, SelectReady, MarksDone, MuxesDone, dhcpVars

Added(i, m) == [drops EXCEPT ![<<i, m>>] = @ + 1]
Taken(i, m) == [drops EXCEPT ![<<i, m>>] = IF @ = 0 THEN 0 ELSE @ - 1]

\* What a command does: a check ends the commands or lets them go on, the others change the rule.
LEMMA CommandDone ==
  ASSUME DhcpTypeOK, DhcpCommand, NEW op, NEW i \in Intfs, NEW m \in MarksOrNone, todo[1] = Cmd(op, i, m)
  PROVE  /\ op = "if_present" => /\ drops' = drops
                                 /\ drops[<<i, m>>] = 0 => todo' = <<>>
                                 /\ drops[<<i, m>>] # 0 => todo' = Tail(todo)
         /\ op = "if_absent" => /\ drops' = drops
                                /\ drops[<<i, m>>] > 0 => todo' = <<>>
                                /\ ~(drops[<<i, m>>] > 0) => todo' = Tail(todo)
         /\ op = "delete" => todo' = Tail(todo) /\ drops' = Taken(i, m)
         /\ op = "insert" => todo' = Tail(todo) /\ drops' = Added(i, m)
<1>1. Head(todo) = <<op, i, m>>
  BY SeqParts DEF DhcpCommand, DhcpTypeOK, Cmd
<1>2. Head(todo)[1] = op /\ <<Head(todo)[2], Head(todo)[3]>> = <<i, m>>
  BY <1>1
<1> DEFINE rule == <<Head(todo)[2], Head(todo)[3]>>
           o == Head(todo)[1]
<1>3. /\ todo' = IF \/ o = "if_present" /\ drops[rule] = 0
                    \/ o = "if_absent" /\ drops[rule] > 0
                 THEN <<>> ELSE Tail(todo)
      /\ o = "insert" => drops' = [drops EXCEPT ![rule] = @ + 1]
      /\ o = "delete" => drops' = [drops EXCEPT ![rule] = IF @ = 0 THEN 0 ELSE @ - 1]
      /\ o \notin {"insert", "delete"} => drops' = drops
  BY DEF DhcpCommand
<1>4. o = op /\ rule = <<i, m>>
  BY <1>2
<1> HIDE DEF rule, o
<1>5. QED
  BY <1>3, <1>4 DEF Added, Taken

\* A command keeps the rules of every interface in order, and what they will be.
LEMMA CommandKeeps ==
  ASSUME DhcpTypeOK, TodoInv, DhcpCommand, NEW x \in Intfs, Stands(x)
  PROVE  Stands(x)' /\ (Will(x)' <=> Will(x))
<1>1. PICK i \in Intfs, m \in MarksOrNone : todo \in Rest(i, m)
  BY DEF TodoInv, DhcpCommand
<1> DEFINE n == markTbl[i]
<1>0. todo \in {<<Cmd("if_present", i, m), Cmd("delete", i, m), Cmd("insert", i, n)>>,
                <<Cmd("delete", i, m), Cmd("insert", i, n)>>,
                <<Cmd("insert", i, n)>>,
                <<Cmd("if_present", i, n), Cmd("delete", i, n)>>,
                <<Cmd("delete", i, n)>>,
                <<Cmd("if_absent", i, n), Cmd("insert", i, n)>>}
  BY <1>1 DEF Rest
<1>2. n \in MarksOrNone /\ n = markTbl[i] /\ markTbl[x] \in MarksOrNone /\ markTbl' = markTbl
  BY DEF DhcpTypeOK, DhcpCommand
<1>3. \A y \in Intfs, o \in MarksOrNone : <<y, o>> \in DropRules /\ drops[<<y, o>>] \in Nat
  BY DEF DhcpTypeOK, DropRules
<1>4. drops \in [DropRules -> Nat]
  BY DEF DhcpTypeOK
<1> HIDE DEF n
<1>5. CASE x = i /\ todo = <<Cmd("if_present", i, m), Cmd("delete", i, m), Cmd("insert", i, n)>>
  <2>0. /\ todo # <<>> /\ todo[1] = Cmd("if_present", i, m)
        /\ todo[Len(todo)] = Cmd("insert", i, n) /\ Tail(todo) = <<Cmd("delete", i, m), Cmd("insert", i, n)>>
    BY <1>5, ThreeCommands
  <2>9. /\ todo # <<>> /\ todo[1][1] = "if_present" /\ todo[1][2] = i /\ todo[1][3] = m
        /\ todo[Len(todo)][1] = "insert"
    BY <2>0, CmdParts
  <2>1. drops' = drops /\ (drops[<<i, m>>] = 0 => todo' = <<>>)
        /\ (drops[<<i, m>>] # 0 => todo' = Tail(todo))
    BY <2>0, CommandDone
  <2>2. PICK c \in {0, 1} : Only(i, m, c)
    BY <1>5, <2>9 DEF Stands, Mine
  <2>3. CASE drops[<<i, m>>] = 0
    <3>1. todo' = <<>> /\ Only(i, n, 0) /\ ~Will(i)
      <4>1. todo' = <<>>
        BY <2>0, <2>1, <2>3
      <4>2. Only(i, n, 0)
        BY <1>2, <1>3, <2>2, <2>3 DEF Only
      <4>3. Mine(i) /\ ~Will(i)
        BY <1>2, <2>9, <4>2, <2>3 DEF Will, Mine, Only
      <4>4. QED
        BY <4>1, <4>2, <4>3
    <3>2. QED
      BY <1>2, <1>5, <2>1, <2>9, <3>1 DEF Stands, Will, Mine, Only
  <2>4. CASE drops[<<i, m>>] # 0
    <3>1. todo' = <<Cmd("delete", i, m), Cmd("insert", i, n)>> /\ Only(i, m, 1) /\ Will(i)
      <4>1. todo' = <<Cmd("delete", i, m), Cmd("insert", i, n)>>
        BY <2>0, <2>1, <2>4
      <4>2. Only(i, m, 1)
        BY <1>2, <1>3, <2>2, <2>4 DEF Only
      <4>3. Mine(i) /\ Will(i)
        BY <1>2, <2>9, <4>2, <2>4 DEF Will, Mine, Only
      <4>4. QED
        BY <4>1, <4>2, <4>3
    <3>2. todo'[1] = Cmd("delete", i, m) /\ todo'[Len(todo')] = Cmd("insert", i, n) /\ todo' # <<>>
      BY <3>1, TwoCommands
    <3>3. QED
      BY <1>2, <1>5, <2>1, <2>9, <3>1, <3>2, CmdParts DEF Stands, Will, Mine, Only
  <2>5. QED
    BY <2>3, <2>4
<1>6. CASE x = i /\ todo = <<Cmd("delete", i, m), Cmd("insert", i, n)>>
  <2>0. /\ todo # <<>> /\ todo[1] = Cmd("delete", i, m)
        /\ todo[Len(todo)] = Cmd("insert", i, n) /\ Tail(todo) = <<Cmd("insert", i, n)>>
    BY <1>6, TwoCommands
  <2>9. /\ todo # <<>> /\ todo[1][1] = "delete" /\ todo[1][2] = i /\ todo[1][3] = m
        /\ todo[Len(todo)][1] = "insert"
    BY <2>0, CmdParts
  <2>1. /\ drops' = Taken(i, m)
        /\ todo' = <<Cmd("insert", i, n)>>
    BY <2>0, CommandDone
  <2>2. Only(i, m, 1)
    BY <1>6, <2>9 DEF Stands, Mine
  <2>3. Only(i, n, 0)'
    BY <1>2, <1>3, <1>4, <2>1, <2>2 DEF Only, Added, Taken
  <2>4. todo'[1] = Cmd("insert", i, n) /\ todo'[Len(todo')] = Cmd("insert", i, n) /\ todo' # <<>>
    BY <2>1, OneCommand
  <2>5. QED
    BY <1>2, <1>6, <2>3, <2>4, CmdParts, <2>9 DEF Stands, Will, Mine, Only
<1>7. CASE x = i /\ todo = <<Cmd("insert", i, n)>>
  <2>0. todo # <<>> /\ todo[1] = Cmd("insert", i, n) /\ todo[Len(todo)] = Cmd("insert", i, n) /\ Tail(todo) = <<>>
    BY <1>7, OneCommand
  <2>9. /\ todo # <<>> /\ todo[1][1] = "insert" /\ todo[1][2] = i /\ todo[1][3] = n
        /\ todo[Len(todo)][1] = "insert"
    BY <2>0, CmdParts
  <2>1. drops' = Added(i, n) /\ todo' = <<>>
    BY <1>2, <2>0, CommandDone
  <2>2. Only(i, n, 0)
    BY <1>7, <2>9 DEF Stands, Mine
  <2>3. \A o \in MarksOrNone : drops'[<<i, o>>] = IF o = n THEN 1 ELSE 0
    BY <1>2, <1>3, <1>4, <2>1, <2>2 DEF Only, Added, Taken
  <2>4. QED
    BY <1>2, <1>7, <2>9, <2>0, CmdParts, <2>1, <2>3 DEF Stands, Will, Mine, Only
<1>8. CASE x = i /\ todo = <<Cmd("if_present", i, n), Cmd("delete", i, n)>>
  <2>0. /\ todo # <<>> /\ todo[1] = Cmd("if_present", i, n)
        /\ todo[Len(todo)] = Cmd("delete", i, n) /\ Tail(todo) = <<Cmd("delete", i, n)>>
    BY <1>8, TwoCommands
  <2>9. /\ todo # <<>> /\ todo[1][1] = "if_present" /\ todo[1][2] = i /\ todo[1][3] = n
        /\ todo[Len(todo)][1] = "delete"
    BY <2>0, CmdParts
  <2>1. drops' = drops /\ (drops[<<i, n>>] = 0 => todo' = <<>>)
        /\ (drops[<<i, n>>] # 0 => todo' = Tail(todo))
    BY <1>2, <2>0, CommandDone
  <2>2. PICK c \in {0, 1} : Only(i, n, c)
    BY <1>8, <2>9 DEF Stands, Mine
  <2>3. CASE drops[<<i, n>>] = 0
    <3>1. todo' = <<>> /\ Only(i, n, 0) /\ ~Will(i)
      <4>1. todo' = <<>>
        BY <2>0, <2>1, <2>3
      <4>2. Only(i, n, 0)
        BY <1>2, <1>3, <2>2, <2>3 DEF Only
      <4>3. Mine(i) /\ ~Will(i)
        BY <1>2, <2>9, <4>2, <2>3 DEF Will, Mine, Only
      <4>4. QED
        BY <4>1, <4>2, <4>3
    <3>2. QED
      BY <1>2, <1>8, <2>1, <2>9, <3>1 DEF Stands, Will, Mine, Only
  <2>4. CASE drops[<<i, n>>] # 0
    <3>1. todo' = <<Cmd("delete", i, n)>> /\ Only(i, n, 1) /\ ~Will(i)
      <4>1. todo' = <<Cmd("delete", i, n)>>
        BY <2>0, <2>1, <2>4
      <4>2. Only(i, n, 1)
        BY <1>2, <1>3, <2>2, <2>4 DEF Only
      <4>3. Mine(i) /\ ~Will(i)
        BY <1>2, <2>9, <4>2, <2>4 DEF Will, Mine, Only
      <4>4. QED
        BY <4>1, <4>2, <4>3
    <3>2. todo'[1] = Cmd("delete", i, n) /\ todo'[Len(todo')] = Cmd("delete", i, n) /\ todo' # <<>>
      BY <3>1, OneCommand
    <3>3. QED
      BY <1>2, <1>8, <2>1, <2>9, <3>1, <3>2, CmdParts DEF Stands, Will, Mine, Only
  <2>5. QED
    BY <2>3, <2>4
<1>9. CASE x = i /\ todo = <<Cmd("delete", i, n)>>
  <2>0. todo # <<>> /\ todo[1] = Cmd("delete", i, n) /\ todo[Len(todo)] = Cmd("delete", i, n) /\ Tail(todo) = <<>>
    BY <1>9, OneCommand
  <2>9. /\ todo # <<>> /\ todo[1][1] = "delete" /\ todo[1][2] = i /\ todo[1][3] = n
        /\ todo[Len(todo)][1] = "delete"
    BY <2>0, CmdParts
  <2>1. drops' = Taken(i, n) /\ todo' = <<>>
    BY <1>2, <2>0, CommandDone
  <2>2. Only(i, n, 1)
    BY <1>9, <2>9 DEF Stands, Mine
  <2>3. Only(i, n, 0)'
    BY <1>2, <1>3, <1>4, <2>1, <2>2 DEF Only, Added, Taken
  <2>4. QED
    BY <1>2, <1>9, <2>9, <2>0, CmdParts, <2>1, <2>3 DEF Stands, Will, Mine, Only
<1>10. CASE x = i /\ todo = <<Cmd("if_absent", i, n), Cmd("insert", i, n)>>
  <2>0. /\ todo # <<>> /\ todo[1] = Cmd("if_absent", i, n)
        /\ todo[Len(todo)] = Cmd("insert", i, n) /\ Tail(todo) = <<Cmd("insert", i, n)>>
    BY <1>10, TwoCommands
  <2>9. /\ todo # <<>> /\ todo[1][1] = "if_absent" /\ todo[1][2] = i /\ todo[1][3] = n
        /\ todo[Len(todo)][1] = "insert"
    BY <2>0, CmdParts
  <2>1. drops' = drops /\ (drops[<<i, n>>] > 0 => todo' = <<>>)
        /\ (~(drops[<<i, n>>] > 0) => todo' = Tail(todo))
    BY <1>2, <2>0, CommandDone
  <2>2. PICK c \in {0, 1} : Only(i, n, c)
    BY <1>10, <2>9 DEF Stands, Mine
  <2>3. CASE drops[<<i, n>>] > 0
    <3>1. todo' = <<>> /\ Only(i, n, 1) /\ Will(i)
      <4>1. todo' = <<>>
        BY <2>0, <2>1, <2>3
      <4>2. Only(i, n, 1)
        BY <1>2, <1>3, <2>2, <2>3 DEF Only
      <4>3. Mine(i) /\ Will(i)
        BY <1>2, <2>9, <4>2, <2>3 DEF Will, Mine, Only
      <4>4. QED
        BY <4>1, <4>2, <4>3
    <3>2. QED
      BY <1>2, <1>10, <2>1, <2>9, <3>1 DEF Stands, Will, Mine, Only
  <2>4. CASE ~(drops[<<i, n>>] > 0)
    <3>1. todo' = <<Cmd("insert", i, n)>> /\ Only(i, n, 0) /\ Will(i)
      <4>1. todo' = <<Cmd("insert", i, n)>>
        BY <2>0, <2>1, <2>4
      <4>2. Only(i, n, 0)
        BY <1>2, <1>3, <2>2, <2>4 DEF Only
      <4>3. Mine(i) /\ Will(i)
        BY <1>2, <2>9, <4>2, <2>4 DEF Will, Mine, Only
      <4>4. QED
        BY <4>1, <4>2, <4>3
    <3>2. todo'[1] = Cmd("insert", i, n) /\ todo'[Len(todo')] = Cmd("insert", i, n) /\ todo' # <<>>
      BY <3>1, OneCommand
    <3>3. QED
      BY <1>2, <1>10, <2>1, <2>9, <3>1, <3>2, CmdParts DEF Stands, Will, Mine, Only
  <2>5. QED
    BY <2>3, <2>4
<1>11. CASE x # i
  <2>1. PICK op \in {"if_present", "if_absent", "delete", "insert"}, o \in MarksOrNone :
          todo[1] = Cmd(op, i, o)
    BY <1>0, <1>2, OneCommand, TwoCommands, ThreeCommands
  <2>2. todo' # <<>> => todo'[1][2] = i
    <3>1. todo' = <<>> \/ todo' = Tail(todo)
      BY DEF DhcpCommand
    <3>2. CASE todo' = Tail(todo)
      <4>1. todo' = <<>> \/ todo' \in Rest(i, m)
        BY <1>1, <3>2, RestLeft
      <4>2. todo' # <<>> => \E b \in {"if_present", "if_absent", "delete", "insert"}, z \in MarksOrNone : todo'[1] = Cmd(b, i, z)
        BY <1>2, <4>1, OneCommand, TwoCommands, ThreeCommands DEF Rest
      <4>3. QED
        BY <4>2, CmdParts
    <3>3. QED
      BY <3>1, <3>2
  <2>3. ~Mine(x) /\ ~Mine(x)'
    <3>1. todo[1][2] = i
      BY <2>1, CmdParts
    <3>2. QED
      BY <1>11, <3>1, <2>2 DEF Mine
  <2>4. \A z \in MarksOrNone : drops'[<<x, z>>] = drops[<<x, z>>]
    <3>1. \/ drops' = drops
          \/ drops' = Taken(i, o)
          \/ drops' = Added(i, o)
      BY <2>1, CommandDone
    <3>2. QED
      BY <1>3, <1>4, <1>11, <3>1 DEF Added, Taken
  <2>5. QED
    BY <1>2, <2>3, <2>4 DEF Stands, Will, Only
<1>12. QED
  BY <1>0, <1>5, <1>6, <1>7, <1>8, <1>9, <1>10, <1>11

\* A mark that was read begins the replacement of the rule, or nothing.
LEMMA PoppedMark ==
  ASSUME DhcpTypeOK, PopMark
  PROVE  /\ todo = <<>> /\ drops' = drops /\ missed' = missed
         /\ \/ todo' = <<>> /\ markTbl' = markTbl
            \/ \E i \in Intfs, cur \in MarksOrNone :
                 /\ todo' = <<Cmd("if_present", i, markTbl[i]), Cmd("delete", i, markTbl[i]),
                              Cmd("insert", i, cur)>>
                 /\ markTbl' = [markTbl EXCEPT ![i] = cur]
<1> DEFINE i == Head(buffer)[1]
           cur == Head(buffer)[2]
           S == Intfs \X (MarksOrNone \cup {Vanished})
<1>1. Head(buffer) \in S
  <2>1. buffer \in Seq(S) /\ buffer # <<>>
    BY DEF PopMark, DhcpTypeOK
  <2> HIDE DEF S
  <2>2. QED
    BY <2>1
<1>2. CASE cur = Vanished
  BY <1>2 DEF PopMark
<1>3. CASE cur # Vanished
  <2>1. /\ i \in Intfs /\ cur \in MarksOrNone
        /\ markTbl' = [markTbl EXCEPT ![i] = cur] /\ todo' = MarkChange(i, markTbl[i], cur)
    BY <1>1, <1>3 DEF PopMark
  <2> HIDE DEF i, cur
  <2>2. QED
    BY <2>1 DEF MarkChange, Cmd, PopMark
<1>4. QED
  BY <1>2, <1>3

\* A state that was read begins the insertion or the deletion of the rule, or nothing.
LEMMA PoppedMux ==
  ASSUME DhcpTypeOK, PopMux, NEW i, i = Head(buffer)[1]
  PROVE  /\ todo = <<>> /\ UNCHANGED <<markTbl, drops, missed>> /\ i \in Intfs
         /\ Head(buffer)[2] = "standby" =>
              todo' = <<Cmd("if_absent", i, markTbl[i]), Cmd("insert", i, markTbl[i])>>
         /\ Head(buffer)[2] \in {"active", "unknown"} =>
              todo' = <<Cmd("if_present", i, markTbl[i]), Cmd("delete", i, markTbl[i])>>
         /\ Head(buffer)[2] \notin {"standby", "active", "unknown"} => todo' = <<>>
<1> DEFINE S == Intfs \X (MuxStates \cup {NoMux} \cup {Vanished})
<1>1. Head(buffer) \in S
  <2>1. buffer \in Seq(S) /\ buffer # <<>>
    BY DEF PopMux, DhcpTypeOK
  <2> HIDE DEF S
  <2>2. QED
    BY <2>1
<1>2. i \in Intfs /\ todo' = MuxChange(i, Head(buffer)[2], markTbl[i])
  BY <1>1 DEF PopMux
<1>3. todo = <<>> /\ UNCHANGED <<markTbl, drops, missed>>
  BY DEF PopMux
<1> HIDE DEF S
<1>4. QED
  BY <1>2, <1>3 DEF MuxChange, Cmd

\* A failing command concerns no interface but its own.
LEMMA FailedApart ==
  ASSUME DhcpTypeOK, TodoInv, DhcpCommandFails, NEW x \in Intfs \ missed'
  PROVE  x \notin missed /\ ~Mine(x) /\ ~Mine(x)'
<1>1. /\ todo # <<>> /\ missed' = missed \union {Head(todo)[2]}
      /\ (todo' = <<>> \/ todo' = Tail(todo))
  BY DEF DhcpCommandFails
<1>2. Head(todo) = todo[1]
  BY <1>1 DEF DhcpTypeOK
<1>3. PICK i \in Intfs, m \in MarksOrNone : todo \in Rest(i, m)
  BY <1>1 DEF TodoInv
<1>4. Tail(todo) = <<>> \/ Tail(todo) \in Rest(i, m)
  BY <1>3, RestLeft
<1>5. \A q \in Rest(i, m) : q[1][2] = i
  BY OneCommand, TwoCommands, ThreeCommands, CmdParts DEF Rest
<1>6. todo[1][2] = i /\ (todo' # <<>> => todo'[1][2] = i)
  BY <1>1, <1>3, <1>4, <1>5
<1>7. QED
  BY <1>1, <1>2, <1>6 DEF Mine

-----------------------------------------------------------------------------
(* The rules.                                                              *)

\* Every step keeps RuleInv.
LEMMA RuleStep ==
  ASSUME DhcpTypeOK, TodoInv, RuleInv, [DhcpNext]_dhcpVars
  PROVE  RuleInv'
<1>1. ASSUME PopMark PROVE RuleInv'
  <2>1. CASE todo' = <<>> /\ markTbl' = markTbl
    BY <1>1, <2>1, PoppedMark DEF RuleInv, Stands, Mine, Only
  <2>2. ASSUME NEW i \in Intfs, NEW cur \in MarksOrNone,
               todo' = <<Cmd("if_present", i, markTbl[i]), Cmd("delete", i, markTbl[i]), Cmd("insert", i, cur)>>,
               markTbl' = [markTbl EXCEPT ![i] = cur]
        PROVE  RuleInv'
    <3>1. todo'[1] = Cmd("if_present", i, markTbl[i]) /\ todo' # <<>>
      BY <2>2, ThreeCommands
    <3>2. todo'[1][1] = "if_present" /\ todo'[1][2] = i /\ todo'[1][3] = markTbl[i]
      BY <3>1, CmdParts
    <3>3. ASSUME NEW x \in Intfs \ missed PROVE Stands(x)'
      <4>1. PICK c \in {0, 1} : Only(x, markTbl[x], c)
        BY <1>1, PoppedMark DEF RuleInv, Stands, Mine
      <4>2. drops' = drops
        BY <1>1, PoppedMark
      <4>3. x # i => markTbl'[x] = markTbl[x]
        BY <2>2 DEF DhcpTypeOK
      <4>4. QED
        BY <3>1, <3>2, <4>1, <4>2, <4>3 DEF Stands, Mine, Only
    <3>4. missed' = missed
      BY <1>1, PoppedMark
    <3>5. QED
      BY <3>3, <3>4 DEF RuleInv
  <2>3. QED
    BY <1>1, <2>1, <2>2, PoppedMark
<1>2. ASSUME PopMux PROVE RuleInv'
  <2>1. PICK i : i = Head(buffer)[1]
    OBVIOUS
  <2>2. /\ todo = <<>> /\ UNCHANGED <<markTbl, drops, missed>> /\ i \in Intfs
        /\ \/ todo' = <<>>
           \/ todo' = <<Cmd("if_absent", i, markTbl[i]), Cmd("insert", i, markTbl[i])>>
           \/ todo' = <<Cmd("if_present", i, markTbl[i]), Cmd("delete", i, markTbl[i])>>
    BY <1>2, <2>1, PoppedMux
  <2>3. \/ todo' = <<>>
        \/ /\ todo' # <<>> /\ todo'[1][1] \in {"if_present", "if_absent"}
           /\ todo'[1][2] = i /\ todo'[1][3] = markTbl[i]
    BY <2>2, TwoCommands, CmdParts
  <2>4. ASSUME NEW x \in Intfs \ missed PROVE Stands(x)'
    <3>1. PICK c \in {0, 1} : Only(x, markTbl[x], c)
      BY <2>2 DEF RuleInv, Stands, Mine
    <3>2. QED
      BY <2>2, <2>3, <3>1 DEF Stands, Mine, Only
  <2>5. QED
    BY <2>2, <2>4 DEF RuleInv
<1>3. ASSUME DhcpCommand PROVE RuleInv'
  <2>1. missed' = missed
    BY <1>3 DEF DhcpCommand
  <2>2. QED
    BY <1>3, <2>1, CommandKeeps DEF RuleInv
<1>4. ASSUME DhcpCommandFails PROVE RuleInv'
  <2>1. ASSUME NEW x \in Intfs \ missed' PROVE Stands(x)'
    <3>1. x \notin missed /\ ~Mine(x) /\ ~Mine(x)'
      BY <1>4, <2>1, FailedApart
    <3>2. drops' = drops /\ markTbl' = markTbl
      BY <1>4 DEF DhcpCommandFails
    <3>3. QED
      BY <3>1, <3>2 DEF RuleInv, Stands, Only
  <2>2. QED
    BY <2>1 DEF RuleInv
<1>5. ASSUME DhcpRestart PROVE RuleInv'
  <2>1. todo' = <<>> /\ markTbl' = NoMarks /\ (drops' = NoDrops \/ missed' = Intfs)
    BY <1>5 DEF DhcpRestart
  <2>2. QED
    BY <2>1 DEF RuleInv, Stands, Mine, Only, NoDrops, DropRules
<1>6. ASSUME UNCHANGED <<todo, markTbl, drops, missed>> PROVE RuleInv'
  BY <1>6 DEF RuleInv, Stands, Mine, Only
<1>7. QED
  BY <1>1, <1>2, <1>3, <1>4, <1>5, <1>6
  DEF DhcpNext, SetMark, SetMux, DhcpDbStep, SelectReady, MarksDone, MuxesDone, dhcpVars

\* Every step keeps MuxInv.
LEMMA MuxStep ==
  ASSUME DhcpTypeOK, NotesInv, PhaseInv, TodoInv, RuleInv, MuxInv, [DhcpNext]_dhcpVars
  PROVE  MuxInv'
<1>1. ASSUME NEW i \in Intfs, NEW state \in MuxStates \union {NoMux}, SetMux(i, state) PROVE MuxInv'
  <2>1. /\ Note(i, state, NoMux) \in Notes /\ Note(i, state, NoMux)[1] = i
        /\ muxQ' = Append(muxQ, Note(i, state, NoMux)) /\ muxRow' = [muxRow EXCEPT ![i] = state]
        /\ UNCHANGED <<phase, buffer, muxLater, markTbl, todo, drops, missed>>
    BY <1>1 DEF Note, Notes, SetMux, DhcpDbStep, drain
  <2>2. ASSUME NEW x \in Intfs, ~About(muxQ', x)
        PROVE  ~About(muxQ, x) /\ muxRow'[x] = muxRow[x]
    BY <2>1, <2>2, AppendedNote DEF DhcpTypeOK
  <2>3. QED
    BY <2>1, <2>2 DEF MuxInv, Fits, Will, Mine
<1>2. ASSUME SelectReady PROVE MuxInv'
  <2>1. /\ phase = "select" /\ phase' = "marks" /\ muxLater' = muxQ
        /\ UNCHANGED <<muxRow, markTbl, todo, drops, missed>>
    BY <1>2 DEF SelectReady, dhcpDb
  <2>2. ASSUME NEW x \in Intfs \ missed, ~About(muxLater', x) PROVE Fits(muxRow[x], Will(x))
    BY <2>1, <2>2, NothingTold DEF MuxInv, PhaseInv
  <2>3. QED
    BY <2>1, <2>2 DEF MuxInv, Will, Mine
<1>3. ASSUME PopMark PROVE MuxInv'
  <2>1. phase = "marks" /\ phase' = "marks" /\ UNCHANGED <<muxRow, muxQ, muxLater, missed>>
    BY <1>3 DEF PopMark, dhcpDb, dhcpQs
  <2>2. ASSUME NEW x \in Intfs PROVE Will(x)' <=> Will(x)
    <3>1. CASE todo' = <<>> /\ markTbl' = markTbl
      BY <1>3, <3>1, PoppedMark DEF Will, Mine
    <3>2. ASSUME NEW i \in Intfs, NEW cur \in MarksOrNone,
                 todo' = <<Cmd("if_present", i, markTbl[i]), Cmd("delete", i, markTbl[i]), Cmd("insert", i, cur)>>,
                 markTbl' = [markTbl EXCEPT ![i] = cur]
          PROVE  Will(x)' <=> Will(x)
      <4>1. todo'[1] = Cmd("if_present", i, markTbl[i]) /\ todo' # <<>> /\ todo'[Len(todo')] = Cmd("insert", i, cur)
        BY <3>2, ThreeCommands
      <4>2. /\ todo'[1][1] = "if_present" /\ todo'[1][2] = i /\ todo'[1][3] = markTbl[i]
            /\ todo'[Len(todo')][1] = "insert"
        BY <4>1, CmdParts
      <4>3. x # i => markTbl'[x] = markTbl[x]
        BY <3>2 DEF DhcpTypeOK
      <4>4. todo = <<>> /\ drops' = drops
        BY <1>3, PoppedMark
      <4>5. QED
        BY <4>1, <4>2, <4>3, <4>4 DEF Will, Mine
    <3>3. QED
      BY <1>3, <3>1, <3>2, PoppedMark
  <2>3. QED
    BY <2>1, <2>2 DEF MuxInv, Fits
<1>4. ASSUME MarksDone PROVE MuxInv'
  <2>1. /\ phase = "marks" /\ phase' = "muxes" /\ buffer' = ReadRows(muxLater, muxRow, NoMux)
        /\ UNCHANGED <<muxRow, muxQ, markTbl, todo, drops, missed>>
    BY <1>4 DEF MarksDone, dhcpDb, dhcpQs
  <2>2. ASSUME NEW x \in Intfs \ missed, ~About(muxQ, x)
        PROVE  IF About(buffer', x)
               THEN \A k \in DOMAIN buffer' : IsLast(buffer', x, k) => buffer'[k][2] = muxRow[x]
               ELSE Fits(muxRow[x], Will(x))
    <3>1. LastTells(muxLater, x, muxRow[x] # NoMux) /\ muxLater \in Seq(Notes)
      BY <2>2 DEF NotesInv, DhcpTypeOK
    <3>2. ASSUME NEW b, b = ReadRows(muxLater, muxRow, NoMux)
          PROVE  /\ About(b, x) <=> About(muxLater, x)
                 /\ \A k \in DOMAIN b : IsLast(b, x, k) => b[k][2] = muxRow[x]
      BY <3>1, <3>2, ReadTells
    <3>3. /\ About(buffer', x) <=> About(muxLater, x)
          /\ \A k \in DOMAIN buffer' : IsLast(buffer', x, k) => buffer'[k][2] = muxRow[x]
      BY <2>1, <3>2
    <3>4. QED
      BY <2>1, <2>2, <3>3 DEF MuxInv
  <2>3. QED
    BY <2>1, <2>2 DEF MuxInv, Will, Mine
<1>5. ASSUME PopMux PROVE MuxInv'
  <2> DEFINE S == Intfs \X (MuxStates \cup {NoMux} \cup {Vanished})
  <2>1. /\ buffer \in Seq(S) /\ buffer # <<>> /\ buffer' = Tail(buffer)
        /\ phase = "muxes" /\ phase' = "muxes" /\ UNCHANGED <<muxRow, muxQ, muxLater, missed>>
    BY <1>5 DEF PopMux, dhcpDb, dhcpQs, DhcpTypeOK
  <2> HIDE DEF S
  <2>2. PICK i : i = Head(buffer)[1]
    OBVIOUS
  <2>3. /\ todo = <<>> /\ UNCHANGED <<markTbl, drops, missed>> /\ i \in Intfs
        /\ Head(buffer)[2] = "standby" =>
              todo' = <<Cmd("if_absent", i, markTbl[i]), Cmd("insert", i, markTbl[i])>>
        /\ Head(buffer)[2] \in {"active", "unknown"} =>
              todo' = <<Cmd("if_present", i, markTbl[i]), Cmd("delete", i, markTbl[i])>>
        /\ Head(buffer)[2] \notin {"standby", "active", "unknown"} => todo' = <<>>
    BY <1>5, <2>2, PoppedMux
  <2>4. /\ Head(buffer)[2] = "standby" =>
              /\ todo' # <<>> /\ todo'[1][1] = "if_absent" /\ todo'[1][2] = i
              /\ todo'[Len(todo')][1] = "insert"
        /\ Head(buffer)[2] \in {"active", "unknown"} =>
              /\ todo' # <<>> /\ todo'[1][1] = "if_present" /\ todo'[1][2] = i
              /\ todo'[Len(todo')][1] = "delete"
    BY <2>3, TwoCommands, CmdParts
  <2>5. todo' # <<>> => todo'[1][2] = i
    BY <2>3, <2>4
  <2>6. ASSUME NEW x \in Intfs \ missed, ~About(muxQ, x), ~About(muxLater, x)
        PROVE  IF About(buffer', x)
               THEN \A k \in DOMAIN buffer' : IsLast(buffer', x, k) => buffer'[k][2] = muxRow[x]
               ELSE Fits(muxRow[x], Will(x)')
    <3>1. /\ Head(buffer) = buffer[1] /\ Head(buffer) \in S
          /\ About(Tail(buffer), x) => About(buffer, x)
          /\ Head(buffer)[1] # x => (About(Tail(buffer), x) <=> About(buffer, x))
          /\ About(buffer, x) /\ ~About(Tail(buffer), x) => IsLast(buffer, x, 1)
          /\ \A k : IsLast(Tail(buffer), x, k) => IsLast(buffer, x, k + 1) /\ Tail(buffer)[k] = buffer[k + 1]
      BY <2>1, RestOfBuffer
    <3>2. CASE About(buffer', x)
      <4>1. \A k \in DOMAIN buffer : IsLast(buffer, x, k) => buffer[k][2] = muxRow[x]
        BY <2>1, <2>6, <3>1, <3>2 DEF MuxInv
      <4>2. QED
        BY <2>1, <3>1, <3>2, <4>1 DEF IsLast
    <3>3. CASE ~About(buffer', x) /\ About(buffer, x)
      <4>1. IsLast(buffer, x, 1)
        BY <2>1, <3>1, <3>3
      <4>2. x = i /\ Head(buffer)[2] = muxRow[x]
        BY <2>1, <2>2, <2>6, <3>1, <3>3, <4>1 DEF MuxInv, IsLast
      <4>3. Fits(muxRow[x], Will(x)')
        BY <2>4, <4>2 DEF Fits, Will, Mine
      <4>4. QED
        BY <3>3, <4>3
    <3>4. CASE ~About(buffer', x) /\ ~About(buffer, x)
      <4>1. x # i
        <5>1. 1 \in DOMAIN buffer
          BY <2>1
        <5>2. QED
          BY <2>2, <3>1, <3>4, <5>1 DEF About
      <4>2. Fits(muxRow[x], Will(x))
        BY <2>6, <3>4 DEF MuxInv
      <4>3. Will(x)' <=> Will(x)
        BY <2>3, <2>5, <4>1 DEF Will, Mine
      <4>4. QED
        BY <3>4, <4>2, <4>3 DEF Fits
    <3>5. QED
      BY <3>2, <3>3, <3>4
  <2>7. QED
    BY <2>1, <2>6 DEF MuxInv
<1>6. ASSUME MuxesDone PROVE MuxInv'
  BY <1>6, NothingTold DEF MuxesDone, MuxInv, dhcpDb, dhcpQs, Will, Mine
<1>7. ASSUME DhcpCommand PROVE MuxInv'
  <2>1. UNCHANGED <<muxRow, muxQ, phase, buffer, muxLater, missed>>
    BY <1>7 DEF DhcpCommand, dhcpDb, dhcpQs, drain
  <2>2. \A x \in Intfs \ missed : Will(x)' <=> Will(x)
    BY <1>7, CommandKeeps DEF RuleInv
  <2>3. QED
    BY <2>1, <2>2 DEF MuxInv, Fits
<1>8. ASSUME DhcpCommandFails PROVE MuxInv'
  <2>1. UNCHANGED <<muxRow, muxQ, phase, buffer, muxLater, markTbl, drops>>
    BY <1>8 DEF DhcpCommandFails, dhcpDb, dhcpQs, drain
  <2>2. ASSUME NEW x \in Intfs \ missed' PROVE x \in Intfs \ missed /\ (Will(x)' <=> Will(x))
    <3>1. x \notin missed /\ ~Mine(x) /\ ~Mine(x)'
      BY <1>8, <2>2, FailedApart
    <3>2. QED
      BY <2>1, <3>1 DEF Will
  <2>3. QED
    BY <2>1, <2>2 DEF MuxInv, Fits
<1>9. ASSUME DhcpRestart PROVE MuxInv'
  <2>1. /\ muxQ' \in Replays(muxRow, NoMux) /\ muxRow' = muxRow /\ phase' = "select"
    BY <1>9 DEF DhcpRestart, dhcpDb
  <2>2. \A x \in Intfs : muxRow[x] # NoMux => About(muxQ', x)
    BY <2>1, ReplaysAll
  <2>3. NoMux \notin {"standby", "active", "unknown"}
    BY DhcpAssumption DEF MuxStates
  <2>4. QED
    BY <2>1, <2>2, <2>3 DEF MuxInv, Fits
<1>10. ASSUME UNCHANGED <<muxRow, muxQ, phase, buffer, muxLater, markTbl, todo, drops, missed>> PROVE MuxInv'
  BY <1>10 DEF MuxInv, Will, Mine
<1>11. QED
  BY <1>1, <1>2, <1>3, <1>4, <1>5, <1>6, <1>7, <1>8, <1>9, <1>10
  DEF DhcpNext, SetMark, DhcpDbStep, dhcpVars, dhcpDb, dhcpQs, drain

-----------------------------------------------------------------------------
(* The theorems.                                                           *)

\* The invariant holds at the start and is kept by every step.
LEMMA DhcpInductive ==
  /\ DhcpInit => DhcpIInv
  /\ DhcpIInv /\ [DhcpNext]_dhcpVars => DhcpIInv'
<1>1. ASSUME DhcpInit PROVE DhcpIInv
  <2>1. /\ markRow \in [Intfs -> MarksOrNone] /\ muxRow \in [Intfs -> MuxStates \union {NoMux}]
        /\ markQ \in Replays(markRow, NoMark) /\ muxQ \in Replays(muxRow, NoMux)
        /\ phase = "select" /\ buffer = <<>> /\ muxLater = <<>> /\ todo = <<>>
        /\ markTbl = NoMarks /\ drops = NoDrops /\ missed = {} /\ dhcpChanges = 0 /\ dhcpFaults = 0
    BY <1>1 DEF DhcpInit
  <2>2. /\ markQ \in Seq(Notes) /\ muxQ \in Seq(Notes)
        /\ \A k \in DOMAIN markQ : markQ[k][2] = "set" /\ markRow[markQ[k][1]] # NoMark
        /\ \A k \in DOMAIN muxQ : muxQ[k][2] = "set" /\ muxRow[muxQ[k][1]] # NoMux
        /\ \A x \in Intfs : markRow[x] # NoMark => About(markQ, x)
        /\ \A x \in Intfs : muxRow[x] # NoMux => About(muxQ, x)
    BY <2>1, ReplaysAll
  <2>3. DhcpTypeOK
    <3>1. buffer \in Seq(Intfs \X (MarksOrNone \cup {Vanished})) /\ muxLater \in Seq(Notes) /\ todo \in Seq(Commands)
      BY <2>1
    <3>2. markTbl \in [Intfs -> MarksOrNone] /\ drops \in [DropRules -> Nat]
      BY <2>1 DEF NoMarks, NoDrops, MarksOrNone
    <3>3. QED
      BY <2>1, <2>2, <3>1, <3>2, DhcpAssumption DEF DhcpTypeOK
  <2>4. NotesInv
    BY <2>1, <2>2, NothingTold DEF NotesInv, LastTells, IsLast
  <2>5. PhaseInv /\ TodoInv
    BY <2>1 DEF PhaseInv, TodoInv
  <2>6. MarkInv
    BY <2>1, <2>2 DEF MarkInv, NoMarks
  <2>7. RuleInv
    BY <2>1 DEF RuleInv, Stands, Mine, Only, NoDrops, NoMarks, DropRules
  <2>8. MuxInv
    BY <2>1, <2>2, DhcpAssumption DEF MuxInv, Fits, MuxStates
  <2>9. QED
    BY <2>3, <2>4, <2>5, <2>6, <2>7, <2>8 DEF DhcpIInv
<1>2. ASSUME DhcpIInv, [DhcpNext]_dhcpVars PROVE DhcpIInv'
  <2>1. DhcpTypeOK /\ NotesInv /\ PhaseInv /\ MarkInv /\ TodoInv /\ RuleInv /\ MuxInv
    BY <1>2 DEF DhcpIInv
  <2>2. DhcpTypeOK' /\ NotesInv' /\ PhaseInv'
    BY <1>2, <2>1, DhcpTypeStep, NotesStep, PhaseStep
  <2>3. MarkInv' /\ TodoInv'
    BY <1>2, <2>1, MarkStep, TodoStep
  <2>4. RuleInv' /\ MuxInv'
    BY <1>2, <2>1, RuleStep, MuxStep
  <2>5. QED
    BY <2>2, <2>3, <2>4 DEF DhcpIInv
<1>3. QED
  BY <1>1, <1>2

\* Every reachable state satisfies the inductive invariant.
THEOREM DhcpInvariant == DhcpSpec => []DhcpIInv
<1>1. DhcpInit => DhcpIInv
  BY DhcpInductive
<1>2. DhcpIInv /\ [DhcpNext]_dhcpVars => DhcpIInv'
  BY DhcpInductive
<1>3. QED
  BY <1>1, <1>2, PTL DEF DhcpSpec

\* Every variable of the DHCP chain has its type.
THEOREM DhcpTypeCorrect == DhcpSpec => []DhcpTypeOK
<1>1. DhcpIInv => DhcpTypeOK
  BY DEF DhcpIInv
<1>2. QED
  BY <1>1, DhcpInvariant, PTL

\* Once every notification has been handled, an interface has its DROP rule, with the mark of the
\* table and once, when its mux is on standby, and none when it is active, but for interfaces of which
\* a command has failed.
THEOREM DropsHold == DhcpSpec => []DropsFollowTables
<1>1. ASSUME DhcpIInv PROVE DropsFollowTables
  <2>1. ASSUME DhcpAtRest, NEW i \in Intfs \ missed
        PROVE  /\ \A m \in MarksOrNone \ {markRow[i]} : drops[<<i, m>>] = 0
               /\ drops[<<i, markRow[i]>>] \in
                    CASE muxRow[i] = "standby" -> {1}
                      [] muxRow[i] \in {"active", "unknown"} -> {0}
                      [] OTHER -> {0, 1}
    <3>1. /\ phase = "select" /\ ~Mine(i) /\ ~About(markQ, i) /\ ~About(muxQ, i) /\ ~About(muxLater, i)
          /\ markRow[i] \in MarksOrNone
      BY <1>1, <2>1, NothingTold DEF DhcpAtRest, DhcpIInv, PhaseInv, Mine, DhcpTypeOK
    <3>2. markTbl[i] = markRow[i] /\ Stands(i) /\ Fits(muxRow[i], Will(i))
      BY <1>1, <2>1, <3>1 DEF DhcpIInv, MarkInv, RuleInv, MuxInv
    <3>3. PICK n \in {0, 1} : Only(i, markRow[i], n)
      BY <3>1, <3>2 DEF Stands
    <3>4. Fits(muxRow[i], n = 1) /\ drops[<<i, markRow[i]>>] = n
      BY <3>1, <3>2, <3>3 DEF Will, Only
    <3>5. QED
      BY <3>3, <3>4 DEF Only, Fits
  <2>2. QED
    BY <2>1 DEF DropsFollowTables
<1>2. QED
  BY <1>1, DhcpInvariant, PTL

-----------------------------------------------------------------------------
(* The rules of control plane ACLs: AclRules                               *)

\* Of a priority.
Digits == 0 .. 9

\* A set of natural numbers has a least element.
LEMMA Least ==
    ASSUME NEW S \in SUBSET Nat, S # {}
    PROVE  \E m \in S : \A n \in S : m <= n
<1>1. PICK m \in S : \A n \in S : ~ (<<n, m>> \in OpToRel(<, Nat))
  BY WFMin, NatLessThanWellFounded, Zenon
<1>2. \A n \in S : ~ (n < m)
  BY <1>1 DEF OpToRel
<1> QED
  BY <1>2

\* Induction over the natural numbers, said of a set.
LEMMA SetInduction ==
    ASSUME NEW S \in SUBSET Nat, 0 \in S, \A n \in S : n + 1 \in S
    PROVE  Nat \subseteq S
<1>1. SUFFICES ASSUME Nat \ S # {} PROVE FALSE
  OBVIOUS
<1>2. PICK m \in Nat \ S : \A n \in Nat \ S : m <= n
  BY <1>1, Least
<1>3. m # 0 /\ m - 1 \in Nat
  BY <1>2
<1>4. m - 1 \in S
  BY <1>2, <1>3
<1> QED
  BY <1>2, <1>3, <1>4

\* The recursion of Number has a solution.
Solves(f, d) == f = [n \in 0 .. Len(d) |-> IF n = 0 THEN 0 ELSE 10 * f[n - 1] + d[n]]

\* which is built up digit by digit.
LEMMA ValueExists ==
    ASSUME NEW d \in Seq(Digits)
    PROVE  \E f \in [0 .. Len(d) -> Nat] : Solves(f, d)
<1> DEFINE Part(f, m) == \A n \in 0 .. m : f[n] = IF n = 0 THEN 0 ELSE 10 * f[n - 1] + d[n]
           S == {m \in Nat : m <= Len(d) => \E f \in [0 .. m -> Nat] : Part(f, m)}
<1>1. 0 \in S
  <2> DEFINE f == [n \in 0 .. 0 |-> 0]
  <2>1. f \in [0 .. 0 -> Nat]
    OBVIOUS
  <2>2. Part(f, 0)
    OBVIOUS
  <2> QED
    BY <2>1, <2>2
<1>2. ASSUME NEW m \in S PROVE m + 1 \in S
  <2>0. m + 1 \in Nat
    BY <1>2
  <2>1. SUFFICES ASSUME m + 1 <= Len(d) PROVE \E f \in [0 .. m + 1 -> Nat] : Part(f, m + 1)
    BY <2>0
  <2>2. Len(d) \in Nat /\ m \in Nat /\ m <= Len(d)
    BY <1>2, <2>1
  <2>3. PICK f \in [0 .. m -> Nat] : Part(f, m)
    BY <1>2, <2>2
  <2>4. d[m + 1] \in Nat
    <3>1. m + 1 \in 1 .. Len(d)
      BY <2>1, <2>2
    <3>2. d[m + 1] \in Digits
      BY <3>1
    <3> QED
      BY <3>2 DEF Digits
  <2> DEFINE g == [n \in 0 .. m + 1 |-> IF n <= m THEN f[n] ELSE 10 * f[m] + d[m + 1]]
  <2>5. f[m] \in Nat
    BY <2>2, <2>3
  <2>6. g \in [0 .. m + 1 -> Nat]
    BY <2>2, <2>3, <2>4, <2>5
  <2>7. ASSUME NEW n \in 0 .. m + 1 PROVE g[n] = IF n = 0 THEN 0 ELSE 10 * g[n - 1] + d[n]
    <3>1. CASE n <= m
      <4>1. g[n] = f[n] /\ (n # 0 => g[n - 1] = f[n - 1])
        BY <2>2, <3>1
      <4> QED
        BY <2>2, <2>3, <3>1, <4>1
    <3>2. CASE n = m + 1
      <4>1. g[n] = 10 * f[m] + d[m + 1] /\ g[n - 1] = f[m] /\ n # 0 /\ n - 1 = m
        BY <2>2, <3>2
      <4> QED
        BY <3>2, <4>1
    <3> QED
      BY <2>2, <3>1, <3>2
  <2> QED
    BY <2>6, <2>7
<1> HIDE DEF S
<1>3. Nat \subseteq S
  <2>1. S \subseteq Nat
    BY DEF S
  <2> QED
    BY <1>1, <1>2, <2>1, SetInduction
<1>4. Len(d) \in Nat
  OBVIOUS
<1>5. PICK f \in [0 .. Len(d) -> Nat] : Part(f, Len(d))
  BY <1>3, <1>4 DEF S
<1>6. Solves(f, d)
  BY <1>5 DEF Solves
<1> QED
  BY <1>6

\* The value of a number's first n digits.
Value(d) == CHOOSE f : Solves(f, d)

\* It is what Number is defined by.
LEMMA ValueIs ==
    ASSUME NEW d \in Seq(Digits)
    PROVE  /\ Acl!Number(d) = Value(d)[Len(d)]
           /\ Solves(Value(d), d)
           /\ \A n \in 0 .. Len(d) : Value(d)[n] = IF n = 0 THEN 0 ELSE 10 * Value(d)[n - 1] + d[n]
<1>1. Acl!Number(d) = Value(d)[Len(d)]
  BY DEF Acl!Number, Value, Solves
<1>2. Solves(Value(d), d)
  BY ValueExists DEF Value
<1>3. \A n \in 0 .. Len(d) : Value(d)[n] = IF n = 0 THEN 0 ELSE 10 * Value(d)[n - 1] + d[n]
  BY <1>2 DEF Solves
<1> QED
  BY <1>1, <1>2, <1>3

\* Each of the values is a natural number.
LEMMA ValueNat ==
    ASSUME NEW d \in Seq(Digits), NEW n \in 0 .. Len(d)
    PROVE  Value(d)[n] \in Nat
<1> DEFINE S == {m \in Nat : m <= Len(d) => Value(d)[m] \in Nat}
<1>1. 0 \in S
  BY ValueIs
<1>2. ASSUME NEW m \in S PROVE m + 1 \in S
  <2>1. SUFFICES ASSUME m + 1 <= Len(d) PROVE Value(d)[m + 1] \in Nat
    BY <1>2
  <2>2. Len(d) \in Nat /\ m \in Nat /\ m <= Len(d) /\ m + 1 \in 0 .. Len(d) /\ m + 1 # 0
    BY <1>2, <2>1
  <2>3. Value(d)[m] \in Nat /\ d[m + 1] \in Nat
    BY <1>2, <2>2 DEF Digits
  <2>4. Value(d)[m + 1] = 10 * Value(d)[m] + d[m + 1]
    <3>1. (m + 1) - 1 = m
      BY <2>2
    <3> QED
      BY <2>2, <3>1, ValueIs
  <2> QED
    BY <2>3, <2>4
<1> HIDE DEF S
<1>3. Nat \subseteq S
  <2>1. S \subseteq Nat
    BY DEF S
  <2> QED
    BY <1>1, <1>2, <2>1, SetInduction
<1> QED
  BY <1>3 DEF S

\* Once a digit is larger, with the same before it, the value remains larger.
LEMMA Larger ==
    ASSUME NEW p \in Seq(Digits), NEW q \in Seq(Digits), Len(p) = Len(q), NEW m \in 1 .. Len(p),
           \A i \in 1 .. m - 1 : p[i] = q[i], p[m] > q[m]
    PROVE  Acl!Number(p) > Acl!Number(q)
<1> DEFINE S == {n \in Nat : n <= Len(p) => IF n < m THEN Value(p)[n] = Value(q)[n]
                                            ELSE Value(p)[n] > Value(q)[n]}
<1>1. Len(p) \in Nat /\ m \in Nat /\ m >= 1
  OBVIOUS
<1>2. 0 \in S
  BY <1>1, ValueIs
<1>3. ASSUME NEW n \in S PROVE n + 1 \in S
  <2>1. SUFFICES ASSUME n + 1 <= Len(p)
                 PROVE  IF n + 1 < m THEN Value(p)[n + 1] = Value(q)[n + 1]
                        ELSE Value(p)[n + 1] > Value(q)[n + 1]
    BY <1>3
  <2>2. n \in Nat /\ n <= Len(p) /\ n + 1 \in 0 .. Len(p) /\ n + 1 # 0 /\ (n + 1) - 1 = n
    BY <1>1, <1>3, <2>1
  <2>3. /\ Value(p)[n + 1] = 10 * Value(p)[n] + p[n + 1]
        /\ Value(q)[n + 1] = 10 * Value(q)[n] + q[n + 1]
    BY <2>2, ValueIs
  <2>4. n \in 0 .. Len(p) /\ n \in 0 .. Len(q) /\ n + 1 \in 1 .. Len(p)
    BY <1>1, <2>2
  <2>5. PICK a \in Nat, b \in Nat : a = Value(p)[n] /\ b = Value(q)[n]
    BY <2>4, ValueNat
  <2>6. PICK u \in 0 .. 9, v \in 0 .. 9 : u = p[n + 1] /\ v = q[n + 1]
    BY <2>4 DEF Digits
  <2>7. IF n < m THEN a = b ELSE a > b
    BY <1>3, <2>2, <2>5
  <2>8. (n + 1 < m => u = v) /\ (n + 1 = m => u > v)
    BY <1>1, <2>4, <2>6
  <2>9. /\ Value(p)[n + 1] = 10 * a + u
        /\ Value(q)[n + 1] = 10 * b + v
    BY <2>3, <2>5, <2>6
  <2>10. CASE n + 1 < m
    BY <1>1, <2>2, <2>7, <2>8, <2>9, <2>10
  <2>11. CASE n + 1 = m
    <3>1. a = b /\ u > v /\ 10 * a + u > 10 * b + v
      BY <1>1, <2>2, <2>7, <2>8, <2>11
    <3> QED
      BY <2>9, <2>11, <3>1
  <2>12. CASE n + 1 > m
    <3>1. a >= b + 1 /\ 10 * a + u > 10 * b + v
      BY <1>1, <2>2, <2>7, <2>12
    <3> QED
      BY <1>1, <2>2, <2>9, <2>12, <3>1
  <2> QED
    BY <1>1, <2>2, <2>10, <2>11, <2>12
<1> HIDE DEF S
<1>4. Nat \subseteq S
  <2>1. S \subseteq Nat
    BY DEF S
  <2> QED
    BY <1>2, <1>3, <2>1, SetInduction
<1>5. Value(p)[Len(p)] > Value(q)[Len(p)]
  BY <1>1, <1>4 DEF S
<1> QED
  BY <1>5, ValueIs

\* Two priorities of one length: the one that is not above the other is the smaller one.
LEMMA NumberOrder ==
    ASSUME NEW p \in Seq(Digits), NEW q \in Seq(Digits), Len(p) = Len(q), p # q, ~Acl!Above(q, p)
    PROVE  Acl!Number(p) > Acl!Number(q)
<1> DEFINE D == {i \in 1 .. Len(p) : p[i] # q[i]}
<1>1. Len(p) \in Nat /\ D \in SUBSET Nat
  OBVIOUS
<1>2. D # {}
  OBVIOUS
<1>3. PICK m \in D : \A i \in D : m <= i
  BY <1>1, <1>2, Least
<1>4. m \in 1 .. Len(p) /\ p[m] # q[m] /\ \A i \in 1 .. m - 1 : p[i] = q[i]
  BY <1>3
<1>5. p[m] \in 0 .. 9 /\ q[m] \in 0 .. 9
  BY <1>4 DEF Digits
<1>6. ~(q[m] > p[m])
  <2>1. PICK n : n = m - 1
    OBVIOUS
  <2>2. n \in 0 .. Len(q) - 1 /\ n <= Len(p) /\ n + 1 = m /\ n \in Nat
    BY <1>1, <1>4, <2>1
  <2>3. SubSeq(q, 1, n) = SubSeq(p, 1, n)
    <3>1. /\ SubSeq(q, 1, n) = [i \in 1 .. n |-> q[i]]
          /\ SubSeq(p, 1, n) = [i \in 1 .. n |-> p[i]]
      BY <2>2
    <3>2. \A i \in 1 .. n : q[i] = p[i]
      BY <1>4, <2>1
    <3> QED
      BY <3>1, <3>2
  <2> QED
    BY <2>2, <2>3 DEF Acl!Above
<1> QED
  BY <1>4, <1>5, <1>6, Larger

\* The update is done with service s of table t.
Finished(t, s) ==
    /\ t \notin left
    /\ t = table_name => \E i \in 1 .. service - 1 : Services[t][i] = s

\* The update is at work on it.
Now(t, s) == stage = "services" /\ t = table_name /\ s = Acl!acl_service

\* The rules made for a service are in the order of their priorities, compared as strings.
Sorted(t, s) ==
    \A i, j \in Acl!Made(t, s) :
        i < j => /\ Acl!Priority(i) # Acl!Priority(j)
                 /\ ~Acl!Above(Acl!Priority(j), Acl!Priority(i))

\* Where an update is.
WalkInv ==
    /\ stage # "services" => /\ table_name = None
                             /\ read = 0
                             /\ table_ip_version = 0
                             /\ acl_rules = {}
    /\ stage = "services" => table_name \notin left /\ order \in Acl!Orders(Acl!Own(table_name))
    /\ stage = "idle" => left = {}
    /\ stage # "idle" => ~current

\* Services that are finished have their rules, and those to come have none.
PastInv ==
    stage # "idle" \/ current =>
        \A t \in Tables : \A s \in Acl!Lists(t) :
            /\ Finished(t, s) => Acl!FollowsTable(t, s) /\ Sorted(t, s)
            /\ ~Finished(t, s) /\ ~Now(t, s) => Acl!Made(t, s) = {}

\* dst_ports is what a rule has named.
NamedInv ==
    /\ dst_ports \in named \cup {{}}
    /\ stage # "idle" => \A r \in Acl!Present : aclRule[r].ports \in named \cup {{}}

\* The rules read for the service at work.
HaveRead == {order[i] : i \in 1 .. read}

\* Those of them that are of the version found.
Fitting == {r \in HaveRead : aclRule[r].version \in {0, table_ip_version}}

\* The version and the ports found are those of rules that have been read.
FoundInv ==
    stage = "services" =>
        /\ table_ip_version # 0 => table_ip_version \in Acl!Versions(table_name)
        /\ table_ip_version = 0 => \A r \in HaveRead : aclRule[r].version = 0
        /\ table_ip_version = 0 /\ service > 1 => Acl!Versions(table_name) = {}
        /\ Acl!acl_service = "EXTERNAL_CLIENT" =>
              (\A r \in HaveRead : aclRule[r].ports = {}) \/ dst_ports \in Acl!Named(table_name)

\* What has been made for it, and of which rules.
MadeNow == Acl!Made(table_name, Acl!acl_service)
Listed  == {entries[i].rule : i \in MadeNow}

\* The rules read are those still to be made into one of iptables and those that have been.
MadeInv ==
    stage = "services" =>
        /\ MadeNow # {} => Acl!AllRead /\ ~Acl!Skipped
        /\ \A i \in MadeNow : entries[i].version = table_ip_version /\ entries[i].ports = Acl!DstPorts
        /\ acl_rules \cup Listed \subseteq Fitting
        /\ {r \in Fitting : Acl!Alone(r)} \subseteq acl_rules \cup Listed
        /\ \A k, r \in acl_rules : aclRule[k].priority = aclRule[r].priority => k = r
        /\ \A i \in MadeNow, r \in acl_rules :
              /\ Acl!Priority(i) # aclRule[r].priority
              /\ ~Acl!Above(aclRule[r].priority, Acl!Priority(i))
        /\ Sorted(table_name, Acl!acl_service)

\* The inductive invariant of the translation.
AclIInv == Acl!AclTypeOK /\ WalkInv /\ PastInv /\ NamedInv /\ FoundInv /\ MadeInv

-----------------------------------------------------------------------------
\* Where a service is, in an update.
LEMMA ServiceHere ==
    ASSUME Acl!AclTypeOK, stage = "services"
    PROVE  /\ table_name \in Tables
           /\ service \in 1 .. Len(Services[table_name])
           /\ Services[table_name] \in Seq(DOMAIN WellKnown \cup {"EXTERNAL_CLIENT"})
           /\ Acl!acl_service \in Acl!Lists(table_name)
           /\ Acl!acl_service \in Acl!AllServices
           /\ Acl!acl_service \in DOMAIN WellKnown \cup {"EXTERNAL_CLIENT"}
<1>1. table_name \in Tables /\ service \in DOMAIN Services[table_name]
  BY DEF Acl!AclTypeOK
<1>2. Services[table_name] \in Seq(DOMAIN WellKnown \cup {"EXTERNAL_CLIENT"})
  BY <1>1, AclAssumption DEF AclAssumption
<1>3. service \in 1 .. Len(Services[table_name])
  BY <1>1, <1>2
<1>4. Acl!acl_service \in Acl!Lists(table_name)
  BY <1>1 DEF Acl!Lists, Acl!acl_service
<1>5. Acl!acl_service \in Acl!AllServices
  BY <1>1, <1>4 DEF Acl!AllServices
<1>6. Acl!acl_service \in DOMAIN WellKnown \cup {"EXTERNAL_CLIENT"}
  BY <1>2, <1>3 DEF Acl!acl_service
<1> QED
  BY <1>1, <1>2, <1>3, <1>4, <1>5, <1>6

\* A rule of a table.
LEMMA OwnType ==
    ASSUME Acl!AclTypeOK, NEW t
    PROVE  /\ Acl!Own(t) \subseteq AclIds
           /\ IsFiniteSet(Acl!Own(t))
           /\ Cardinality(Acl!Own(t)) \in Nat
           /\ \A r \in Acl!Own(t) : /\ aclRule[r] \in Acl!Rows
                                    /\ aclRule[r].priority \in Seq(Digits)
                                    /\ aclRule[r].version \in {0, 4, 6}
                                    /\ aclRule[r].ports \in {row.ports : row \in Acl!Rows}
<1>1. Acl!Own(t) \subseteq AclIds
  BY DEF Acl!Own, Acl!Present
<1>2. IsFiniteSet(Acl!Own(t))
  BY <1>1, AclAssumption, FS_Subset DEF AclAssumption
<1>3. ASSUME NEW r \in Acl!Own(t) PROVE aclRule[r] \in Acl!Rows
  BY <1>3 DEF Acl!Own, Acl!Present, Acl!AclTypeOK
<1> QED
  BY <1>1, <1>2, <1>3, FS_CardinalityType, AclAssumption DEF AclAssumption, Digits

\* An instance has its own name for what it takes from the library.
LEMMA SameCardinality == \A S : Acl!Cardinality(S) = Cardinality(S)
  BY Zenon DEF Acl!Cardinality, Cardinality

\* The order in which the dictionary has the rules of a table.
LEMMA OrderType ==
    ASSUME Acl!AclTypeOK, NEW t, NEW o \in Acl!Orders(Acl!Own(t))
    PROVE  /\ o \in Seq(AclIds)
           /\ Len(o) = Cardinality(Acl!Own(t))
           /\ \A i \in 1 .. Len(o) : o[i] \in Acl!Own(t)
           /\ \A i, j \in 1 .. Len(o) : o[i] = o[j] => i = j
<1> DEFINE S == Acl!Own(t)
<1>1. S \subseteq AclIds /\ Cardinality(S) \in Nat
  BY OwnType
<1>0. o \in Acl!Orders(S)
  OBVIOUS
<1> HIDE DEF S
<1>2. o \in [1 .. Cardinality(S) -> S] /\ \A i, j \in DOMAIN o : o[i] = o[j] => i = j
  BY <1>0, SameCardinality, Zenon DEF Acl!Orders
<1>3. o \in Seq(S) /\ Len(o) = Cardinality(S)
  BY <1>1, <1>2
<1> QED
  BY <1>1, <1>2, <1>3 DEF S

\* It has all of them.
LEMMA OrderWhole ==
    ASSUME Acl!AclTypeOK, NEW t, NEW o \in Acl!Orders(Acl!Own(t))
    PROVE  {o[i] : i \in 1 .. Len(o)} = Acl!Own(t)
<1> DEFINE S == Acl!Own(t)
           n == Len(o)
<1>1. IsFiniteSet(S) /\ n = Cardinality(S) /\ n \in Nat
  BY OwnType, OrderType
<1>2. \A i \in 1 .. n : o[i] \in S
  BY OrderType
<1>3. \A i, j \in 1 .. n : o[i] = o[j] => i = j
  BY OrderType
<1> HIDE DEF S, n
<1>4. o \in [1 .. n -> S]
  <2>1. o \in Acl!Orders(S)
    BY DEF S
  <2> QED
    BY <1>1, <2>1, SameCardinality DEF Acl!Orders
<1>5. ASSUME NEW r \in S, \A i \in 1 .. n : o[i] # r PROVE FALSE
  <2>1. IsFiniteSet(S \ {r}) /\ Cardinality(S \ {r}) = n - 1
    BY <1>1, FS_RemoveElement
  <2>2. IsFiniteSet(1 .. n) /\ Cardinality(1 .. n) = n
    BY <1>1, FS_Interval
  <2>3. o \in [1 .. n -> S \ {r}]
    BY <1>2, <1>4, <1>5
  <2>4. n - 1 < n
    BY <1>1
  <2>5. \E i, j \in 1 .. n : i # j /\ o[i] = o[j]
    BY <2>1, <2>2, <2>3, <2>4, FS_PigeonHole, Zenon
  <2> QED
    BY <1>3, <2>5
<1> QED
  BY <1>2, <1>5 DEF S, n

\* The types, after each step.
LEMMA AclTypeStep ==
    ASSUME Acl!AclTypeOK, WalkInv, [Acl!AclNext]_Acl!aclVars
    PROVE  Acl!AclTypeOK'
<1>0. Acl!AclTypeOK
  OBVIOUS
<1>1. ASSUME NEW r \in AclIds, Acl!SetAclRule(r) PROVE Acl!AclTypeOK'
  <2>1. PICK row \in Offers[r] \cup {None} : aclRule' = [aclRule EXCEPT ![r] = row]
    BY <1>1 DEF Acl!SetAclRule
  <2>2. row \in Acl!Rows \cup {None}
    BY <2>1 DEF Acl!Rows
  <2>3. aclRule' \in [AclIds -> Acl!Rows \cup {None}]
    BY <1>0, <2>1, <2>2 DEF Acl!AclTypeOK
  <2>4. aclChanges' \in 0 .. MaxAclChanges
    BY <1>0, <1>1, AclAssumption DEF Acl!SetAclRule, Acl!ChangeBound, Acl!AclTypeOK, AclAssumption
  <2>5. current' \in BOOLEAN
        /\ UNCHANGED <<dst_ports, entries, named, stage, left, table_name, service, order, read,
                       table_ip_version, acl_rules>>
    BY <1>1 DEF Acl!SetAclRule, Acl!walk
  <2> QED
    BY <1>0, <2>3, <2>4, <2>5 DEF Acl!AclTypeOK
<1>2. CASE Acl!AclRestart
  <2>1. aclChanges' \in 0 .. MaxAclChanges
    BY <1>0, <1>2, AclAssumption DEF Acl!AclRestart, Acl!ChangeBound, Acl!AclTypeOK, AclAssumption
  <2>2. /\ current' \in BOOLEAN /\ dst_ports' = {} /\ named' = {}
        /\ UNCHANGED <<aclRule, entries, stage, left, table_name, service, order, read,
                       table_ip_version, acl_rules>>
    BY <1>2 DEF Acl!AclRestart, Acl!walk
  <2> QED
    BY <1>0, <2>1, <2>2 DEF Acl!AclTypeOK
<1>3. CASE Acl!StartAcls
  <2>1. named' \subseteq {row.ports : row \in Acl!Rows}
    <3>1. \A r \in Acl!Present : aclRule[r] \in Acl!Rows
      BY <1>0 DEF Acl!Present, Acl!AclTypeOK
    <3> QED
      BY <1>0, <1>3, <3>1 DEF Acl!StartAcls, Acl!AclTypeOK
  <2>2. /\ current' \in BOOLEAN /\ entries' = <<>> /\ stage' = "tables" /\ left' = Tables
        /\ UNCHANGED <<aclRule, dst_ports, table_name, service, order, read, table_ip_version,
                       acl_rules, aclChanges>>
    BY <1>3 DEF Acl!StartAcls
  <2> QED
    BY <1>0, <2>1, <2>2 DEF Acl!AclTypeOK
<1>4. ASSUME NEW t \in Tables, Acl!NextTable(t) PROVE Acl!AclTypeOK'
  <2>1. /\ left' \subseteq Tables
        /\ UNCHANGED <<aclRule, dst_ports, entries, current, named, read, table_ip_version,
                       acl_rules, aclChanges>>
    BY <1>0, <1>4 DEF Acl!NextTable, Acl!AclTypeOK
  <2>2. CASE Services[t] = <<>>
    <3>1. UNCHANGED <<stage, table_name, service, order>>
      BY <1>4, <2>2 DEF Acl!NextTable
    <3> QED
      BY <1>0, <2>1, <3>1 DEF Acl!AclTypeOK
  <2>3. CASE Services[t] # <<>>
    <3>1. stage' = "services" /\ table_name' = t /\ service' = 1 /\ order' \in Acl!Orders(Acl!Own(t))
      BY <1>4, <2>3 DEF Acl!NextTable
    <3>2. 1 \in DOMAIN Services[t]
      BY <2>3, AclAssumption DEF AclAssumption
    <3>3. order' \in Seq(AclIds) /\ Len(order') \in Nat
      BY <3>1, OrderType, OwnType
    <3>4. read' = 0
      BY <1>4, <2>1 DEF Acl!NextTable, WalkInv
    <3> QED
      BY <1>0, <2>1, <3>1, <3>2, <3>3, <3>4 DEF Acl!AclTypeOK
  <2> QED
    BY <2>2, <2>3
<1>5. CASE Acl!ReadRule
  <2> DEFINE r == order[read + 1]
  <2>1. /\ stage = "services" /\ read < Len(order) /\ read' = read + 1 /\ Acl!Reads(r)
        /\ UNCHANGED <<aclRule, entries, current, named, stage, left, table_name, service, order,
                       aclChanges>>
    BY <1>5 DEF Acl!ReadRule
  <2>2. read' \in 0 .. Len(order)
    BY <1>0, <2>1 DEF Acl!AclTypeOK
  <2>3. r \in Acl!Own(table_name)
    <3>1. read + 1 \in 1 .. Len(order)
      BY <1>0, <2>1 DEF Acl!AclTypeOK
    <3> QED
      BY <2>1, <3>1, OrderType DEF WalkInv
  <2>4. r \in AclIds /\ aclRule[r].version \in {0, 4, 6} /\ aclRule[r].ports \in {row.ports : row \in Acl!Rows}
    BY <2>3, OwnType
  <2>5. table_ip_version' \in {0, 4, 6}
    BY <1>0, <2>1, <2>4 DEF Acl!Reads, Acl!AclTypeOK
  <2>6. dst_ports' \in {row.ports : row \in Acl!Rows} \cup {{}}
    BY <1>0, <2>1, <2>4 DEF Acl!Reads, Acl!AclTypeOK
  <2>7. acl_rules' \subseteq AclIds
    BY <1>0, <2>1, <2>4 DEF Acl!Reads, Acl!AclTypeOK
  <2> HIDE DEF r
  <2> QED
    BY <1>0, <2>1, <2>2, <2>5, <2>6, <2>7 DEF Acl!AclTypeOK
<1>6. ASSUME NEW r \in AclIds, Acl!AddRule(r) PROVE Acl!AclTypeOK'
  <2> DEFINE e == [table |-> table_name, service |-> Acl!acl_service, rule |-> r,
                   version |-> table_ip_version, ports |-> Acl!DstPorts]
  <2>1. /\ stage = "services" /\ ~Acl!Skipped /\ entries' = Append(entries, e)
        /\ acl_rules' = acl_rules \ {r}
        /\ UNCHANGED <<aclRule, dst_ports, current, named, stage, left, table_name, service, order,
                       read, table_ip_version, aclChanges>>
    BY <1>6 DEF Acl!AddRule, Acl!AllRead
  <2>2. table_name \in Tables /\ Acl!acl_service \in Acl!AllServices
    BY <1>0, <2>1, ServiceHere
  <2>3. table_ip_version \in {4, 6}
    BY <1>0, <2>1 DEF Acl!Skipped, Acl!AclTypeOK
  <2>4. Acl!DstPorts \in Acl!AllPorts
    <3>1. CASE Acl!acl_service = "EXTERNAL_CLIENT"
      <4>1. Acl!DstPorts = dst_ports /\ dst_ports # {}
        BY <2>1, <3>1 DEF Acl!DstPorts, Acl!Skipped
      <4> QED
        BY <1>0, <4>1 DEF Acl!AllPorts, Acl!AclTypeOK
    <3>2. CASE Acl!acl_service # "EXTERNAL_CLIENT"
      <4>1. Acl!acl_service \in DOMAIN WellKnown
        BY <1>0, <2>1, <3>2, ServiceHere
      <4> QED
        BY <3>2, <4>1 DEF Acl!DstPorts, Acl!AllPorts
    <3> QED
      BY <3>1, <3>2
  <2>5. e \in [table : Tables, service : Acl!AllServices, rule : AclIds, version : {4, 6},
               ports : Acl!AllPorts]
    BY <2>2, <2>3, <2>4
  <2> HIDE DEF e
  <2>6. entries' \in Seq([table : Tables, service : Acl!AllServices, rule : AclIds, version : {4, 6},
                          ports : Acl!AllPorts])
    BY <1>0, <2>1, <2>5 DEF Acl!AclTypeOK
  <2> QED
    BY <1>0, <2>1, <2>6 DEF Acl!AclTypeOK
<1>7. CASE Acl!NextService
  <2>1. /\ stage = "services" /\ read' = 0 /\ acl_rules' = {}
        /\ UNCHANGED <<aclRule, dst_ports, entries, current, named, left, aclChanges>>
    BY <1>7 DEF Acl!NextService, Acl!AllRead
  <2>2. table_name \in Tables /\ service \in 1 .. Len(Services[table_name])
        /\ Services[table_name] \in Seq(DOMAIN WellKnown \cup {"EXTERNAL_CLIENT"})
    BY <1>0, <2>1, ServiceHere
  <2>3. CASE service < Len(Services[table_name])
    <3>1. service' = service + 1 /\ UNCHANGED <<stage, table_name, order, table_ip_version>>
      BY <1>7, <2>3 DEF Acl!NextService
    <3>2. service' \in DOMAIN Services[table_name'] /\ service' \in Nat
      BY <2>2, <2>3, <3>1
    <3>3. read' \in 0 .. Len(order')
      BY <1>0, <2>1, <3>1 DEF Acl!AclTypeOK
    <3> QED
      BY <1>0, <2>1, <2>2, <3>1, <3>2, <3>3 DEF Acl!AclTypeOK
  <2>4. CASE ~(service < Len(Services[table_name]))
    <3>1. /\ stage' = "tables" /\ table_name' = None /\ service' = 0 /\ order' = <<>>
          /\ table_ip_version' = 0
      BY <1>7, <2>4 DEF Acl!NextService
    <3> QED
      BY <1>0, <2>1, <3>1 DEF Acl!AclTypeOK
  <2> QED
    BY <2>3, <2>4
<1>8. CASE Acl!EndAcls
  BY <1>0, <1>8 DEF Acl!EndAcls, Acl!AclTypeOK, Acl!walk
<1>9. CASE UNCHANGED Acl!aclVars
  BY <1>0, <1>9 DEF Acl!AclTypeOK, Acl!aclVars, Acl!walk
<1> QED
  BY <1>1, <1>2, <1>3, <1>4, <1>5, <1>6, <1>7, <1>8, <1>9 DEF Acl!AclNext, Acl!UpdateAcls

\* Where an update is, after each step.
LEMMA WalkStep ==
    ASSUME Acl!AclTypeOK, WalkInv, [Acl!AclNext]_Acl!aclVars
    PROVE  WalkInv'
<1>0. Acl!AclTypeOK /\ WalkInv
  OBVIOUS
<1>1. ASSUME NEW r \in AclIds, Acl!SetAclRule(r) PROVE WalkInv'
  BY <1>0, <1>1 DEF Acl!SetAclRule, WalkInv, Acl!walk
<1>2. CASE Acl!AclRestart
  BY <1>0, <1>2 DEF Acl!AclRestart, WalkInv, Acl!walk
<1>3. CASE Acl!StartAcls
  BY <1>0, <1>3 DEF Acl!StartAcls, WalkInv
<1>4. ASSUME NEW t \in Tables, Acl!NextTable(t) PROVE WalkInv'
  <2>1. /\ stage = "tables" /\ left' = left \ {t}
        /\ UNCHANGED <<aclRule, current, read, table_ip_version, acl_rules>>
    BY <1>4 DEF Acl!NextTable
  <2>2. CASE Services[t] = <<>>
    <3>1. UNCHANGED <<stage, table_name>>
      BY <1>4, <2>2 DEF Acl!NextTable
    <3> QED
      BY <1>0, <2>1, <3>1 DEF WalkInv
  <2>3. CASE Services[t] # <<>>
    <3>1. stage' = "services" /\ table_name' = t /\ order' \in Acl!Orders(Acl!Own(t))
      BY <1>4, <2>3 DEF Acl!NextTable
    <3>2. Acl!Own(t)' = Acl!Own(t)
      BY <2>1 DEF Acl!Own, Acl!Present
    <3>3. order' \in Acl!Orders(Acl!Own(table_name))'
      BY <3>1, <3>2 DEF Acl!Orders, Acl!Own
    <3> QED
      BY <1>0, <2>1, <3>1, <3>3 DEF WalkInv
  <2> QED
    BY <2>2, <2>3
<1>5. CASE Acl!ReadRule
  <2>1. UNCHANGED <<aclRule, current, stage, left, table_name, order>> /\ stage = "services"
    BY <1>5 DEF Acl!ReadRule
  <2>2. WalkInv
    OBVIOUS
  <2> QED
    BY <2>1, <2>2 DEF WalkInv, Acl!Orders, Acl!Own, Acl!Present
<1>6. ASSUME NEW r \in AclIds, Acl!AddRule(r) PROVE WalkInv'
  BY <1>0, <1>6 DEF Acl!AddRule, Acl!AllRead, WalkInv, Acl!Orders, Acl!Own, Acl!Present
<1>7. CASE Acl!NextService
  <2>1. /\ stage = "services" /\ read' = 0 /\ acl_rules' = {} /\ UNCHANGED <<aclRule, current, left>>
    BY <1>7 DEF Acl!NextService, Acl!AllRead
  <2>2. CASE service < Len(Services[table_name])
    <3>1. UNCHANGED <<stage, table_name, order, table_ip_version>>
      BY <1>7, <2>2 DEF Acl!NextService
    <3> QED
      BY <1>0, <2>1, <3>1 DEF WalkInv, Acl!Orders, Acl!Own, Acl!Present
  <2>3. CASE ~(service < Len(Services[table_name]))
    <3>1. stage' = "tables" /\ table_name' = None /\ table_ip_version' = 0
      BY <1>7, <2>3 DEF Acl!NextService
    <3> QED
      BY <1>0, <2>1, <3>1 DEF WalkInv
  <2> QED
    BY <2>2, <2>3
<1>8. CASE Acl!EndAcls
  BY <1>0, <1>8 DEF Acl!EndAcls, WalkInv, Acl!walk
<1>9. CASE UNCHANGED Acl!aclVars
  BY <1>0, <1>9 DEF WalkInv, Acl!aclVars, Acl!walk, Acl!Orders, Acl!Own, Acl!Present
<1> QED
  BY <1>1, <1>2, <1>3, <1>4, <1>5, <1>6, <1>7, <1>8, <1>9 DEF Acl!AclNext, Acl!UpdateAcls

\* What the rules name, after each step.
LEMMA NamedStep ==
    ASSUME Acl!AclTypeOK, WalkInv, NamedInv, [Acl!AclNext]_Acl!aclVars
    PROVE  NamedInv'
<1>0. Acl!AclTypeOK /\ WalkInv /\ NamedInv
  OBVIOUS
<1>1. ASSUME NEW r \in AclIds, Acl!SetAclRule(r) PROVE NamedInv'
  BY <1>0, <1>1 DEF Acl!SetAclRule, NamedInv
<1>2. CASE Acl!AclRestart
  BY <1>0, <1>2 DEF Acl!AclRestart, NamedInv
<1>3. CASE Acl!StartAcls
  BY <1>0, <1>3 DEF Acl!StartAcls, NamedInv, Acl!Present
<1>4. ASSUME NEW t \in Tables, Acl!NextTable(t) PROVE NamedInv'
  BY <1>0, <1>4 DEF Acl!NextTable, NamedInv, Acl!Present
<1>5. CASE Acl!ReadRule
  <2> DEFINE r == order[read + 1]
  <2>1. /\ stage = "services" /\ read < Len(order) /\ Acl!Reads(r) /\ UNCHANGED <<aclRule, named, stage>>
    BY <1>5 DEF Acl!ReadRule
  <2>2. r \in Acl!Present
    <3>1. read + 1 \in 1 .. Len(order)
      BY <1>0, <2>1 DEF Acl!AclTypeOK
    <3>2. r \in Acl!Own(table_name)
      BY <2>1, <3>1, OrderType DEF WalkInv
    <3> QED
      BY <3>2 DEF Acl!Own
  <2> HIDE DEF r
  <2>3. dst_ports' \in named \cup {{}}
    BY <1>0, <2>1, <2>2 DEF Acl!Reads, NamedInv
  <2> QED
    BY <1>0, <2>1, <2>3 DEF NamedInv, Acl!Present
<1>6. ASSUME NEW r \in AclIds, Acl!AddRule(r) PROVE NamedInv'
  BY <1>0, <1>6 DEF Acl!AddRule, NamedInv, Acl!Present
<1>7. CASE Acl!NextService
  BY <1>0, <1>7 DEF Acl!NextService, Acl!AllRead, NamedInv, Acl!Present
<1>8. CASE Acl!EndAcls
  BY <1>0, <1>8 DEF Acl!EndAcls, NamedInv, Acl!walk
<1>9. CASE UNCHANGED Acl!aclVars
  BY <1>0, <1>9 DEF NamedInv, Acl!aclVars, Acl!Present
<1> QED
  BY <1>1, <1>2, <1>3, <1>4, <1>5, <1>6, <1>7, <1>8, <1>9 DEF Acl!AclNext, Acl!UpdateAcls

\* What does not depend on the rules of iptables, nor on how far an update has come.
LEMMA SameRows ==
    ASSUME UNCHANGED aclRule, NEW t
    PROVE  /\ Acl!Own(t)' = Acl!Own(t)
           /\ Acl!Named(t)' = Acl!Named(t)
           /\ Acl!Versions(t)' = Acl!Versions(t)
           /\ \A r : Acl!Alone(r)' <=> Acl!Alone(r)
<1>1. \A x : Acl!Own(x)' = Acl!Own(x)
  BY DEF Acl!Own, Acl!Present
<1>2. Acl!Named(t)' = Acl!Named(t)
  BY <1>1 DEF Acl!Named
<1>3. Acl!Versions(t)' = Acl!Versions(t)
  BY <1>1 DEF Acl!Versions
<1>4. ASSUME NEW r PROVE Acl!Alone(r)' <=> Acl!Alone(r)
  BY <1>1 DEF Acl!Alone
<1> QED
  BY <1>1, <1>2, <1>3, <1>4

\* The rule read next.
LEMMA NextRead ==
    ASSUME Acl!AclTypeOK, WalkInv, Acl!ReadRule, NEW r, r = order[read + 1]
    PROVE  /\ HaveRead' = HaveRead \cup {r}
           /\ r \in Acl!Own(table_name) \ HaveRead
           /\ HaveRead \subseteq Acl!Own(table_name)
<1>1. /\ stage = "services" /\ read < Len(order) /\ read' = read + 1 /\ UNCHANGED order
  BY DEF Acl!ReadRule
<1>2. order \in Acl!Orders(Acl!Own(table_name))
  BY <1>1 DEF WalkInv
<1>3. /\ \A i \in 1 .. Len(order) : order[i] \in Acl!Own(table_name)
      /\ \A i, j \in 1 .. Len(order) : order[i] = order[j] => i = j
      /\ order \in Seq(AclIds)
  BY <1>2, OrderType
<1>4. Len(order) \in Nat /\ read \in 0 .. Len(order) /\ read + 1 \in 1 .. Len(order)
  BY <1>1, <1>3 DEF Acl!AclTypeOK
<1>5. HaveRead' = HaveRead \cup {r}
  BY <1>1, <1>4 DEF HaveRead
<1>6. r \notin HaveRead
  BY <1>3, <1>4 DEF HaveRead
<1>7. HaveRead \subseteq Acl!Own(table_name)
  BY <1>3, <1>4 DEF HaveRead
<1>8. r \in Acl!Own(table_name)
  BY <1>3, <1>4
<1> QED
  BY <1>5, <1>6, <1>7, <1>8

\* At the end all rules of the table have been read.
LEMMA WholeRead ==
    ASSUME Acl!AclTypeOK, WalkInv, Acl!AllRead
    PROVE  HaveRead = Acl!Own(table_name)
  BY OrderWhole DEF Acl!AllRead, WalkInv, HaveRead

\* When a service begins, none has been.
LEMMA NothingRead ==
    ASSUME read' = 0
    PROVE  HaveRead' = {}
  BY DEF HaveRead

\* The version and the ports found, after each step.
LEMMA FoundStep ==
    ASSUME Acl!AclTypeOK, WalkInv, FoundInv, [Acl!AclNext]_Acl!aclVars
    PROVE  FoundInv'
<1>0. Acl!AclTypeOK /\ WalkInv /\ FoundInv
  OBVIOUS
<1>1. ASSUME NEW r \in AclIds, Acl!SetAclRule(r) PROVE FoundInv'
  BY <1>1 DEF Acl!SetAclRule, FoundInv
<1>2. CASE Acl!AclRestart
  BY <1>2 DEF Acl!AclRestart, FoundInv
<1>3. CASE Acl!StartAcls
  BY <1>3 DEF Acl!StartAcls, FoundInv
<1>4. ASSUME NEW t \in Tables, Acl!NextTable(t) PROVE FoundInv'
  <2>1. stage = "tables" /\ UNCHANGED <<read, table_ip_version>>
    BY <1>4 DEF Acl!NextTable
  <2>2. read' = 0 /\ table_ip_version' = 0 /\ HaveRead' = {}
    BY <1>0, <2>1, NothingRead DEF WalkInv
  <2>3. CASE Services[t] = <<>>
    BY <1>4, <2>1, <2>3 DEF Acl!NextTable, FoundInv
  <2>4. CASE Services[t] # <<>>
    <3>1. service' = 1
      BY <1>4, <2>4 DEF Acl!NextTable
    <3> QED
      BY <2>2, <3>1 DEF FoundInv
  <2> QED
    BY <2>3, <2>4
<1>5. CASE Acl!ReadRule
  <2>1. PICK r : r = order[read + 1]
    OBVIOUS
  <2>2. /\ stage = "services" /\ Acl!Reads(r)
        /\ UNCHANGED <<aclRule, entries, stage, table_name, service>>
    BY <1>5, <2>1 DEF Acl!ReadRule
  <2>3. HaveRead' = HaveRead \cup {r} /\ r \in Acl!Own(table_name)
    BY <1>5, <2>1, NextRead
  <2>4. Acl!acl_service' = Acl!acl_service
    BY <2>2 DEF Acl!acl_service
  <2>5. PICK t : t = table_name
    OBVIOUS
  <2>6. /\ Acl!Named(t)' = Acl!Named(t) /\ Acl!Versions(t)' = Acl!Versions(t)
    BY <2>2, SameRows
  <2>7. /\ aclRule[r].version # 0 => aclRule[r].version \in Acl!Versions(t)
        /\ aclRule[r].ports # {} => aclRule[r].ports \in Acl!Named(t)
    BY <2>3, <2>5 DEF Acl!Versions, Acl!Named
  <2>8. /\ table_ip_version # 0 => table_ip_version \in Acl!Versions(t)
        /\ table_ip_version = 0 => \A k \in HaveRead : aclRule[k].version = 0
        /\ table_ip_version = 0 /\ service > 1 => Acl!Versions(t) = {}
        /\ Acl!acl_service = "EXTERNAL_CLIENT" =>
              (\A k \in HaveRead : aclRule[k].ports = {}) \/ dst_ports \in Acl!Named(t)
    BY <1>0, <2>2, <2>5 DEF FoundInv
  <2>9. /\ table_ip_version' = IF table_ip_version = 0 THEN aclRule[r].version ELSE table_ip_version
        /\ dst_ports' = IF Acl!acl_service = "EXTERNAL_CLIENT" /\ aclRule[r].ports # {}
                        THEN aclRule[r].ports ELSE dst_ports
    BY <2>2 DEF Acl!Reads
  <2>10. /\ table_ip_version' # 0 => table_ip_version' \in Acl!Versions(t)
         /\ table_ip_version' = 0 => \A k \in HaveRead' : aclRule'[k].version = 0
         /\ table_ip_version' = 0 /\ service' > 1 => Acl!Versions(t) = {}
    BY <2>2, <2>3, <2>7, <2>8, <2>9
  <2>11. Acl!acl_service = "EXTERNAL_CLIENT" =>
            (\A k \in HaveRead' : aclRule'[k].ports = {}) \/ dst_ports' \in Acl!Named(t)
    BY <2>2, <2>3, <2>7, <2>8, <2>9
  <2>12. Acl!Named(table_name)' = Acl!Named(t)' /\ Acl!Versions(table_name)' = Acl!Versions(t)'
    BY <2>2, <2>5 DEF Acl!Named, Acl!Versions, Acl!Own
  <2> QED
    BY <2>4, <2>6, <2>10, <2>11, <2>12 DEF FoundInv
<1>6. ASSUME NEW r \in AclIds, Acl!AddRule(r) PROVE FoundInv'
  BY <1>0, <1>6 DEF Acl!AddRule, Acl!AllRead, FoundInv, HaveRead, Acl!acl_service, Acl!Named,
                    Acl!Versions, Acl!Own, Acl!Present
<1>7. CASE Acl!NextService
  <2>1. /\ Acl!AllRead /\ stage = "services" /\ read' = 0 /\ UNCHANGED aclRule
    BY <1>7 DEF Acl!NextService, Acl!AllRead
  <2>2. HaveRead' = {}
    BY <2>1, NothingRead
  <2>3. CASE service < Len(Services[table_name])
    <3>1. UNCHANGED <<table_name, table_ip_version>>
      BY <1>7, <2>3 DEF Acl!NextService
    <3>2. HaveRead = Acl!Own(table_name)
      BY <2>1, WholeRead
    <3>3. PICK t : t = table_name
      OBVIOUS
    <3>4. /\ table_ip_version # 0 => table_ip_version \in Acl!Versions(t)
          /\ table_ip_version = 0 => \A k \in HaveRead : aclRule[k].version = 0
      BY <1>0, <2>1, <3>3 DEF FoundInv
    <3>5. table_ip_version = 0 => Acl!Versions(t) = {}
      BY <3>2, <3>3, <3>4 DEF Acl!Versions
    <3>6. Acl!Versions(table_name)' = Acl!Versions(t)
      BY <2>1, <3>1, <3>3 DEF Acl!Versions, Acl!Own, Acl!Present
    <3> QED
      BY <2>2, <3>1, <3>4, <3>5, <3>6 DEF FoundInv
  <2>4. CASE ~(service < Len(Services[table_name]))
    <3>1. stage' = "tables"
      BY <1>7, <2>4 DEF Acl!NextService
    <3> QED
      BY <3>1 DEF FoundInv
  <2> QED
    BY <2>3, <2>4
<1>8. CASE Acl!EndAcls
  BY <1>8 DEF Acl!EndAcls, FoundInv
<1>9. CASE UNCHANGED Acl!aclVars
  BY <1>0, <1>9 DEF FoundInv, HaveRead, Acl!acl_service, Acl!Named, Acl!Versions, Acl!Own, Acl!Present,
                    Acl!aclVars, Acl!walk
<1> QED
  BY <1>1, <1>2, <1>3, <1>4, <1>5, <1>6, <1>7, <1>8, <1>9 DEF Acl!AclNext, Acl!UpdateAcls

-----------------------------------------------------------------------------
\* A service that has been dealt with has the rules of its table.
LEMMA ServiceDone ==
    ASSUME Acl!AclTypeOK, WalkInv, NamedInv, FoundInv, MadeInv, Acl!AllRead,
           Acl!Skipped \/ acl_rules = {}
    PROVE  /\ Acl!FollowsTable(table_name, Acl!acl_service)
           /\ Sorted(table_name, Acl!acl_service)
<1>1. stage = "services"
  BY DEF Acl!AllRead
<1>2. PICK t, s : t = table_name /\ s = Acl!acl_service
  OBVIOUS
<1>3. HaveRead = Acl!Own(t)
  BY <1>2, WholeRead
<1>4. /\ table_ip_version # 0 => table_ip_version \in Acl!Versions(t)
      /\ table_ip_version = 0 => \A r \in Acl!Own(t) : aclRule[r].version = 0
      /\ s = "EXTERNAL_CLIENT" => (\A r \in Acl!Own(t) : aclRule[r].ports = {}) \/ dst_ports \in Acl!Named(t)
  BY <1>1, <1>2, <1>3 DEF FoundInv
<1>5. Sorted(t, s)
  BY <1>1, <1>2 DEF MadeInv
<1>6. CASE Acl!Skipped
  <2>1. Acl!Made(t, s) = {}
    BY <1>1, <1>2, <1>6 DEF MadeInv, MadeNow
  <2>2. CASE table_ip_version = 0
    <3>1. Acl!Versions(t) = {}
      BY <1>4, <2>2 DEF Acl!Versions
    <3> QED
      BY <1>2, <1>5, <2>1, <3>1 DEF Acl!FollowsTable
  <2>3. CASE Acl!DstPorts = {}
    <3>1. s = "EXTERNAL_CLIENT" /\ dst_ports = {}
      <4>1. s \in DOMAIN WellKnown \cup {"EXTERNAL_CLIENT"}
        BY <1>1, <1>2, ServiceHere
      <4>2. \A x \in DOMAIN WellKnown : WellKnown[x] # {}
        BY AclAssumption DEF AclAssumption
      <4> QED
        BY <1>2, <2>3, <4>1, <4>2 DEF Acl!DstPorts
    <3>2. Acl!Named(t) = {}
      BY <1>4, <3>1 DEF Acl!Named
    <3> QED
      BY <1>2, <1>5, <2>1, <3>1, <3>2 DEF Acl!FollowsTable
  <2> QED
    BY <1>6, <2>2, <2>3 DEF Acl!Skipped
<1>7. CASE ~Acl!Skipped
  <2>1. acl_rules = {} /\ table_ip_version # 0 /\ Acl!DstPorts # {}
    BY <1>7 DEF Acl!Skipped
  <2>2. PICK v, ports : v = table_ip_version /\ ports = Acl!DstPorts
    OBVIOUS
  <2>3. v \in Acl!Versions(t)
    BY <1>4, <2>1, <2>2
  <2>4. ports \in Acl!PortsFor(t, s)
    <3>1. CASE s # "EXTERNAL_CLIENT"
      BY <1>2, <2>2, <3>1 DEF Acl!DstPorts, Acl!PortsFor
    <3>2. CASE s = "EXTERNAL_CLIENT"
      <4>1. ports = dst_ports /\ dst_ports # {}
        BY <1>2, <2>1, <2>2, <3>2 DEF Acl!DstPorts
      <4>2. dst_ports \in named
        BY <4>1 DEF NamedInv
      <4>3. dst_ports \in Acl!Named(t) \/ Acl!Named(t) = {}
        BY <1>4, <3>2 DEF Acl!Named
      <4> QED
        BY <3>2, <4>1, <4>2, <4>3 DEF Acl!PortsFor
    <3> QED
      BY <3>1, <3>2
  <2> DEFINE fits   == {r \in Acl!Own(t) : aclRule[r].version \in {0, v}}
             listed == {entries[i].rule : i \in Acl!Made(t, s)}
  <2>5. Fitting = fits
    BY <1>3, <2>2 DEF Fitting
  <2>6. Listed = listed
    BY <1>2 DEF Listed, MadeNow
  <2>7. \A i \in Acl!Made(t, s) : entries[i].version = v /\ entries[i].ports = ports
    BY <1>1, <1>2, <2>2 DEF MadeInv, MadeNow
  <2>8. {r \in fits : Acl!Alone(r)} \subseteq listed /\ listed \subseteq fits
    BY <1>1, <2>1, <2>5, <2>6 DEF MadeInv
  <2>9. Acl!FollowsTable(t, s)
    BY <2>3, <2>4, <2>7, <2>8, Zenon DEF Acl!FollowsTable
  <2> QED
    BY <1>2, <1>5, <2>9
<1> QED
  BY <1>6, <1>7

\* A service is either finished or at work, and a table lists it once.
LEMMA NowFinished ==
    ASSUME Acl!AclTypeOK, stage = "services"
    PROVE  ~Finished(table_name, Acl!acl_service)
<1>1. /\ table_name \in Tables /\ service \in 1 .. Len(Services[table_name])
      /\ Services[table_name] \in Seq(DOMAIN WellKnown \cup {"EXTERNAL_CLIENT"})
  BY ServiceHere
<1>2. \A i, j \in DOMAIN Services[table_name] : Services[table_name][i] = Services[table_name][j] => i = j
  BY <1>1, AclAssumption DEF AclAssumption
<1>3. \A i \in 1 .. service - 1 : i \in DOMAIN Services[table_name] /\ i # service
  BY <1>1
<1> QED
  BY <1>1, <1>2, <1>3 DEF Finished, Acl!acl_service

\* Nothing has been made for a service that is begun.
LEMMA NothingMade ==
    ASSUME Acl!AclTypeOK, stage # "idle" \/ current, PastInv,
           NEW t \in Tables, NEW s \in Acl!Lists(t), ~Finished(t, s), ~Now(t, s)
    PROVE  Acl!Made(t, s) = {}
  BY DEF PastInv

\* What MadeInv says when nothing has been made or read.
LEMMA MadeEmpty ==
    ASSUME MadeNow' = {}, HaveRead' = {}, acl_rules' = {}
    PROVE  MadeInv'
<1>1. Listed' = {} /\ Fitting' = {}
  BY DEF Listed, Fitting
<1>2. Sorted(table_name, Acl!acl_service)'
  BY DEF Sorted, MadeNow
<1> QED
  BY <1>1, <1>2 DEF MadeInv

\* One more rule of iptables is one of the service at work.
LEMMA MadeMore ==
    ASSUME Acl!AclTypeOK, NEW r, Acl!AddRule(r), NEW n, n = Len(entries) + 1
    PROVE  /\ Len(entries) \in Nat
           /\ DOMAIN entries' = DOMAIN entries \cup {n} /\ n \notin DOMAIN entries
           /\ DOMAIN entries = 1 .. Len(entries)
           /\ \A i \in DOMAIN entries : entries'[i] = entries[i]
           /\ entries'[n] = [table |-> table_name, service |-> Acl!acl_service, rule |-> r,
                             version |-> table_ip_version, ports |-> Acl!DstPorts]
<1>1. entries \in Seq([table : Tables, service : Acl!AllServices, rule : AclIds, version : {4, 6},
                       ports : Acl!AllPorts])
  BY DEF Acl!AclTypeOK
<1>2. entries' = Append(entries, [table |-> table_name, service |-> Acl!acl_service, rule |-> r,
                                  version |-> table_ip_version, ports |-> Acl!DstPorts])
  BY DEF Acl!AddRule
<1> DEFINE e == [table |-> table_name, service |-> Acl!acl_service, rule |-> r,
                 version |-> table_ip_version, ports |-> Acl!DstPorts]
<1>3. entries' = Append(entries, e)
  BY <1>2
<1> HIDE DEF e
<1>4. Len(entries) \in Nat /\ DOMAIN entries = 1 .. Len(entries)
  BY <1>1
<1>5. DOMAIN entries' = 1 .. n /\ \A i \in 1 .. Len(entries) : entries'[i] = entries[i]
  BY <1>1, <1>3
<1>6. entries'[n] = e
  BY <1>1, <1>3
<1> QED
  BY <1>4, <1>5, <1>6 DEF e

\* The rules of the service at work, after each step.
LEMMA MadeStep ==
    ASSUME Acl!AclTypeOK, WalkInv, PastInv, FoundInv, MadeInv, [Acl!AclNext]_Acl!aclVars
    PROVE  MadeInv'
<1>0. Acl!AclTypeOK /\ WalkInv /\ PastInv /\ FoundInv /\ MadeInv
  OBVIOUS
<1>1. ASSUME NEW r \in AclIds, Acl!SetAclRule(r) PROVE MadeInv'
  BY <1>1 DEF Acl!SetAclRule, MadeInv
<1>2. CASE Acl!AclRestart
  BY <1>2 DEF Acl!AclRestart, MadeInv
<1>3. CASE Acl!StartAcls
  BY <1>3 DEF Acl!StartAcls, MadeInv
<1>4. ASSUME NEW t \in Tables, Acl!NextTable(t) PROVE MadeInv'
  <2>1. stage = "tables" /\ t \in left /\ UNCHANGED <<entries, read, acl_rules>>
    BY <1>4 DEF Acl!NextTable
  <2>2. read' = 0 /\ HaveRead' = {} /\ acl_rules' = {}
    BY <1>0, <2>1, NothingRead DEF WalkInv
  <2>3. CASE Services[t] = <<>>
    BY <1>4, <2>1, <2>3 DEF Acl!NextTable, MadeInv
  <2>4. CASE Services[t] # <<>>
    <3>1. table_name' = t /\ service' = 1
      BY <1>4, <2>4 DEF Acl!NextTable
    <3>2. PICK s : s = Services[t][1]
      OBVIOUS
    <3>3. s \in Acl!Lists(t)
      BY <2>4, <3>2, AclAssumption DEF AclAssumption, Acl!Lists
    <3>4. ~Finished(t, s) /\ ~Now(t, s)
      BY <2>1 DEF Finished, Now
    <3>5. Acl!Made(t, s) = {}
      BY <1>0, <2>1, <3>3, <3>4, NothingMade
    <3>6. MadeNow' = {}
      BY <2>1, <3>1, <3>2, <3>5 DEF MadeNow, Acl!Made, Acl!acl_service
    <3> QED
      BY <2>2, <3>6, MadeEmpty
  <2> QED
    BY <2>3, <2>4
<1>5. CASE Acl!ReadRule
  <2>1. PICK r : r = order[read + 1]
    OBVIOUS
  <2>2. /\ stage = "services" /\ Acl!Reads(r) /\ read < Len(order)
        /\ UNCHANGED <<aclRule, entries, stage, table_name, service>>
    BY <1>5, <2>1 DEF Acl!ReadRule
  <2>3. /\ HaveRead' = HaveRead \cup {r} /\ r \in Acl!Own(table_name) \ HaveRead
        /\ HaveRead \subseteq Acl!Own(table_name)
    BY <1>5, <2>1, NextRead
  <2>4. MadeNow = {}
    <3>1. read # Len(order)
      BY <1>0, <2>2 DEF Acl!AclTypeOK
    <3> QED
      BY <1>0, <2>2, <3>1 DEF MadeInv, Acl!AllRead
  <2>5. MadeNow' = {} /\ Listed' = {} /\ Listed = {}
    BY <2>2, <2>4 DEF MadeNow, Listed, Acl!Made, Acl!acl_service
  <2>6. Sorted(table_name, Acl!acl_service)'
    BY <2>5 DEF MadeNow, Sorted
  <2>7. PICK v, w : v = table_ip_version /\ w = table_ip_version'
    OBVIOUS
  <2>8. /\ v \in {0, 4, 6} /\ w = IF v = 0 THEN aclRule[r].version ELSE v
        /\ acl_rules' = {k \in acl_rules : aclRule[k].priority # aclRule[r].priority}
                        \cup (IF {aclRule[r].version, w} = {4, 6} THEN {} ELSE {r})
    BY <1>0, <2>2, <2>7 DEF Acl!Reads, Acl!AclTypeOK
  <2>9. /\ acl_rules \subseteq HaveRead
        /\ \A k \in acl_rules : aclRule[k].version \in {0, v}
        /\ \A k \in HaveRead : aclRule[k].version \in {0, v} /\ Acl!Alone(k) => k \in acl_rules
        /\ \A k, l \in acl_rules : aclRule[k].priority = aclRule[l].priority => k = l
    BY <1>0, <2>2, <2>5, <2>7 DEF MadeInv, Fitting
  <2>10. v = 0 => \A k \in HaveRead : aclRule[k].version = 0
    BY <1>0, <2>2, <2>7 DEF FoundInv
  <2>11. aclRule[r].version \in {0, 4, 6}
    BY <2>3, OwnType
  <2>12. {aclRule[r].version, w} = {4, 6} <=> aclRule[r].version \notin {0, w}
    BY <2>8, <2>11
  <2>13. \A k \in HaveRead : aclRule[k].version \in {0, w} <=> aclRule[k].version \in {0, v}
    BY <2>8, <2>10
  <2>14. acl_rules' \subseteq Fitting'
    <3>1. \A k \in acl_rules' : k \in HaveRead' /\ aclRule'[k].version \in {0, w}
      BY <2>2, <2>3, <2>8, <2>9, <2>12, <2>13
    <3> QED
      BY <2>7, <3>1 DEF Fitting
  <2>15. ASSUME NEW k \in Fitting', Acl!Alone(k)' PROVE k \in acl_rules'
    <3>1. k \in HaveRead \cup {r} /\ aclRule[k].version \in {0, w}
      BY <2>2, <2>3, <2>7, <2>15 DEF Fitting
    <3>2. Acl!Alone(k)
      BY <2>2, <2>15, SameRows
    <3>3. CASE k = r
      BY <2>8, <2>12, <3>1, <3>3
    <3>4. CASE k \in HaveRead
      <4>1. k \in acl_rules
        BY <2>9, <2>13, <3>1, <3>2, <3>4
      <4>2. k # r /\ TableOf[k] = table_name /\ r \in Acl!Own(table_name)
        BY <2>3, <3>4 DEF Acl!Own
      <4>3. aclRule[k].priority # aclRule[r].priority
        BY <3>2, <4>2 DEF Acl!Alone
      <4> QED
        BY <2>8, <4>1, <4>3
    <3> QED
      BY <3>1, <3>3, <3>4
  <2>16. \A k, l \in acl_rules' : aclRule'[k].priority = aclRule'[l].priority => k = l
    BY <2>2, <2>8, <2>9
  <2> QED
    BY <2>5, <2>6, <2>14, <2>15, <2>16 DEF MadeInv
<1>6. ASSUME NEW r \in AclIds, Acl!AddRule(r) PROVE MadeInv'
  <2>1. /\ stage = "services" /\ Acl!AllRead /\ ~Acl!Skipped /\ r \in acl_rules
        /\ \A k \in acl_rules : ~Acl!Above(aclRule[k].priority, aclRule[r].priority)
        /\ acl_rules' = acl_rules \ {r}
        /\ UNCHANGED <<aclRule, dst_ports, stage, table_name, service, order, read, table_ip_version>>
    BY <1>6 DEF Acl!AddRule, Acl!AllRead
  <2>2. PICK n : n = Len(entries) + 1
    OBVIOUS
  <2>3. /\ Len(entries) \in Nat
        /\ DOMAIN entries' = DOMAIN entries \cup {n} /\ n \notin DOMAIN entries
        /\ DOMAIN entries = 1 .. Len(entries)
        /\ \A i \in DOMAIN entries : entries'[i] = entries[i]
        /\ entries'[n] = [table |-> table_name, service |-> Acl!acl_service, rule |-> r,
                          version |-> table_ip_version, ports |-> Acl!DstPorts]
    BY <1>0, <1>6, <2>2, MadeMore
  <2>4. Acl!acl_service' = Acl!acl_service
    BY <2>1 DEF Acl!acl_service
  <2>5. Acl!DstPorts' = Acl!DstPorts /\ (Acl!AllRead /\ ~Acl!Skipped)'
    BY <2>1, <2>4 DEF Acl!DstPorts, Acl!AllRead, Acl!Skipped
  <2>6. MadeNow' = MadeNow \cup {n} /\ n \notin MadeNow
    BY <2>1, <2>3, <2>4 DEF MadeNow, Acl!Made
  <2>7. MadeNow \subseteq DOMAIN entries
    BY DEF MadeNow, Acl!Made
  <2>8. /\ entries'[n].rule = r /\ entries'[n].version = table_ip_version /\ entries'[n].ports = Acl!DstPorts
        /\ \A i \in MadeNow : entries'[i] = entries[i] /\ i < n
    <3>1. \A i \in MadeNow : entries'[i] = entries[i] /\ i \in 1 .. Len(entries)
      BY <2>3, <2>7
    <3> QED
      BY <2>2, <2>3, <3>1
  <2>9. Listed' = Listed \cup {r}
    BY <2>6, <2>8 DEF Listed
  <2>10. /\ \A i \in MadeNow : entries[i].version = table_ip_version /\ entries[i].ports = Acl!DstPorts
         /\ acl_rules \cup Listed \subseteq Fitting
         /\ {k \in Fitting : Acl!Alone(k)} \subseteq acl_rules \cup Listed
         /\ \A k, l \in acl_rules : aclRule[k].priority = aclRule[l].priority => k = l
         /\ \A i \in MadeNow, k \in acl_rules :
               /\ aclRule[entries[i].rule].priority # aclRule[k].priority
               /\ ~Acl!Above(aclRule[k].priority, aclRule[entries[i].rule].priority)
         /\ Sorted(table_name, Acl!acl_service)
    BY <1>0, <2>1 DEF MadeInv, Acl!Priority
  <2>11. Fitting' = Fitting
    BY <2>1 DEF Fitting, HaveRead
  <2>12. \A k : Acl!Alone(k)' <=> Acl!Alone(k)
    BY <2>1, SameRows
  <2>13. \A i \in MadeNow' : entries'[i].version = table_ip_version' /\ entries'[i].ports = Acl!DstPorts'
    BY <2>1, <2>5, <2>6, <2>8, <2>10
  <2>14. acl_rules' \cup Listed' = acl_rules \cup Listed
    BY <2>1, <2>9
  <2>15. {k \in Fitting' : Acl!Alone(k)'} \subseteq acl_rules' \cup Listed'
    BY <2>10, <2>11, <2>12, <2>14
  <2>16. \A k, l \in acl_rules' : aclRule'[k].priority = aclRule'[l].priority => k = l
    BY <2>1, <2>10
  <2>17. \A i \in MadeNow' : Acl!Priority(i)' = aclRule[entries'[i].rule].priority
    BY <2>1 DEF Acl!Priority
  <2>18. \A i \in MadeNow', k \in acl_rules' :
            /\ aclRule[entries'[i].rule].priority # aclRule[k].priority
            /\ ~Acl!Above(aclRule[k].priority, aclRule[entries'[i].rule].priority)
    BY <2>1, <2>6, <2>8, <2>10
  <2>19. Sorted(table_name, Acl!acl_service)'
    <3>1. SUFFICES ASSUME NEW i \in MadeNow', NEW j \in MadeNow', i < j
                   PROVE  /\ aclRule[entries'[i].rule].priority # aclRule[entries'[j].rule].priority
                          /\ ~Acl!Above(aclRule[entries'[j].rule].priority, aclRule[entries'[i].rule].priority)
      BY <2>1 DEF Sorted, MadeNow, Acl!Priority, Acl!Above
    <3>2. i \in MadeNow
      <4>1. j \in 1 .. n
        BY <2>2, <2>3, <2>6, <2>7
      <4> QED
        BY <2>2, <2>3, <2>6, <3>1, <4>1
    <3>3. CASE j \in MadeNow
      <4>1. entries'[i] = entries[i] /\ entries'[j] = entries[j]
        BY <2>8, <3>2, <3>3
      <4>2. Acl!Priority(i) # Acl!Priority(j) /\ ~Acl!Above(Acl!Priority(j), Acl!Priority(i))
        BY <2>10, <3>1, <3>2, <3>3 DEF Sorted, MadeNow
      <4> QED
        BY <4>1, <4>2 DEF Acl!Priority
    <3>4. CASE j = n
      BY <2>1, <2>8, <2>10, <3>2, <3>4
    <3> QED
      BY <2>6, <3>3, <3>4
  <2>20. \A i \in MadeNow', k \in acl_rules' :
            /\ Acl!Priority(i)' # aclRule'[k].priority
            /\ ~Acl!Above(aclRule'[k].priority, Acl!Priority(i)')
    BY <2>1, <2>17, <2>18
  <2> QED
    BY <2>5, <2>10, <2>11, <2>13, <2>14, <2>15, <2>16, <2>19, <2>20 DEF MadeInv, Acl!Above
<1>7. CASE Acl!NextService
  <2>1. /\ stage = "services" /\ read' = 0 /\ acl_rules' = {} /\ UNCHANGED <<entries, left>>
    BY <1>7 DEF Acl!NextService, Acl!AllRead
  <2>2. HaveRead' = {}
    BY <2>1, NothingRead
  <2>3. CASE service < Len(Services[table_name])
    <3>1. service' = service + 1 /\ UNCHANGED <<stage, table_name>>
      BY <1>7, <2>3 DEF Acl!NextService
    <3>2. PICK t, s : t = table_name /\ s = Services[t][service + 1]
      OBVIOUS
    <3>3. /\ t \in Tables /\ service \in 1 .. Len(Services[t])
          /\ Services[t] \in Seq(DOMAIN WellKnown \cup {"EXTERNAL_CLIENT"})
      BY <1>0, <2>1, <3>2, ServiceHere
    <3>4. \A i, j \in DOMAIN Services[t] : Services[t][i] = Services[t][j] => i = j
      BY <3>3, AclAssumption DEF AclAssumption
    <3>5. service + 1 \in DOMAIN Services[t] /\ service \in DOMAIN Services[t]
          /\ \A i \in 1 .. service - 1 : i \in DOMAIN Services[t]
      BY <2>3, <3>2, <3>3
    <3>6. s \in Acl!Lists(t)
      BY <3>2, <3>5 DEF Acl!Lists
    <3>7. ~Finished(t, s)
      BY <3>2, <3>3, <3>4, <3>5 DEF Finished
    <3>8. ~Now(t, s)
      BY <3>2, <3>3, <3>4, <3>5 DEF Now, Acl!acl_service
    <3>9. Acl!Made(t, s) = {}
      BY <1>0, <2>1, <3>3, <3>6, <3>7, <3>8, NothingMade
    <3>10. MadeNow' = {}
      BY <2>1, <3>1, <3>2, <3>9 DEF MadeNow, Acl!Made, Acl!acl_service
    <3> QED
      BY <2>1, <2>2, <3>10, MadeEmpty
  <2>4. CASE ~(service < Len(Services[table_name]))
    <3>1. stage' = "tables"
      BY <1>7, <2>4 DEF Acl!NextService
    <3> QED
      BY <3>1 DEF MadeInv
  <2> QED
    BY <2>3, <2>4
<1>8. CASE Acl!EndAcls
  BY <1>8 DEF Acl!EndAcls, MadeInv
<1>9. CASE UNCHANGED Acl!aclVars
  BY <1>0, <1>9 DEF MadeInv, HaveRead, Fitting, MadeNow, Listed, Sorted, Acl!acl_service, Acl!Made,
     Acl!AllRead, Acl!Skipped, Acl!DstPorts, Acl!Priority, Acl!Above, Acl!Alone, Acl!Own, Acl!Present,
     Acl!aclVars, Acl!walk
<1> QED
  BY <1>1, <1>2, <1>3, <1>4, <1>5, <1>6, <1>7, <1>8, <1>9 DEF Acl!AclNext, Acl!UpdateAcls

\* What has been made for a service stays as it is while the rows and its own rules do.
LEMMA FollowsKept ==
    ASSUME NEW t, NEW s, UNCHANGED <<aclRule, named>>, Acl!Made(t, s)' = Acl!Made(t, s),
           \A i \in Acl!Made(t, s) : entries'[i] = entries[i],
           Acl!FollowsTable(t, s), Sorted(t, s)
    PROVE  Acl!FollowsTable(t, s)' /\ Sorted(t, s)'
<1>1. PICK M : M = Acl!Made(t, s)
  OBVIOUS
<1>2. Acl!Made(t, s)' = M /\ \A i \in M : entries'[i] = entries[i]
  BY <1>1
<1>3. \A i \in M : Acl!Priority(i)' = Acl!Priority(i)
  BY <1>2 DEF Acl!Priority
<1>4. Sorted(t, s)'
  BY <1>1, <1>2, <1>3 DEF Sorted, Acl!Above
<1>5. /\ Acl!Own(t)' = Acl!Own(t)
      /\ Acl!Named(t)' = Acl!Named(t)
      /\ Acl!Versions(t)' = Acl!Versions(t)
      /\ \A r : Acl!Alone(r)' <=> Acl!Alone(r)
  BY SameRows
<1>6. CASE Acl!Made(t, s) = {} /\ (Acl!Versions(t) = {} \/ (s = "EXTERNAL_CLIENT" /\ Acl!Named(t) = {}))
  BY <1>2, <1>4, <1>5, <1>6, <1>1 DEF Acl!FollowsTable
<1>7. CASE \E v \in Acl!Versions(t), ports \in Acl!PortsFor(t, s) :
              LET fits   == {r \in Acl!Own(t) : aclRule[r].version \in {0, v}}
                  listed == {entries[i].rule : i \in Acl!Made(t, s)}
              IN  /\ \A i \in Acl!Made(t, s) : entries[i].version = v /\ entries[i].ports = ports
                  /\ {r \in fits : Acl!Alone(r)} \subseteq listed
                  /\ listed \subseteq fits
  <2>1. PICK v \in Acl!Versions(t), ports \in Acl!PortsFor(t, s) :
              /\ \A i \in M : entries[i].version = v /\ entries[i].ports = ports
              /\ {r \in {x \in Acl!Own(t) : aclRule[x].version \in {0, v}} : Acl!Alone(r)}
                    \subseteq {entries[i].rule : i \in M}
              /\ {entries[i].rule : i \in M} \subseteq {x \in Acl!Own(t) : aclRule[x].version \in {0, v}}
    BY <1>1, <1>7, Zenon
  <2>2. v \in Acl!Versions(t)' /\ ports \in Acl!PortsFor(t, s)'
    BY <1>5, <2>1 DEF Acl!PortsFor
  <2> DEFINE fits   == {r \in Acl!Own(t)' : aclRule'[r].version \in {0, v}}
             listed == {entries'[i].rule : i \in Acl!Made(t, s)'}
  <2>3. fits = {x \in Acl!Own(t) : aclRule[x].version \in {0, v}}
    BY <1>5
  <2>4. listed = {entries[i].rule : i \in M}
    BY <1>2
  <2>5. \A i \in Acl!Made(t, s)' : entries'[i].version = v /\ entries'[i].ports = ports
    BY <1>2, <2>1
  <2>6. {r \in fits : Acl!Alone(r)'} \subseteq listed /\ listed \subseteq fits
    BY <1>5, <2>1, <2>3, <2>4
  <2> HIDE DEF fits, listed
  <2>7. Acl!FollowsTable(t, s)'
    BY <2>2, <2>5, <2>6, Zenon DEF Acl!FollowsTable, fits, listed
  <2> QED
    BY <1>4, <2>7
<1> QED
  BY <1>6, <1>7, Zenon DEF Acl!FollowsTable

\* The same when no rule of iptables changes, and the update does not move on.
LEMMA PastKept ==
    ASSUME PastInv, stage # "idle" \/ current, UNCHANGED <<aclRule, named, entries>>,
           \A t \in Tables : \A s \in Acl!Lists(t) : Finished(t, s)' => Finished(t, s),
           \A t \in Tables : \A s \in Acl!Lists(t) :
               ~Finished(t, s)' /\ ~Now(t, s)' => ~Finished(t, s) /\ ~Now(t, s)
    PROVE  PastInv'
<1>1. ASSUME NEW t \in Tables, NEW s \in Acl!Lists(t)
      PROVE  /\ Finished(t, s)' => Acl!FollowsTable(t, s)' /\ Sorted(t, s)'
             /\ ~Finished(t, s)' /\ ~Now(t, s)' => Acl!Made(t, s)' = {}
  <2>1. Acl!Made(t, s)' = Acl!Made(t, s)
    BY DEF Acl!Made
  <2>2. /\ Finished(t, s) => Acl!FollowsTable(t, s) /\ Sorted(t, s)
        /\ ~Finished(t, s) /\ ~Now(t, s) => Acl!Made(t, s) = {}
    BY DEF PastInv
  <2>3. /\ Finished(t, s)' => Finished(t, s)
        /\ ~Finished(t, s)' /\ ~Now(t, s)' => ~Finished(t, s) /\ ~Now(t, s)
    OBVIOUS
  <2>4. ASSUME Finished(t, s)' PROVE Acl!FollowsTable(t, s)' /\ Sorted(t, s)'
    BY <2>1, <2>2, <2>3, <2>4, FollowsKept
  <2> QED
    BY <2>1, <2>2, <2>3, <2>4
<1> QED
  BY <1>1 DEF PastInv, Acl!Lists

\* The rules of the other services, after each step.
LEMMA PastStep ==
    ASSUME Acl!AclTypeOK, WalkInv, PastInv, NamedInv, FoundInv, MadeInv, [Acl!AclNext]_Acl!aclVars
    PROVE  PastInv'
<1>0. Acl!AclTypeOK /\ WalkInv /\ PastInv /\ NamedInv /\ FoundInv /\ MadeInv
  OBVIOUS
<1>n. None \notin Tables
  BY AclAssumption DEF AclAssumption
<1>1. ASSUME NEW r \in AclIds, Acl!SetAclRule(r) PROVE PastInv'
  BY <1>1 DEF Acl!SetAclRule, PastInv
<1>2. CASE Acl!AclRestart
  BY <1>2 DEF Acl!AclRestart, PastInv
<1>3. CASE Acl!StartAcls
  <2>1. left' = Tables /\ entries' = <<>>
    BY <1>3 DEF Acl!StartAcls
  <2>2. ASSUME NEW t \in Tables, NEW s PROVE ~Finished(t, s)' /\ Acl!Made(t, s)' = {}
    BY <2>1 DEF Finished, Acl!Made
  <2> QED
    BY <2>2 DEF PastInv, Acl!Lists
<1>4. ASSUME NEW u \in Tables, Acl!NextTable(u) PROVE PastInv'
  <2>1. /\ stage = "tables" /\ u \in left /\ left' = left \ {u}
        /\ UNCHANGED <<aclRule, named, entries>>
    BY <1>4 DEF Acl!NextTable
  <2>2. table_name = None
    BY <1>0, <2>1 DEF WalkInv
  <2>3. CASE Services[u] = <<>>
    <3>1. UNCHANGED <<stage, table_name, service>>
      BY <1>4, <2>3 DEF Acl!NextTable
    <3>2. Acl!Lists(u) = {}
      BY <2>3 DEF Acl!Lists
    <3>3. ASSUME NEW t \in Tables, NEW s \in Acl!Lists(t)
          PROVE  (Finished(t, s)' <=> Finished(t, s)) /\ ~Now(t, s) /\ ~Now(t, s)'
      <4>1. t # u
        BY <3>2, <3>3
      <4> QED
        BY <2>1, <3>1, <4>1 DEF Finished, Now
    <3> QED
      BY <1>0, <2>1, <3>3, PastKept
  <2>4. CASE Services[u] # <<>>
    <3>1. stage' = "services" /\ table_name' = u /\ service' = 1
      BY <1>4, <2>4 DEF Acl!NextTable
    <3>2. ASSUME NEW t \in Tables, NEW s \in Acl!Lists(t)
          PROVE  /\ Finished(t, s)' => Finished(t, s)
                 /\ ~Finished(t, s)' /\ ~Now(t, s)' => ~Finished(t, s) /\ ~Now(t, s)
      <4>1. ~Now(t, s)
        BY <2>1 DEF Now
      <4>2. CASE t = u
        <5>1. ~Finished(t, s)
          BY <2>1, <4>2 DEF Finished
        <5>2. ~Finished(t, s)'
          BY <3>1, <4>2 DEF Finished
        <5> QED
          BY <4>1, <5>1, <5>2
      <4>3. CASE t # u
        <5>1. Finished(t, s)' <=> Finished(t, s)
          BY <1>n, <2>1, <2>2, <3>1, <4>3 DEF Finished
        <5> QED
          BY <4>1, <5>1
      <4> QED
        BY <4>2, <4>3
    <3> QED
      BY <1>0, <2>1, <3>2, PastKept
  <2> QED
    BY <2>3, <2>4
<1>5. CASE Acl!ReadRule
  <2>1. /\ stage = "services"
        /\ UNCHANGED <<aclRule, named, entries, stage, left, table_name, service>>
    BY <1>5 DEF Acl!ReadRule
  <2>2. ASSUME NEW t, NEW s PROVE (Finished(t, s)' <=> Finished(t, s)) /\ (Now(t, s)' <=> Now(t, s))
    BY <2>1 DEF Finished, Now, Acl!acl_service
  <2> QED
    BY <1>0, <2>1, <2>2, PastKept
<1>6. ASSUME NEW r \in AclIds, Acl!AddRule(r) PROVE PastInv'
  <2>1. /\ stage = "services"
        /\ UNCHANGED <<aclRule, named, stage, left, table_name, service>>
    BY <1>6 DEF Acl!AddRule, Acl!AllRead
  <2>2. PICK n : n = Len(entries) + 1
    OBVIOUS
  <2>3. /\ DOMAIN entries' = DOMAIN entries \cup {n} /\ n \notin DOMAIN entries
        /\ \A i \in DOMAIN entries : entries'[i] = entries[i]
        /\ entries'[n] = [table |-> table_name, service |-> Acl!acl_service, rule |-> r,
                          version |-> table_ip_version, ports |-> Acl!DstPorts]
    BY <1>0, <1>6, <2>2, MadeMore
  <2>4. ASSUME NEW t \in Tables, NEW s \in Acl!Lists(t)
        PROVE  /\ Finished(t, s)' => Acl!FollowsTable(t, s)' /\ Sorted(t, s)'
               /\ ~Finished(t, s)' /\ ~Now(t, s)' => Acl!Made(t, s)' = {}
    <3>1. /\ Finished(t, s)' <=> Finished(t, s)
          /\ Now(t, s)' <=> Now(t, s)
      BY <2>1 DEF Finished, Now, Acl!acl_service
    <3>2. CASE Now(t, s)
      BY <1>0, <2>1, <3>1, <3>2, NowFinished DEF Now
    <3>3. CASE ~Now(t, s)
      <4>1. entries'[n].table = table_name /\ entries'[n].service = Acl!acl_service
        BY <2>3
      <4>2. Acl!Made(t, s)' = Acl!Made(t, s)
        BY <2>1, <2>3, <3>3, <4>1 DEF Acl!Made, Now
      <4>3. \A i \in Acl!Made(t, s) : entries'[i] = entries[i]
        BY <2>3 DEF Acl!Made
      <4>4. /\ Finished(t, s) => Acl!FollowsTable(t, s) /\ Sorted(t, s)
            /\ ~Finished(t, s) /\ ~Now(t, s) => Acl!Made(t, s) = {}
        BY <1>0, <2>1 DEF PastInv
      <4>5. ASSUME Finished(t, s) PROVE Acl!FollowsTable(t, s)' /\ Sorted(t, s)'
        BY <2>1, <4>2, <4>3, <4>4, <4>5, FollowsKept
      <4> QED
        BY <3>1, <4>2, <4>4, <4>5
    <3> QED
      BY <3>2, <3>3
  <2> QED
    BY <2>4 DEF PastInv, Acl!Lists
<1>7. CASE Acl!NextService
  <2>1. /\ Acl!AllRead /\ stage = "services" /\ (Acl!Skipped \/ acl_rules = {})
        /\ UNCHANGED <<aclRule, named, entries, left>>
    BY <1>7 DEF Acl!NextService, Acl!AllRead
  <2>2. Acl!FollowsTable(table_name, Acl!acl_service) /\ Sorted(table_name, Acl!acl_service)
    BY <1>0, <2>1, ServiceDone
  <2>3. /\ table_name \in Tables /\ service \in 1 .. Len(Services[table_name])
        /\ Services[table_name] \in Seq(DOMAIN WellKnown \cup {"EXTERNAL_CLIENT"})
        /\ table_name \notin left
    BY <1>0, <2>1, ServiceHere DEF WalkInv
  <2>4. ASSUME NEW t \in Tables, NEW s \in Acl!Lists(t)
        PROVE  /\ Finished(t, s)' => Finished(t, s) \/ Now(t, s)
               /\ ~Finished(t, s)' /\ ~Now(t, s)' => ~Finished(t, s) /\ ~Now(t, s)
    <3>1. CASE service < Len(Services[table_name])
      <4>1. service' = service + 1 /\ UNCHANGED <<stage, table_name>>
        BY <1>7, <3>1 DEF Acl!NextService
      <4>2. CASE t # table_name
        BY <2>1, <4>1, <4>2 DEF Finished, Now
      <4>3. CASE t = table_name
        <5>1. service \in Nat /\ service >= 1 /\ service' - 1 = service
          BY <2>3, <4>1
        <5>2. (\E i \in 1 .. service' - 1 : Services[t][i] = s)
              <=> (\E i \in 1 .. service - 1 : Services[t][i] = s) \/ s = Services[t][service]
          BY <5>1
        <5> QED
          BY <2>1, <2>3, <4>1, <4>3, <5>2 DEF Finished, Now, Acl!acl_service
      <4> QED
        BY <4>2, <4>3
    <3>2. CASE ~(service < Len(Services[table_name]))
      <4>1. table_name' = None
        BY <1>7, <3>2 DEF Acl!NextService
      <4>2. Finished(t, s)' <=> t \notin left
        BY <1>n, <2>1, <4>1 DEF Finished
      <4>3. CASE t # table_name
        BY <4>2, <4>3 DEF Finished, Now
      <4>4. CASE t = table_name
        <5>1. PICK i \in DOMAIN Services[t] : s = Services[t][i]
          BY DEF Acl!Lists
        <5>2. i \in 1 .. service - 1 \/ i = service
          BY <2>3, <3>2, <4>4, <5>1
        <5>3. Finished(t, s) \/ Now(t, s)
          BY <2>1, <2>3, <4>4, <5>1, <5>2 DEF Finished, Now, Acl!acl_service
        <5> QED
          BY <2>3, <4>2, <4>4, <5>3
      <4> QED
        BY <4>3, <4>4
    <3> QED
      BY <3>1, <3>2
  <2>5. ASSUME NEW t \in Tables, NEW s \in Acl!Lists(t)
        PROVE  /\ Finished(t, s)' => Acl!FollowsTable(t, s)' /\ Sorted(t, s)'
               /\ ~Finished(t, s)' /\ ~Now(t, s)' => Acl!Made(t, s)' = {}
    <3>1. Acl!Made(t, s)' = Acl!Made(t, s)
      BY <2>1 DEF Acl!Made
    <3>2. Finished(t, s) \/ Now(t, s) => Acl!FollowsTable(t, s) /\ Sorted(t, s)
      BY <1>0, <2>1, <2>2 DEF PastInv, Now
    <3>3. ASSUME Finished(t, s)' PROVE Acl!FollowsTable(t, s)' /\ Sorted(t, s)'
      BY <2>1, <2>4, <3>1, <3>2, <3>3, FollowsKept
    <3>4. ~Finished(t, s) /\ ~Now(t, s) => Acl!Made(t, s) = {}
      BY <1>0, <2>1 DEF PastInv
    <3> QED
      BY <2>4, <3>1, <3>3, <3>4
  <2> QED
    BY <2>5 DEF PastInv, Acl!Lists
<1>8. CASE Acl!EndAcls
  <2>1. /\ stage = "tables" /\ stage' = "idle"
        /\ UNCHANGED <<aclRule, named, entries, left, table_name, service>>
    BY <1>8 DEF Acl!EndAcls, Acl!walk
  <2>2. ASSUME NEW t, NEW s PROVE (Finished(t, s)' <=> Finished(t, s)) /\ ~Now(t, s) /\ ~Now(t, s)'
    BY <2>1 DEF Finished, Now
  <2> QED
    BY <1>0, <2>1, <2>2, PastKept
<1>9. CASE UNCHANGED Acl!aclVars
  <2>1. UNCHANGED <<aclRule, named, entries, stage, current, left, table_name, service>>
    BY <1>9 DEF Acl!aclVars, Acl!walk
  <2>2. ASSUME NEW t, NEW s PROVE (Finished(t, s)' <=> Finished(t, s)) /\ (Now(t, s)' <=> Now(t, s))
    BY <2>1 DEF Finished, Now, Acl!acl_service
  <2>3. CASE stage # "idle" \/ current
    BY <1>0, <2>1, <2>2, <2>3, PastKept
  <2>4. CASE ~(stage # "idle" \/ current)
    BY <2>1, <2>4 DEF PastInv
  <2> QED
    BY <2>3, <2>4
<1> QED
  BY <1>1, <1>2, <1>3, <1>4, <1>5, <1>6, <1>7, <1>8, <1>9 DEF Acl!AclNext, Acl!UpdateAcls

\* The invariant holds at first,
LEMMA AclBegins == Acl!AclInit => AclIInv
<1> SUFFICES ASSUME Acl!AclInit PROVE AclIInv
  OBVIOUS
<1>1. /\ aclRule \in [AclIds -> Acl!Rows \cup {None}]
      /\ dst_ports = {} /\ entries = <<>> /\ current = FALSE /\ named = {}
      /\ stage = "idle" /\ left = {} /\ table_name = None /\ service = 0 /\ order = <<>>
      /\ read = 0 /\ table_ip_version = 0 /\ acl_rules = {} /\ aclChanges = 0
  BY DEF Acl!AclInit
<1>2. Acl!AclTypeOK
  <2>1. order \in Seq(AclIds) /\ read \in 0 .. Len(order)
    BY <1>1
  <2>2. entries \in Seq([table : Tables, service : Acl!AllServices, rule : AclIds, version : {4, 6},
                         ports : Acl!AllPorts])
    BY <1>1
  <2>3. aclChanges \in 0 .. MaxAclChanges
    BY <1>1, AclAssumption DEF AclAssumption
  <2> QED
    BY <1>1, <2>1, <2>2, <2>3 DEF Acl!AclTypeOK
<1>3. WalkInv /\ PastInv /\ NamedInv /\ FoundInv /\ MadeInv
  BY <1>1 DEF WalkInv, PastInv, NamedInv, FoundInv, MadeInv
<1> QED
  BY <1>2, <1>3 DEF AclIInv

\* and every step keeps it.
LEMMA AclInductive == AclIInv /\ [Acl!AclNext]_Acl!aclVars => AclIInv'
  BY AclTypeStep, WalkStep, PastStep, NamedStep, FoundStep, MadeStep DEF AclIInv

\* The invariant gives the property.
LEMMA AclInvFollows == AclIInv => Acl!RulesFollowRows
<1> SUFFICES ASSUME AclIInv, current, NEW t \in Tables, NEW s \in Acl!Lists(t)
             PROVE  Acl!FollowsTable(t, s) /\ Acl!InOrder(t, s)
  BY DEF Acl!RulesFollowRows
<1>1. Acl!AclTypeOK /\ WalkInv /\ PastInv
  BY DEF AclIInv
<1>2. left = {} /\ table_name = None /\ None \notin Tables
  BY <1>1, AclAssumption DEF WalkInv, AclAssumption
<1>3. Finished(t, s)
  BY <1>2 DEF Finished
<1>4. Acl!FollowsTable(t, s) /\ Sorted(t, s)
  BY <1>1, <1>3 DEF PastInv
<1>5. \A i \in Acl!Made(t, s) : Acl!Priority(i) \in Seq(Digits)
  <2>1. SUFFICES ASSUME NEW i \in Acl!Made(t, s) PROVE Acl!Priority(i) \in Seq(Digits)
    OBVIOUS
  <2>2. entries[i].rule \in Acl!Own(t)
    BY <1>4, Zenon DEF Acl!FollowsTable
  <2> QED
    BY <1>1, <2>2, OwnType DEF Acl!Priority
<1>6. ASSUME NEW i \in Acl!Made(t, s), NEW j \in Acl!Made(t, s), i < j,
             Len(Acl!Priority(i)) = Len(Acl!Priority(j))
      PROVE  Acl!Number(Acl!Priority(i)) > Acl!Number(Acl!Priority(j))
  <2>1. Acl!Priority(i) # Acl!Priority(j) /\ ~Acl!Above(Acl!Priority(j), Acl!Priority(i))
    BY <1>4, <1>6 DEF Sorted
  <2>2. PICK p \in Seq(Digits), q \in Seq(Digits) : p = Acl!Priority(i) /\ q = Acl!Priority(j)
    BY <1>5
  <2>3. Len(p) = Len(q) /\ p # q /\ ~Acl!Above(q, p)
    BY <1>6, <2>1, <2>2
  <2>4. Acl!Number(p) > Acl!Number(q)
    BY <2>3, NumberOrder
  <2> QED
    BY <2>2, <2>4
<1> QED
  BY <1>4, <1>6 DEF Acl!InOrder

-----------------------------------------------------------------------------
(* All of caclmgrd's rules: MCCaclRules                                    *)

\* Every reachable state of a translation satisfies the inductive invariant.
THEOREM AclInvariant == Acl!AclSpec => []AclIInv
  BY AclBegins, AclInductive, PTL DEF Acl!AclSpec

\* A behaviour of caclmgrd is one of each of its three parts.
LEMMA Parts == RulesSpec => Spec /\ DhcpSpec /\ Acl!AclSpec
<1>1. RulesInit => Init /\ DhcpInit /\ Acl!AclInit
  BY DEF RulesInit
<1>2. [RulesNext]_rulesVars => [Next]_vars
  BY DEF RulesNext, rulesVars
<1>3. [RulesNext]_rulesVars => [DhcpNext]_dhcpVars
  BY DEF RulesNext, rulesVars
<1>4. UNCHANGED aclVars => UNCHANGED Acl!aclVars
  BY DEF aclVars, Acl!aclVars, Acl!walk
<1>5. [RulesNext]_rulesVars => [Acl!AclNext]_Acl!aclVars
  BY <1>4 DEF RulesNext, rulesVars
<1> QED
  BY <1>1, <1>2, <1>3, <1>5, PTL DEF RulesSpec, Spec, DhcpSpec, Acl!AclSpec

\* Every variable of what caclmgrd makes of databases has its type.
THEOREM RulesTypeCorrect == RulesSpec => []RulesTypeOK
<1>1. TypeOK /\ DhcpTypeOK /\ AclIInv => RulesTypeOK
  BY DEF RulesTypeOK, AclIInv
<1> QED
  BY <1>1, Parts, CaclTypeCorrect, DhcpTypeCorrect, AclInvariant, PTL

\* After an update each service of a table has the table's rules, of one IP version, with one set of
\* ports and in descending order of their priorities, but for the exceptions AclRules names.
THEOREM RulesHold == RulesSpec => []RulesFollowRows
<1>1. AclIInv => RulesFollowRows
  BY AclInvFollows DEF RulesFollowRows
<1> QED
  BY <1>1, Parts, AclInvariant, PTL
=============================================================================
