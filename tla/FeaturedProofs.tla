--------------------------- MODULE FeaturedProofs ---------------------------
(***************************************************************************)
(* Theorems about the two daemons that keep services as CONFIG_DB asks:    *)
(* featured, for any features, templates and numbers of changes and        *)
(* faults, and hostcfgd, for any values of its rows. The first half is     *)
(* about featured: its cache follows the rows, STATE_DB follows the cache, *)
(* and delayed features wait. The second is about hostcfgd: its services   *)
(* are made of their rows. Both say what holds between two notifications,  *)
(* so that the invariants have to tell where every feature and item is     *)
(* while a notification waits, a job is under way or a row is read.        *)
(***************************************************************************)
EXTENDS MCFeatured, TLAPS

\* A job is under way.
Working == mpc \in {"apply", "resync", "write"}

\* Whose job it is, and where the feature stands meanwhile: a job has an entry in the cache; the
\* start and the delayed services bring a feature to the state it is cached with; a delayed feature
\* is only worked on once it may start.
JobInv ==
    /\ Working => /\ job.feature \in Features /\ job.by \in {"start", "handler", "delayed"}
                  /\ cached[job.feature] # Absent
    /\ mpc = "apply" => job.state \in States
    /\ job.by = "delayed" => mpc = "apply" /\ job.feature \in todo
    /\ mpc = "apply" /\ job.by # "handler" => job.state = cached[job.feature]
    /\ mpc = "apply" /\ job.feature \in Delayed => delayedOn
    /\ mpc = "delayed" \/ job.by = "delayed" => delayedOn /\ \A f \in todo : cached[f] \in States
    /\ mpc = "boot" \/ job.by = "start" => \A f \in todo : snap[f] # Absent

LastOf(s) == s[Len(s)]
\* The last notification of a row says whether it is there.
EventInv ==
    Subscribed => \A f \in Features :
        events[f] # <<>> => (LastOf(events[f]) = "del" <=> row[f] = Absent)

\* What CacheFollowsRows asks of one feature.
Agrees(f) ==
    \/ row[f] = Absent /\ (cached[f] = Absent \/ missed[f])
    \/ /\ row[f] \notin {Absent, Invalid}
       /\ \/ cached[f] = Render(f, row[f])
          \/ failed[f]
          \/ cached[f] \notin Immutable /\ Render(f, row[f]) \in Immutable

\* The handler works on the feature.
InHand(f) == Working /\ job.by = "handler" /\ job.feature = f

\* The row asks for a state.
Asked(f) == row[f] \notin {Absent, Invalid}

\* With no notification waiting, cache and row agree, or a job of the handler is about to bring
\* the feature to the state of the row, or to write back the state it keeps.
CacheInv ==
    Subscribed => \A f \in Features :
        events[f] = <<>> =>
            /\ ~InHand(f) => Agrees(f)
            /\ InHand(f) /\ mpc = "apply" => Asked(f) /\ job.state = Render(f, row[f])
            /\ InHand(f) /\ mpc = "resync" =>
                 /\ Asked(f)
                 /\ Agrees(f) \/ (job.state \in Immutable /\ job.state # Render(f, row[f]))

\* The feature is still to be brought to the state it is cached with, by the start or by the
\* release of the delayed services.
Pending(f) ==
    \/ mpc = "apply" /\ job.by = "start" /\ job.feature = f
    \/ f \in todo /\ (mpc = "delayed" \/ job.by = "delayed")

Direction(s) == IF Enables(s) THEN "enabled" ELSE "disabled"

\* STATE_DB shows what the cache asks for, or a failure.
Shown(f) == cached[f] \in States => stateDb[f] \in {"failed", Direction(cached[f])}

\* It does for each feature that neither waits nor is pending.
ShownInv == \A f \in Features : ~Waits(f) /\ ~Pending(f) => Shown(f)

\* A service that is disabled, or said to be, does not run, but when its "enable" failed.
UnitInv ==
  \A f \in Features :
      stateDb[f] = "disabled" \/ unit[f] = "disabled" => ~up[f] \/ unfiled[f]

\* The inductive invariant of featured.
FeaturedIInv == TypeOK /\ JobInv /\ EventInv /\ CacheInv /\ ShownInv /\ UnitInv

\* What leaves the variables of a part alone leaves it true.
LEMMA SameJob ==
  ASSUME JobInv, UNCHANGED <<mpc, job, todo, snap, cached, delayedOn>>
  PROVE  JobInv'
BY DEF JobInv, Working

LEMMA SameEvents ==
  ASSUME EventInv, UNCHANGED <<mpc, job, events, row>>
  PROVE  EventInv'
BY DEF EventInv, Subscribed, LastOf

LEMMA SameCache ==
  ASSUME CacheInv, UNCHANGED <<mpc, job, events, row, cached, missed, failed>>
  PROVE  CacheInv'
BY DEF CacheInv, Subscribed, InHand, Working, Asked, Agrees, Render

LEMMA SameShown ==
  ASSUME ShownInv, UNCHANGED <<mpc, job, todo, cached, delayedOn, stateDb>>
  PROVE  ShownInv'
BY DEF ShownInv, Shown, Waits, Pending, Direction, Enables

LEMMA SameUnits ==
  ASSUME UnitInv, UNCHANGED <<stateDb, unit, up, unfiled>>
  PROVE  UnitInv'
BY DEF UnitInv

\* What a notification that is appended, or one that is handled, leaves of the queue.
LEMMA Queue ==
  ASSUME NEW s \in Seq({"set", "del"})
  PROVE  /\ \A op \in {"set", "del"} : /\ Append(s, op) \in Seq({"set", "del"})
                                       /\ Append(s, op) # <<>> /\ LastOf(Append(s, op)) = op
         /\ s # <<>> => /\ Tail(s) \in Seq({"set", "del"})
                        /\ Tail(s) # <<>> => LastOf(Tail(s)) = LastOf(s)
                        /\ Tail(s) = <<>> => LastOf(s) = Head(s)
<1>1. ASSUME NEW op \in {"set", "del"}
      PROVE  /\ Append(s, op) \in Seq({"set", "del"})
             /\ Append(s, op) # <<>> /\ LastOf(Append(s, op)) = op
  BY <1>1 DEF LastOf
<1>2. ASSUME s # <<>>
      PROVE  /\ Tail(s) \in Seq({"set", "del"})
             /\ Tail(s) # <<>> => LastOf(Tail(s)) = LastOf(s)
             /\ Tail(s) = <<>> => LastOf(s) = Head(s)
  <2>1. /\ Len(s) \in Nat /\ Len(s) > 0 /\ Head(s) = s[1] /\ Len(Tail(s)) = Len(s) - 1
        /\ Tail(s) \in Seq({"set", "del"})
        /\ \A k \in 1 .. Len(s) - 1 : Tail(s)[k] = s[k + 1]
    BY <1>2
  <2>2. Tail(s) # <<>> => Len(s) - 1 > 0
    BY <2>1
  <2>3. Tail(s) = <<>> => Len(s) = 1
    <3>1. \A t \in Seq({"set", "del"}) : t = <<>> => Len(t) = 0
      OBVIOUS
    <3>2. Tail(s) = <<>> => Len(Tail(s)) = 0
      BY <2>1, <3>1
    <3>3. QED
      BY <2>1, <3>2
  <2>4. QED
    BY <2>1, <2>2, <2>3 DEF LastOf
<1>3. QED
  BY <1>1, <1>2

\* A row that asks for a state renders to one; only a template to another than itself.
LEMMA Rendering ==
  ASSUME NEW f \in Features, NEW r \in Rows, r \notin {Absent, Invalid}
  PROVE  /\ Render(f, r) \in States
         /\ r = Template \/ r = Render(f, r)
BY FeaturedAssumption DEF Render, Rows, States

\* Between jobs there is no job,
LEMMA NoJobHere ==
  ASSUME TypeOK, JobInv, ~Working
  PROVE  job = NoJob /\ job.by = "none" /\ \A f \in Features : ~InHand(f)
BY DEF TypeOK, Working, NoJob, InHand

\* and else there is one.
LEMMA JobHere ==
  ASSUME TypeOK, JobInv, Working
  PROVE  /\ job \in [feature : Features, state : States \cup {Unset},
                     by : {"start", "handler", "delayed"}]
         /\ job # NoJob
BY DEF TypeOK, JobInv, Working, Jobs, NoJob

\* The operator changes a row, which is notified.
LEMMA SetRowStep ==
  ASSUME FeaturedIInv, NEW f \in Features, NEW r \in Rows, SetRow(f, r)
  PROVE  FeaturedIInv'
<1>1. /\ row' = [row EXCEPT ![f] = r] /\ changes' = changes + 1
      /\ UNCHANGED <<portInit, portEv, mpc, snap, todo, job, cached, delayedOn, stateDb, unit, up,
                     missed, failed, unfiled, faults>>
      /\ Subscribed' = Subscribed
      /\ Subscribed => \E op \in {"set", "del"} : /\ events' = [events EXCEPT ![f] = Append(@, op)]
                                                  /\ op = "del" <=> r = Absent
      /\ ~Subscribed => events' = events
  BY DEF SetRow, Notify, memory, system, hist, Subscribed
<1>2. /\ events' \in [Features -> Seq({"set", "del"})] /\ row' \in [Features -> Rows]
      /\ \A g \in Features \ {f} : events'[g] = events[g] /\ row'[g] = row[g]
      /\ Subscribed => events'[f] # <<>> /\ (LastOf(events'[f]) = "del" <=> row'[f] = Absent)
  <2>1. events \in [Features -> Seq({"set", "del"})] /\ row \in [Features -> Rows] /\ row'[f] = r
    BY <1>1 DEF FeaturedIInv, TypeOK
  <2>2. CASE Subscribed
    <3>1. PICK op \in {"set", "del"} : /\ events' = [events EXCEPT ![f] = Append(@, op)]
                                       /\ op = "del" <=> r = Absent
      BY <1>1, <2>2
    <3>2. /\ Append(events[f], op) \in Seq({"set", "del"})
          /\ Append(events[f], op) # <<>> /\ LastOf(Append(events[f], op)) = op
      BY <2>1, Queue
    <3>3. QED
      BY <1>1, <2>1, <3>1, <3>2
  <2>3. QED
    BY <1>1, <2>1, <2>2
<1>3. TypeOK'
  BY <1>1, <1>2 DEF FeaturedIInv, TypeOK
<1>6. EventInv'
  BY <1>1, <1>2 DEF FeaturedIInv, EventInv
<1>4. CacheInv'
  <2> SUFFICES ASSUME Subscribed, NEW g \in Features, events'[g] = <<>>
               PROVE  g # f /\ events[g] = <<>> /\ row'[g] = row[g]
    BY <1>1 DEF FeaturedIInv, CacheInv, InHand, Working, Asked, Agrees, Render
  <2>1. QED
    BY <1>2
<1>5. QED
  BY <1>1, <1>3, <1>4, <1>6, SameJob, SameShown, SameUnits DEF FeaturedIInv

\* The ports are ready, or a service fails.
LEMMA EnvironmentStep ==
  ASSUME FeaturedIInv, PortInitDone \/ \E f \in Features : ServiceFails(f)
  PROVE  FeaturedIInv'
<1>1. CASE PortInitDone
  <2>1. TypeOK'
    BY <1>1 DEF PortInitDone, FeaturedIInv, TypeOK, memory, system, hist, bounds, Subscribed
  <2>2. QED
    BY <1>1, <2>1, SameJob, SameEvents, SameCache, SameShown, SameUnits
    DEF FeaturedIInv, PortInitDone, memory, system, hist
<1>2. ASSUME NEW f \in Features, ServiceFails(f) PROVE FeaturedIInv'
  <2>1. TypeOK' /\ UnitInv'
    BY <1>2 DEF ServiceFails, FeaturedIInv, TypeOK, UnitInv, config, memory, hist
  <2>2. QED
    BY <1>2, <2>1, SameJob, SameEvents, SameCache, SameShown
    DEF FeaturedIInv, ServiceFails, config, memory, hist
<1>3. QED
  BY <1>1, <1>2

\* The daemon ends.
LEMMA GoneStep ==
  ASSUME FeaturedIInv, Gone, UNCHANGED <<row, portInit, delayedOn, stateDb, unit, up, missed, failed, unfiled>>,
         changes' = changes, faults' \in Nat
  PROVE  FeaturedIInv'
<1>1. /\ mpc' = "dead" /\ job' = NoJob /\ todo' = {} /\ ~Subscribed'
      /\ events' = [f \in Features |-> <<>>] /\ portEv' = FALSE
      /\ cached' = [f \in Features |-> Absent] /\ snap' = [f \in Features |-> Absent]
  BY DEF Gone, Subscribed
<1>2. TypeOK'
  <2>1. events' \in [Features -> Seq({"set", "del"})]
    BY <1>1
  <2>2. job' \in Jobs /\ snap' \in [Features -> Rows]
    BY <1>1 DEF NoJob, Jobs, Rows
  <2>3. QED
    BY <1>1, <2>1, <2>2 DEF FeaturedIInv, TypeOK
<1>3. JobInv' /\ EventInv' /\ CacheInv'
  BY <1>1 DEF JobInv, EventInv, CacheInv, Working, NoJob
<1>4. ShownInv'
  BY <1>1, FeaturedAssumption DEF ShownInv, Shown
<1>5. QED
  BY <1>2, <1>3, <1>4, SameUnits DEF FeaturedIInv

\* The daemon reads the table, subscribes, and starts again.
LEMMA StartStep ==
  ASSUME FeaturedIInv, Snapshot \/ RegisterCallbacks \/ Restart
  PROVE  FeaturedIInv'
<1>1. CASE Snapshot
  <2>1. /\ mpc = "snapshot" /\ mpc' = "boot" /\ todo' = {f \in Features : row[f] # Absent}
        /\ snap' = row
        /\ UNCHANGED <<row, events, portInit, portEv, job, cached, delayedOn, stateDb, unit, up,
                       missed, failed, unfiled, changes, faults>>
    BY <1>1 DEF Snapshot, config, system, hist, bounds
  <2>2. job = NoJob /\ job.by = "none"
    BY <2>1, NoJobHere DEF FeaturedIInv, Working
  <2>3. TypeOK'
    BY <2>1, <2>2 DEF FeaturedIInv, TypeOK
  <2>4. JobInv' /\ EventInv' /\ CacheInv'
    BY <2>1, <2>2 DEF JobInv, EventInv, CacheInv, Working, Subscribed, NoJob
  <2>5. ShownInv'
    BY <2>1, <2>2 DEF FeaturedIInv, ShownInv, Shown, Waits, Pending
  <2>6. QED
    BY <2>1, <2>3, <2>4, <2>5, SameUnits DEF FeaturedIInv
<1>2. CASE RegisterCallbacks
  <2>1. /\ mpc = "boot" /\ mpc' = "loop"
        /\ events' = [f \in Features |-> IF row[f] = Absent THEN <<>> ELSE <<"set">>]
        /\ portEv' = portInit
        /\ missed' = [f \in Features |-> row[f] = Absent /\ cached[f] # Absent]
        /\ UNCHANGED <<row, portInit, snap, todo, job, cached, delayedOn, stateDb, unit, up,
                       failed, unfiled, changes, faults>>
    BY <1>2 DEF RegisterCallbacks, memory, system, bounds
  <2>2. job = NoJob /\ job.by = "none"
    BY <2>1, NoJobHere DEF FeaturedIInv, Working
  <2>3. events' \in [Features -> Seq({"set", "del"})]
    <3>1. <<>> \in Seq({"set", "del"}) /\ <<"set">> \in Seq({"set", "del"})
      OBVIOUS
    <3>2. QED
      BY <2>1, <3>1
  <2>4. TypeOK'
    BY <2>1, <2>2, <2>3 DEF FeaturedIInv, TypeOK
  <2>5. JobInv' /\ ShownInv'
    BY <2>1, <2>2 DEF FeaturedIInv, JobInv, Working, ShownInv, Shown, Waits, Pending
  <2>6. ASSUME NEW f \in Features
        PROVE  /\ events'[f] # <<>> => row[f] # Absent /\ LastOf(events'[f]) = "set"
               /\ events'[f] = <<>> => row[f] = Absent
    <3>1. <<"set">> # <<>> /\ LastOf(<<"set">>) = "set"
      BY DEF LastOf
    <3>2. QED
      BY <2>1, <3>1
  <2>7. EventInv'
    BY <2>1, <2>6 DEF EventInv
  <2>8. CacheInv'
    BY <2>1, <2>2, <2>6 DEF CacheInv, InHand, Working, Agrees
  <2>9. QED
    BY <2>1, <2>4, <2>5, <2>7, <2>8, SameUnits DEF FeaturedIInv
<1>3. CASE Restart
  <2>1. /\ mpc = "dead" /\ mpc' = "snapshot" /\ delayedOn' = FALSE
        /\ UNCHANGED <<row, events, portInit, portEv, snap, todo, job, cached, stateDb, unit, up,
                       missed, failed, unfiled, changes, faults>>
    BY <1>3 DEF Restart, config, system, hist, bounds
  <2>2. job = NoJob /\ job.by = "none"
    BY <2>1, NoJobHere DEF FeaturedIInv, Working
  <2>3. TypeOK'
    BY <2>1, <2>2 DEF FeaturedIInv, TypeOK
  <2>4. JobInv' /\ EventInv' /\ CacheInv'
    BY <2>1, <2>2 DEF JobInv, EventInv, CacheInv, Working, Subscribed, NoJob
  <2>5. ShownInv'
    BY <2>1, <2>2 DEF FeaturedIInv, ShownInv, Shown, Waits, Pending
  <2>6. QED
    BY <2>1, <2>3, <2>4, <2>5, SameUnits DEF FeaturedIInv
<1>4. QED
  BY <1>1, <1>2, <1>3

\* It renders a row at its start.
LEMMA SyncStep ==
  ASSUME FeaturedIInv, NEW f \in Features, SyncStateField(f)
  PROVE  FeaturedIInv'
<1> DEFINE s == Render(f, snap[f])
<1>1. /\ mpc = "boot" /\ f \in todo /\ snap[f] # Invalid
      /\ cached' = [cached EXCEPT ![f] = s]
      /\ job' = [feature |-> f, state |-> s, by |-> "start"]
      /\ mpc' = IF Waits(f) THEN "resync" ELSE "apply"
      /\ UNCHANGED <<row, events, portInit, portEv, snap, todo, delayedOn, stateDb, unit, up,
                     missed, failed, unfiled, changes, faults>>
  BY DEF SyncStateField, config, system, hist, bounds
<1>2. snap[f] # Absent
  BY <1>1 DEF FeaturedIInv, JobInv
<1>3. s \in States
  BY <1>1, <1>2, Rendering DEF FeaturedIInv, TypeOK
<1> HIDE DEF s
<1>4. /\ cached'[f] = s /\ \A g \in Features \ {f} : cached'[g] = cached[g]
      /\ job'.feature = f /\ job'.state = s /\ job'.by = "start" /\ job' \in Jobs /\ job' # NoJob
      /\ cached' \in [Features -> States \cup {Unset, Absent}]
  BY <1>1, <1>3 DEF FeaturedIInv, TypeOK, Jobs, NoJob
<1>5. TypeOK'
  BY <1>1, <1>4 DEF FeaturedIInv, TypeOK
<1>6. JobInv'
  BY <1>1, <1>3, <1>4, FeaturedAssumption DEF FeaturedIInv, JobInv, Working, Waits
<1>7. EventInv' /\ CacheInv'
  BY <1>1, <1>4 DEF EventInv, CacheInv, Subscribed
<1>8. job = NoJob /\ job.by = "none"
  BY <1>1, NoJobHere DEF FeaturedIInv, Working
<1>9. ShownInv'
  BY <1>1, <1>4, <1>8 DEF FeaturedIInv, ShownInv, Shown, Waits, Pending
<1>10. QED
  BY <1>1, <1>5, <1>6, <1>7, <1>9, SameUnits DEF FeaturedIInv

\* Changes that leave the queues and the rows alone and are about one feature.
LEMMA PopFacts ==
  ASSUME TypeOK, NEW f \in Features, NEW op \in {"set", "del"}, Pop(f, op)
  PROVE  /\ mpc = "loop" /\ events[f] # <<>> /\ Head(events[f]) = op
         /\ events' \in [Features -> Seq({"set", "del"})]
         /\ \A g \in Features \ {f} : events'[g] = events[g]
         /\ events'[f] # <<>> => LastOf(events'[f]) = LastOf(events[f])
         /\ events'[f] = <<>> => LastOf(events[f]) = op
<1>1. /\ mpc = "loop" /\ events[f] # <<>> /\ Head(events[f]) = op
      /\ events \in [Features -> Seq({"set", "del"})]
      /\ events' = [events EXCEPT ![f] = Tail(@)]
  BY DEF Pop, TypeOK
<1>2. events[f] \in Seq({"set", "del"})
  BY <1>1
<1>3. /\ Tail(events[f]) \in Seq({"set", "del"})
      /\ Tail(events[f]) # <<>> => LastOf(Tail(events[f])) = LastOf(events[f])
      /\ Tail(events[f]) = <<>> => LastOf(events[f]) = Head(events[f])
  BY <1>1, <1>2, Queue
<1>4. QED
  BY <1>1, <1>3

\* A notification is taken: the others stay what they are, and the last one told the truth.
LEMMA PopKeeps ==
  ASSUME FeaturedIInv, NEW f \in Features, NEW op \in {"set", "del"}, Pop(f, op), row' = row
  PROVE  /\ EventInv'
         /\ events'[f] = <<>> => (op = "del" <=> row[f] = Absent)
         /\ \A g \in Features \ {f} : events'[g] = <<>> => Agrees(g)
         /\ job = NoJob /\ job.by = "none" /\ Subscribed
<1>1. /\ mpc = "loop" /\ events[f] # <<>> /\ Head(events[f]) = op
      /\ \A g \in Features \ {f} : events'[g] = events[g]
      /\ events'[f] # <<>> => LastOf(events'[f]) = LastOf(events[f])
      /\ events'[f] = <<>> => LastOf(events[f]) = op
  BY PopFacts DEF FeaturedIInv
<1>2. job = NoJob /\ job.by = "none" /\ \A g \in Features : ~InHand(g)
  BY <1>1, NoJobHere DEF FeaturedIInv, Working
<1>3. Subscribed
  BY <1>1, <1>2 DEF Subscribed
<1>4. LastOf(events[f]) = "del" <=> row[f] = Absent
  BY <1>1, <1>3 DEF FeaturedIInv, EventInv
<1>5. EventInv'
  BY <1>1, <1>3, <1>4 DEF FeaturedIInv, EventInv
<1>6. \A g \in Features \ {f} : events'[g] = <<>> => Agrees(g)
  BY <1>1, <1>2, <1>3 DEF FeaturedIInv, CacheInv
<1>7. QED
  BY <1>1, <1>2, <1>3, <1>4, <1>5, <1>6

\* A row has gone,
LEMMA DeregisterStep ==
  ASSUME FeaturedIInv, NEW f \in Features, Deregister(f)
  PROVE  FeaturedIInv'
<1>1. /\ Pop(f, "del") /\ cached' = [cached EXCEPT ![f] = Absent]
      /\ stateDb' = [stateDb EXCEPT ![f] = "none"]
      /\ missed' = [missed EXCEPT ![f] = FALSE] /\ failed' = [failed EXCEPT ![f] = FALSE]
      /\ UNCHANGED <<row, portInit, portEv, mpc, snap, todo, job, delayedOn, unit, up, unfiled,
                     changes, faults>>
  BY DEF Deregister, bounds
<1>2. /\ EventInv' /\ job = NoJob /\ job.by = "none"
      /\ events'[f] = <<>> => row[f] = Absent
      /\ \A g \in Features \ {f} : events'[g] = <<>> => Agrees(g)
  BY <1>1, PopKeeps
<1>3. mpc = "loop" /\ events' \in [Features -> Seq({"set", "del"})]
  BY <1>1, PopFacts DEF FeaturedIInv
<1>4. TypeOK'
  BY <1>1, <1>3 DEF FeaturedIInv, TypeOK
<1>5. JobInv'
  BY <1>1, <1>2, <1>3 DEF FeaturedIInv, JobInv, Working
<1>6. ASSUME NEW g \in Features, events'[g] = <<>> PROVE Agrees(g)'
  BY <1>1, <1>2, <1>6 DEF FeaturedIInv, TypeOK, Agrees, Render
<1>7. CacheInv'
  BY <1>1, <1>2, <1>3, <1>6 DEF CacheInv, InHand, Working
<1>8. ShownInv'
  BY <1>1, <1>2, FeaturedAssumption DEF FeaturedIInv, TypeOK, ShownInv, Shown, Waits, Pending
<1>9. UnitInv'
  BY <1>1 DEF FeaturedIInv, TypeOK, UnitInv
<1>10. QED
  BY <1>2, <1>4, <1>5, <1>7, <1>8, <1>9 DEF FeaturedIInv

\* has nothing new,
LEMMA NothingNewStep ==
  ASSUME FeaturedIInv, NEW f \in Features, NothingNew(f)
  PROVE  FeaturedIInv'
<1>1. /\ Pop(f, "set")
      /\ row[f] = Absent \/ (row[f] # Invalid /\ Render(f, row[f]) = Entry(f))
      /\ UNCHANGED <<row, portInit, portEv, mpc, snap, todo, job, cached, delayedOn, stateDb, unit, up,
                     missed, failed, unfiled, changes, faults>>
  BY DEF NothingNew, bounds, system, hist
<1>2. /\ EventInv' /\ job = NoJob /\ job.by = "none"
      /\ events'[f] = <<>> => row[f] # Absent
      /\ \A g \in Features \ {f} : events'[g] = <<>> => Agrees(g)
  BY <1>1, PopKeeps
<1>3. mpc = "loop" /\ events' \in [Features -> Seq({"set", "del"})]
  BY <1>1, PopFacts DEF FeaturedIInv
<1>4. TypeOK'
  BY <1>1, <1>3 DEF FeaturedIInv, TypeOK
<1>5. events'[f] = <<>> => Agrees(f)
  <2>1. SUFFICES ASSUME events'[f] = <<>> PROVE Agrees(f)
    OBVIOUS
  <2>2. row[f] \notin {Absent, Invalid} /\ Render(f, row[f]) = Entry(f)
    BY <1>1, <1>2, <2>1
  <2>3. Render(f, row[f]) \in States /\ Unset \notin States
    BY <2>2, Rendering DEF FeaturedIInv, TypeOK, States, Unset
  <2>4. Entry(f) = cached[f]
    BY <2>2, <2>3 DEF Entry
  <2>5. QED
    BY <2>2, <2>4 DEF Agrees
<1>6. ASSUME NEW g \in Features, events'[g] = <<>> PROVE Agrees(g)'
  BY <1>1, <1>2, <1>5, <1>6 DEF Agrees, Render
<1>7. CacheInv'
  BY <1>1, <1>2, <1>3, <1>6 DEF CacheInv, InHand, Working
<1>8. QED
  BY <1>1, <1>2, <1>4, <1>7, SameJob, SameShown, SameUnits DEF FeaturedIInv

\* or asks for another state.
LEMMA ChangeStep ==
  ASSUME FeaturedIInv, NEW f \in Features, Change(f)
  PROVE  FeaturedIInv'
<1> DEFINE new == Render(f, row[f])
           old == Entry(f)
<1>1. /\ Pop(f, "set") /\ row[f] \notin {Absent, Invalid} /\ new # old
      /\ UNCHANGED <<row, portInit, portEv, snap, todo, delayedOn, stateDb, unit, up, missed, unfiled,
                     changes, faults>>
      /\ \/ /\ Allowed(old, new) /\ Waits(f)
            /\ cached' = [cached EXCEPT ![f] = new]
            /\ job' = [feature |-> f, state |-> new, by |-> "handler"]
            /\ failed' = [failed EXCEPT ![f] = FALSE]
            /\ mpc' = "resync"
         \/ /\ Allowed(old, new) /\ ~Waits(f)
            /\ cached' = [cached EXCEPT ![f] = old]
            /\ job' = [feature |-> f, state |-> new, by |-> "handler"]
            /\ failed' = [failed EXCEPT ![f] = failed[f]]
            /\ mpc' = "apply"
         \/ /\ ~Allowed(old, new)
            /\ cached' = [cached EXCEPT ![f] = old]
            /\ job' = [feature |-> f, state |-> old, by |-> "handler"]
            /\ failed' = [failed EXCEPT ![f] = failed[f]]
            /\ mpc' = "resync"
  <2>1. TypeOK
    BY DEF FeaturedIInv
  <2>2. QED
    BY <2>1 DEF Change, bounds, system, TypeOK
<1>2. /\ EventInv' /\ job = NoJob /\ job.by = "none"
      /\ \A g \in Features \ {f} : events'[g] = <<>> => Agrees(g)
  BY <1>1, PopKeeps
<1>3. mpc = "loop" /\ events' \in [Features -> Seq({"set", "del"})]
  BY <1>1, PopFacts DEF FeaturedIInv
<1>4. new \in States /\ old \in States \cup {Unset} /\ (cached[f] # Absent => old = cached[f])
      /\ (cached[f] = Absent => old = Unset)
  BY <1>1, Rendering DEF FeaturedIInv, TypeOK, Entry
<1>5. ~Allowed(old, new) => old \in States /\ (old \in Immutable <=> new \notin Immutable)
  BY <1>4 DEF Allowed
<1> HIDE DEF new, old
<1>6. /\ cached'[f] \in States \cup {Unset} /\ job' \in Jobs /\ job'.feature = f /\ job'.by = "handler"
      /\ job' # NoJob /\ mpc' \in {"apply", "resync"}
      /\ \A g \in Features \ {f} : cached'[g] = cached[g] /\ failed'[g] = failed[g]
      /\ cached' \in [Features -> States \cup {Unset, Absent}]
      /\ failed' \in [Features -> BOOLEAN]
  <2>1. PICK c \in States \cup {Unset} : cached' = [cached EXCEPT ![f] = c]
    BY <1>1, <1>4
  <2>2. PICK s \in States \cup {Unset} : job' = [feature |-> f, state |-> s, by |-> "handler"]
    BY <1>1, <1>4
  <2>3. /\ job'.feature = f /\ job'.by = "handler" /\ job' \in Jobs
    BY <2>2 DEF Jobs
  <2>4. PICK b \in BOOLEAN : failed' = [failed EXCEPT ![f] = b]
    BY <1>1 DEF FeaturedIInv, TypeOK
  <2>5. /\ cached'[f] = c /\ cached' \in [Features -> States \cup {Unset, Absent}]
        /\ \A g \in Features \ {f} : cached'[g] = cached[g]
    BY <2>1 DEF FeaturedIInv, TypeOK
  <2>6. failed' \in [Features -> BOOLEAN] /\ \A g \in Features \ {f} : failed'[g] = failed[g]
    BY <2>4 DEF FeaturedIInv, TypeOK
  <2>7. mpc' \in {"apply", "resync"}
    BY <1>1
  <2>8. QED
    BY <2>3, <2>5, <2>6, <2>7 DEF NoJob
<1>7. TypeOK'
  BY <1>1, <1>3, <1>6 DEF FeaturedIInv, TypeOK
<1>8. JobInv'
  <2>1. mpc' = "apply" => job'.state \in States /\ ~Waits(f)
    BY <1>1, <1>4
  <2>2. cached'[f] # Absent
    BY <1>6, FeaturedAssumption
  <2>3. QED
    BY <1>1, <1>6, <2>1, <2>2 DEF FeaturedIInv, JobInv, Working, Waits
<1>9. Asked(f)' /\ Render(f, row[f])' = new
  BY <1>1 DEF Asked, Render, new
<1>10. mpc' = "apply" => job'.state = new
  BY <1>1
<1>11. mpc' = "resync" => Agrees(f)' \/ (job'.state \in Immutable /\ job'.state # new)
  <2>1. CASE Allowed(old, new) /\ Waits(f) /\ cached' = [cached EXCEPT ![f] = new]
    <3>1. cached'[f] = new
      BY <2>1 DEF FeaturedIInv, TypeOK
    <3>2. QED
      BY <1>9, <3>1 DEF Agrees, Asked
  <2>2. CASE ~Allowed(old, new) /\ cached' = [cached EXCEPT ![f] = old] /\ job'.state = old
    <3>1. cached'[f] = old
      BY <2>2 DEF FeaturedIInv, TypeOK
    <3>2. CASE old \in Immutable
      BY <1>1, <2>2, <3>2
    <3>3. CASE old \notin Immutable
      BY <1>5, <1>9, <2>2, <3>1, <3>3 DEF Agrees, Asked
    <3>4. QED
      BY <3>2, <3>3
  <2>3. QED
    BY <1>1, <2>1, <2>2
<1>12. ASSUME NEW g \in Features, g # f, events'[g] = <<>> PROVE Agrees(g)' /\ ~InHand(g)'
  BY <1>1, <1>2, <1>6, <1>12 DEF Agrees, Render, InHand
<1>13. CacheInv'
  <2>1. InHand(f)'
    BY <1>6 DEF InHand, Working
  <2>2. QED
    BY <1>9, <1>10, <1>11, <1>12, <2>1 DEF CacheInv
<1>14. ShownInv'
  <2>1. ASSUME NEW g \in Features, ~Waits(g)', ~Pending(g)' PROVE Shown(g)'
    <3>1. ~Waits(g) /\ ~Pending(g)
      BY <1>1, <1>2, <1>3, <2>1 DEF Waits, Pending
    <3>2. Shown(g)
      BY <3>1 DEF FeaturedIInv, ShownInv
    <3>3. CASE g # f
      BY <1>1, <1>6, <3>2, <3>3 DEF Shown
    <3>4. CASE g = f
      <4>1. cached'[f] = old
        BY <1>1, <3>1, <3>4 DEF FeaturedIInv, TypeOK
      <4>2. cached'[f] \in States => cached'[f] = cached[f]
        BY <1>4, <4>1 DEF States, Unset
      <4>3. QED
        BY <1>1, <3>2, <3>4, <4>2 DEF Shown
    <3>5. QED
      BY <3>3, <3>4
  <2>2. QED
    BY <2>1 DEF ShownInv
<1>15. QED
  BY <1>1, <1>2, <1>7, <1>8, <1>13, <1>14, SameUnits DEF FeaturedIInv

\* The delayed services are released: the features to be started are those cached.
LEMMA EnableDelayedStep ==
  ASSUME FeaturedIInv, PortListener \/ PortTimeout
  PROVE  FeaturedIInv'
<1>1. /\ mpc = "loop" /\ mpc' = "delayed" /\ delayedOn' = TRUE
      /\ todo' = {f \in Delayed : cached[f] \in States} /\ portEv' \in BOOLEAN
      /\ UNCHANGED <<row, events, portInit, snap, job, cached, stateDb, unit, up, missed, failed,
                     unfiled, changes, faults>>
  BY DEF PortListener, PortTimeout, EnableDelayed, FeaturedIInv, TypeOK, system, hist, bounds
<1>2. job = NoJob /\ job.by = "none"
  BY <1>1, NoJobHere DEF FeaturedIInv, Working
<1>3. TypeOK'
  BY <1>1, <1>2, FeaturedAssumption DEF FeaturedIInv, TypeOK
<1>4. JobInv'
  BY <1>1, <1>2 DEF FeaturedIInv, JobInv, Working
<1>5. Subscribed
  BY <1>1, <1>2 DEF Subscribed
<1>6. EventInv'
  BY <1>1, <1>5 DEF FeaturedIInv, EventInv
<1>7. CacheInv'
  BY <1>1, <1>2, <1>5 DEF FeaturedIInv, CacheInv, InHand, Working, Asked, Agrees, Render
<1>8. ASSUME NEW f \in Features, ~Pending(f)' PROVE Shown(f)'
  <2>1. f \notin Delayed \/ cached[f] \notin States
    BY <1>1, <1>8 DEF Pending
  <2>2. f \notin Delayed => Shown(f)
    BY <1>1, <1>2 DEF FeaturedIInv, ShownInv, Waits, Pending
  <2>3. QED
    BY <1>1, <2>1, <2>2 DEF Shown
<1>9. ShownInv'
  BY <1>8 DEF ShownInv
<1>10. QED
  BY <1>1, <1>3, <1>4, <1>6, <1>7, <1>9, SameUnits DEF FeaturedIInv

\* They are taken one by one.
LEMMA StartDelayedStep ==
  ASSUME FeaturedIInv, DelayedDone \/ \E f \in Features : StartDelayed(f)
  PROVE  FeaturedIInv'
<1>1. CASE DelayedDone
  <2>1. /\ mpc = "delayed" /\ mpc' = "loop" /\ todo = {}
        /\ UNCHANGED <<row, events, portInit, portEv, snap, todo, job, cached, delayedOn, stateDb, unit,
                       up, missed, failed, unfiled, changes, faults>>
    BY <1>1 DEF DelayedDone, config, memory, system, hist, bounds
  <2>2. job = NoJob /\ job.by = "none" /\ Subscribed
    BY <2>1, NoJobHere DEF FeaturedIInv, Working, Subscribed
  <2>3. TypeOK' /\ JobInv'
    BY <2>1, <2>2 DEF FeaturedIInv, TypeOK, JobInv, Working
  <2>4. EventInv' /\ CacheInv'
    BY <2>1, <2>2 DEF FeaturedIInv, EventInv, CacheInv, InHand, Working, Asked, Agrees, Render
  <2>5. ShownInv'
    BY <2>1, <2>2 DEF FeaturedIInv, ShownInv, Shown, Waits, Pending
  <2>6. QED
    BY <2>1, <2>3, <2>4, <2>5, SameUnits DEF FeaturedIInv
<1>2. ASSUME NEW f \in Features, StartDelayed(f) PROVE FeaturedIInv'
  <2>1. /\ mpc = "delayed" /\ mpc' = "apply" /\ f \in todo
        /\ job' = [feature |-> f, state |-> cached[f], by |-> "delayed"]
        /\ UNCHANGED <<row, events, portInit, portEv, snap, todo, cached, delayedOn, stateDb, unit,
                       up, missed, failed, unfiled, changes, faults>>
    BY <1>2 DEF StartDelayed, config, system, hist, bounds
  <2>2. job = NoJob /\ job.by = "none" /\ Subscribed
    BY <2>1, NoJobHere DEF FeaturedIInv, Working, Subscribed
  <2>3. cached[f] \in States
    BY <2>1 DEF FeaturedIInv, JobInv
  <2>4. /\ job' \in Jobs /\ job' # NoJob
        /\ job'.feature = f /\ job'.by = "delayed" /\ job'.state = cached[f]
    BY <2>1, <2>3 DEF Jobs, NoJob
  <2>5. TypeOK'
    BY <2>1, <2>4 DEF FeaturedIInv, TypeOK
  <2>6. JobInv'
    BY <2>1, <2>3, <2>4, FeaturedAssumption DEF FeaturedIInv, JobInv, Working
  <2>7. EventInv' /\ CacheInv'
    BY <2>1, <2>2, <2>4
    DEF FeaturedIInv, EventInv, CacheInv, InHand, Working, Asked, Agrees, Render, Subscribed
  <2>8. ShownInv'
    BY <2>1, <2>2, <2>4 DEF FeaturedIInv, ShownInv, Shown, Waits, Pending
  <2>9. QED
    BY <2>1, <2>5, <2>6, <2>7, <2>8, SameUnits DEF FeaturedIInv
<1>3. QED
  BY <1>1, <1>2

\* Back to where the job came from.
LEMMA LeaveFacts ==
  ASSUME TypeOK, JobInv, Working, Leave
  PROVE  /\ todo' = todo \ {job.feature} /\ todo' \in SUBSET Features
         /\ job' = NoJob /\ job' \in Jobs /\ job'.by = "none"
         /\ job.by = "start" => mpc' = "boot"
         /\ job.by = "handler" => mpc' = "loop"
         /\ job.by = "delayed" => mpc' = "delayed"
         /\ mpc' \in {"boot", "loop", "delayed"}
<1>1. job.by \in {"start", "handler", "delayed"}
  BY DEF JobInv
<1>2. /\ todo' = todo \ {job.feature} /\ job' = NoJob
      /\ job.by = "start" => mpc' = "boot"
      /\ job.by = "handler" => mpc' = "loop"
      /\ job.by = "delayed" => mpc' = "delayed"
  BY <1>1 DEF Leave
<1>3. NoJob \in Jobs /\ NoJob.by = "none"
  BY DEF NoJob, Jobs
<1>4. QED
  BY <1>1, <1>2, <1>3 DEF TypeOK

\* What a job of the handler or of the start, and one of the delayed services, leave.
LEMMA AppliedFacts ==
  ASSUME TypeOK, JobInv, mpc = "apply", NEW d \in {Direction(job.state), "failed"},
         \/ d = Direction(job.state) /\ Applied(TRUE)
         \/ d = "failed" /\ Applied(FALSE)
  PROVE  /\ \A g \in Features \ {job.feature} : cached'[g] = cached[g] /\ failed'[g] = failed[g]
         /\ cached' \in [Features -> States \cup {Unset, Absent}] /\ failed' \in [Features -> BOOLEAN]
         /\ d = "failed" => cached'[job.feature] = cached[job.feature] /\ failed'[job.feature]
         /\ job.by # "handler" => cached'[job.feature] = cached[job.feature]
         /\ job.by = "handler" => d = "failed" \/ cached'[job.feature] = job.state
         /\ failed[job.feature] /\ job.by = "delayed" => failed'[job.feature]
         /\ job.by = "delayed" => /\ todo' = todo \ {job.feature} /\ job' = NoJob /\ mpc' = "delayed"
         /\ job.by # "delayed" => /\ todo' = todo /\ mpc' = "resync"
                                  /\ job'.feature = job.feature /\ job'.by = job.by
         /\ job' \in Jobs
<1>1. /\ job.feature \in Features /\ job.state \in States \cup {Unset}
      /\ job.by \in {"start", "handler", "delayed"}
      /\ job \in [feature : Features \cup {Absent}, state : States \cup {Unset},
                  by : {"none", "start", "handler", "delayed"}]
      /\ cached[job.feature] \in States \cup {Unset}
  BY JobHere DEF TypeOK, JobInv, Working, Jobs
<1>2. CASE d = Direction(job.state) /\ Applied(TRUE)
  <2>1. /\ failed' = [failed EXCEPT ![job.feature] = failed[job.feature] /\ job.by = "delayed"]
        /\ cached' = [cached EXCEPT ![job.feature] = IF job.by = "handler" THEN job.state
                                                                          ELSE cached[job.feature]]
        /\ job.by = "delayed" => Leave
        /\ job.by # "delayed" => /\ job' = [job EXCEPT !.state = job.state]
                                 /\ mpc' = "resync" /\ todo' = todo
    BY <1>1, <1>2 DEF Applied, TypeOK
  <2>2. d # "failed"
    BY <1>2 DEF Direction
  <2>3. job.by = "delayed" => /\ todo' = todo \ {job.feature} /\ job' = NoJob
                               /\ mpc' = "delayed" /\ job' \in Jobs
    BY <2>1, LeaveFacts DEF Working
  <2>4. job.by # "delayed" => job' \in Jobs /\ job'.feature = job.feature /\ job'.by = job.by
    BY <1>1, <2>1 DEF Jobs
  <2>5. /\ \A g \in Features \ {job.feature} : cached'[g] = cached[g] /\ failed'[g] = failed[g]
        /\ cached' \in [Features -> States \cup {Unset, Absent}] /\ failed' \in [Features -> BOOLEAN]
        /\ job.by # "handler" => cached'[job.feature] = cached[job.feature]
        /\ job.by = "handler" => cached'[job.feature] = job.state
        /\ failed[job.feature] /\ job.by = "delayed" => failed'[job.feature]
    BY <1>1, <2>1 DEF TypeOK
  <2>6. QED
    BY <2>1, <2>2, <2>3, <2>4, <2>5
<1>3. CASE d = "failed" /\ Applied(FALSE)
  <2>1. /\ failed' = [failed EXCEPT ![job.feature] = TRUE]
        /\ cached' = [cached EXCEPT ![job.feature] = cached[job.feature]]
        /\ job.by = "delayed" => Leave
        /\ job.by # "delayed" => /\ \E s \in {job.state, cached[job.feature]} :
                                        job' = [job EXCEPT !.state = s]
                                 /\ mpc' = "resync" /\ todo' = todo
    BY <1>1, <1>3 DEF Applied, TypeOK
  <2>2. job.by = "delayed" => /\ todo' = todo \ {job.feature} /\ job' = NoJob
                               /\ mpc' = "delayed" /\ job' \in Jobs
    BY <2>1, LeaveFacts DEF Working
  <2>3. job.by # "delayed" => job' \in Jobs /\ job'.feature = job.feature /\ job'.by = job.by
    BY <1>1, <2>1 DEF Jobs
  <2>4. /\ \A g \in Features \ {job.feature} : cached'[g] = cached[g] /\ failed'[g] = failed[g]
        /\ cached' \in [Features -> States \cup {Unset, Absent}] /\ failed' \in [Features -> BOOLEAN]
        /\ cached'[job.feature] = cached[job.feature] /\ failed'[job.feature]
    BY <1>1, <2>1 DEF TypeOK
  <2>5. QED
    BY <1>3, <2>1, <2>2, <2>3, <2>4
<1>4. QED
  BY <1>2, <1>3

\* A job that has run, or failed to run, its commands: the new state is cached, or the failure
\* recorded, and STATE_DB shows it.
LEMMA AppliedStep ==
  ASSUME FeaturedIInv, mpc = "apply", NEW d \in {Direction(job.state), "failed"},
         \/ d = Direction(job.state) /\ Applied(TRUE)
         \/ d = "failed" /\ Applied(FALSE),
         stateDb' = [stateDb EXCEPT ![job.feature] = d],
         UNCHANGED <<row, events, snap, delayedOn, missed>>
  PROVE  JobInv' /\ EventInv' /\ CacheInv' /\ ShownInv'
<1>0. PICK f \in Features : f = job.feature
  BY DEF FeaturedIInv, JobInv, Working
<1>1. /\ \A g \in Features \ {f} : cached'[g] = cached[g] /\ failed'[g] = failed[g]
      /\ cached' \in [Features -> States \cup {Unset, Absent}] /\ failed' \in [Features -> BOOLEAN]
      /\ d = "failed" => cached'[f] = cached[f] /\ failed'[f]
      /\ job.by # "handler" => cached'[f] = cached[f]
      /\ job.by = "handler" => d = "failed" \/ cached'[f] = job.state
      /\ failed[f] /\ job.by = "delayed" => failed'[f]
      /\ job.by = "delayed" => todo' = todo \ {f} /\ job' = NoJob /\ mpc' = "delayed"
      /\ job.by # "delayed" => /\ todo' = todo /\ mpc' = "resync"
                               /\ job'.feature = f /\ job'.by = job.by
  BY <1>0, AppliedFacts DEF FeaturedIInv
<1>2. /\ f \in Features /\ job.by \in {"start", "handler", "delayed"} /\ cached[f] # Absent
      /\ job.state \in States
      /\ job.by # "handler" => job.state = cached[f]
      /\ job.by = "delayed" => delayedOn /\ f \in todo /\ \A g \in todo : cached[g] \in States
      /\ job.by = "start" => \A g \in todo : snap[g] # Absent
  BY <1>0 DEF FeaturedIInv, JobInv, Working
<1>3. NoJob.by = "none"
  BY DEF NoJob
<1>4. Absent \notin States \cup {Unset}
  BY FeaturedAssumption
<1>5. stateDb'[f] = d /\ \A g \in Features \ {f} : stateDb'[g] = stateDb[g]
  BY <1>0, <1>2 DEF FeaturedIInv, TypeOK
<1>6. JobInv'
  <2>1. CASE job.by = "delayed"
    <3>1. \A g \in todo' : cached'[g] = cached[g] /\ g \in todo
      BY <1>1, <2>1 DEF FeaturedIInv, TypeOK
    <3>2. QED
      BY <1>1, <1>2, <1>3, <2>1, <3>1 DEF JobInv, Working
  <2>2. CASE job.by # "delayed"
    <3>1. cached'[f] # Absent
      BY <1>1, <1>2, <1>4
    <3>2. QED
      BY <1>1, <1>2, <2>2, <3>1 DEF JobInv, Working
  <2>3. QED
    BY <2>1, <2>2
<1>7. Subscribed' = Subscribed
  BY <1>1, <1>2, <1>3 DEF Subscribed
<1>8. EventInv'
  BY <1>7 DEF FeaturedIInv, EventInv
<1>9. CacheInv'
  <2> SUFFICES ASSUME Subscribed, NEW g \in Features, events[g] = <<>>
               PROVE  /\ ~InHand(g)' => Agrees(g)'
                      /\ InHand(g)' => mpc' = "resync" /\ Asked(g)' /\ Agrees(g)'
    BY <1>7 DEF CacheInv
  <2>1. CASE g # f
    <3>1. ~InHand(g) /\ ~InHand(g)'
      BY <1>0, <1>1, <1>3, <2>1 DEF InHand
    <3>2. Agrees(g)
      BY <3>1 DEF FeaturedIInv, CacheInv
    <3>3. QED
      BY <1>1, <2>1, <3>1, <3>2 DEF Agrees, Render
  <2>2. CASE g = f /\ job.by = "handler"
    <3>1. InHand(f)
      BY <1>0, <2>2 DEF InHand, Working
    <3>2. Asked(f) /\ job.state = Render(f, row[f])
      BY <1>2, <2>2, <3>1 DEF FeaturedIInv, CacheInv
    <3>3. Asked(f)' /\ (cached'[f] = Render(f, row'[f]) \/ failed'[f])
      BY <1>1, <2>2, <3>2 DEF Asked, Render
    <3>4. Asked(f)' /\ Agrees(f)'
      BY <1>1, <3>2, <3>3 DEF Asked, Agrees
    <3>5. QED
      BY <1>1, <2>2, <3>4
  <2>3. CASE g = f /\ job.by # "handler"
    <3>1. ~InHand(f) /\ ~InHand(f)' /\ job.by = "delayed"
      BY <1>0, <1>1, <1>2, <1>3, <2>3 DEF InHand, Subscribed
    <3>2. Agrees(f)
      BY <1>2, <2>3, <3>1 DEF FeaturedIInv, CacheInv
    <3>3. Agrees(f)'
      BY <1>1, <3>1, <3>2 DEF Agrees, Render
    <3>4. QED
      BY <2>3, <3>1, <3>3
  <2>4. QED
    BY <2>1, <2>2, <2>3
<1>10. ShownInv'
  <2> SUFFICES ASSUME NEW g \in Features, ~Waits(g)', ~Pending(g)'
               PROVE  Shown(g)'
    BY DEF ShownInv
  <2>1. CASE g # f
    <3>1. ~Waits(g) /\ ~Pending(g)
      BY <1>0, <1>1, <1>2, <1>3, <2>1 DEF Waits, Pending
    <3>2. Shown(g)
      BY <3>1 DEF FeaturedIInv, ShownInv
    <3>3. QED
      BY <1>1, <1>5, <2>1, <3>2 DEF Shown
  <2>2. CASE g = f
    <3>1. d = "failed" \/ cached'[f] = job.state
      BY <1>1, <1>2
    <3>2. d = "failed" \/ d = Direction(job.state)
      OBVIOUS
    <3>3. QED
      BY <1>1, <1>5, <2>2, <3>1, <3>2 DEF Shown
  <2>3. QED
    BY <2>1, <2>2
<1>11. QED
  BY <1>6, <1>8, <1>9, <1>10

\* No commands to run, commands that succeed, and one that fails, noticed or not.  Only here
\* a service starts.
LEMMA RunStep ==
  ASSUME FeaturedIInv, Skip \/ Run \/ RunFails \/ EnableFails
  PROVE  FeaturedIInv' /\ \A f \in Delayed : ~up[f] /\ up'[f] => delayedOn
<1>0. PICK f \in Features : f = job.feature
  BY DEF FeaturedIInv, JobInv, Working, Skip, Run, RunFails, EnableFails
<1>1. /\ mpc = "apply" /\ unit \in [Features -> {"enabled", "disabled"}] /\ up \in [Features -> BOOLEAN]
      /\ stateDb \in [Features -> {"none", "enabled", "disabled", "failed"}]
      /\ unfiled \in [Features -> BOOLEAN]
      /\ f \in Delayed => delayedOn
  BY <1>0 DEF Skip, Run, RunFails, EnableFails, FeaturedIInv, TypeOK, JobInv
<1>2. /\ Direction(job.state) = Target /\ Target \in {"enabled", "disabled"}
      /\ Target = "disabled" <=> ~Enables(job.state)
  BY DEF Direction, Target
<1>3. /\ UNCHANGED <<row, events, portInit, portEv, snap, delayedOn, missed, changes>>
      /\ faults' \in Nat
  <2>1. UNCHANGED <<row, events, portInit, portEv, snap, delayedOn, missed>>
    BY DEF Skip, Run, RunFails, EnableFails, config
  <2>2. changes' = changes /\ (faults' = faults \/ faults' = faults + 1)
    BY DEF Skip, Run, RunFails, EnableFails, bounds
  <2>3. QED
    BY <2>1, <2>2 DEF FeaturedIInv, TypeOK
<1>4. PICK d \in {Direction(job.state), "failed"} :
         /\ stateDb' = [stateDb EXCEPT ![f] = d]
         /\ \/ d = Direction(job.state) /\ Applied(TRUE)
            \/ d = "failed" /\ Applied(FALSE)
  BY <1>0, <1>2 DEF Skip, Run, RunFails, EnableFails
<1>5. JobInv' /\ EventInv' /\ CacheInv' /\ ShownInv'
  BY <1>0, <1>1, <1>3, <1>4, AppliedStep
<1>6. /\ unit' \in [Features -> {"enabled", "disabled"}] /\ up' \in [Features -> BOOLEAN]
      /\ \A g \in Features \ {f} : unit'[g] = unit[g] /\ up'[g] = up[g]
      /\ unfiled' \in [Features -> BOOLEAN]
      /\ \A g \in Features \ {f} : unfiled'[g] = unfiled[g]
      /\ unit'[f] = "disabled" => ~up'[f] \/ unfiled'[f]
      /\ d = "disabled" => ~up'[f] \/ unfiled'[f]
  <2>1. unit[f] = "disabled" => ~up[f] \/ unfiled[f]
    BY <1>0 DEF FeaturedIInv, UnitInv
  <2>2. CASE Skip
    <3>1. unit[f] = Target /\ unit' = unit /\ up' = up /\ unfiled' = unfiled
      BY <1>0, <2>2 DEF Skip
    <3>2. d = "disabled" => Target = "disabled"
      BY <1>2, <1>4
    <3>3. QED
      BY <1>1, <2>1, <3>1, <3>2
  <2>3. CASE Run
    <3>1. unit' = [unit EXCEPT ![f] = Target] /\ up' = [up EXCEPT ![f] = Enables(job.state)]
      BY <1>0, <2>3 DEF Run
    <3>2. d = "disabled" => Target = "disabled"
      BY <1>2, <1>4
    <3>3. Enables(job.state) \in BOOLEAN
      BY DEF Enables
    <3>4. unit' \in [Features -> {"enabled", "disabled"}] /\ up' \in [Features -> BOOLEAN]
      BY <1>1, <1>2, <3>1, <3>3
    <3>7. unfiled' = [unfiled EXCEPT ![f] = FALSE]
      BY <1>0, <2>3 DEF Run
    <3>8. /\ unfiled' \in [Features -> BOOLEAN]
          /\ \A g \in Features \ {f} : unfiled'[g] = unfiled[g]
      BY <1>1, <3>7
    <3>5. unit'[f] = Target /\ (Target = "disabled" => ~up'[f])
      BY <1>1, <1>2, <3>1
    <3>6. QED
      BY <1>1, <3>1, <3>2, <3>4, <3>5, <3>8
  <2>4. CASE RunFails
    <3>1. PICK u \in {"enabled", "disabled"}, b \in BOOLEAN :
             /\ unit' = [unit EXCEPT ![f] = u] /\ up' = [up EXCEPT ![f] = b]
             /\ u = "disabled" => ~b \/ unfiled[f]
             /\ stateDb' = [stateDb EXCEPT ![f] = "failed"]
      <4>1. stateDb' = [stateDb EXCEPT ![f] = "failed"]
        BY <1>0, <2>4 DEF RunFails
      <4>2. CASE UNCHANGED <<unit, up>>
        <5>1. unit' = [unit EXCEPT ![f] = unit[f]] /\ up' = [up EXCEPT ![f] = up[f]]
          BY <1>1, <4>2
        <5>2. QED
          BY <1>1, <2>1, <4>1, <5>1
      <4>3. CASE /\ unit' = [unit EXCEPT ![f] = Target]
                 /\ up' = [up EXCEPT ![f] = @ /\ Enables(job.state)]
        <5> DEFINE b == up[f] /\ Enables(job.state)
        <5>1. b \in BOOLEAN /\ (Target = "disabled" => ~b)
          BY <1>2
        <5>2. up' = [up EXCEPT ![f] = b]
          BY <4>3
        <5> HIDE DEF b
        <5>3. QED
          BY <1>2, <4>1, <4>3, <5>1, <5>2
      <4>4. CASE UNCHANGED unit /\ up' = [up EXCEPT ![f] = @ /\ Enables(job.state)]
        <5> DEFINE b == up[f] /\ Enables(job.state)
        <5>1. b \in BOOLEAN /\ (unit[f] = "disabled" => ~b \/ unfiled[f])
          BY <2>1
        <5>2. up' = [up EXCEPT ![f] = b]
          BY <4>4
        <5>3. unit' = [unit EXCEPT ![f] = unit[f]]
          BY <1>1, <4>4
        <5> HIDE DEF b
        <5>4. QED
          BY <1>1, <4>1, <5>1, <5>2, <5>3
      <4>5. QED
        BY <1>0, <2>4, <4>2, <4>3, <4>4 DEF RunFails
    <3>2. d = "failed"
      BY <1>1, <1>4, <3>1
    <3>3. unfiled' = unfiled
      BY <2>4 DEF RunFails
    <3>4. QED
      BY <1>1, <3>1, <3>2, <3>3
  <2>5. CASE EnableFails
    <3>1. /\ unit' = unit /\ up' = [up EXCEPT ![f] = TRUE]
          /\ unfiled' = [unfiled EXCEPT ![f] = TRUE]
      BY <1>0, <2>5 DEF EnableFails
    <3>2. QED
      BY <1>1, <3>1
  <2>6. QED
    BY <2>2, <2>3, <2>4, <2>5
<1>7. stateDb' \in [Features -> {"none", "enabled", "disabled", "failed"}]
      /\ stateDb'[f] = d /\ \A g \in Features \ {f} : stateDb'[g] = stateDb[g]
  BY <1>1, <1>2, <1>4
<1>8. UnitInv'
  BY <1>6, <1>7 DEF FeaturedIInv, UnitInv
<1>9. TypeOK'
  <2>1. /\ cached' \in [Features -> States \cup {Unset, Absent}] /\ failed' \in [Features -> BOOLEAN]
        /\ job' \in Jobs
        /\ job.by = "delayed" => todo' = todo \ {job.feature} /\ job' = NoJob /\ mpc' = "delayed"
        /\ job.by # "delayed" => todo' = todo /\ mpc' = "resync" /\ job'.by = job.by
    BY <1>1, <1>4, AppliedFacts DEF FeaturedIInv
  <2>2. job.by \in {"start", "handler", "delayed"}
    BY <1>1 DEF FeaturedIInv, JobInv, Working
  <2>3. job.by # "delayed" => job' # NoJob
    BY <2>1, <2>2 DEF NoJob
  <2>4. QED
    BY <1>3, <1>6, <1>7, <2>1, <2>3 DEF FeaturedIInv, TypeOK
<1>10. \A g \in Delayed : ~up[g] /\ up'[g] => delayedOn
  BY <1>1, <1>6, FeaturedAssumption
<1>11. QED
  BY <1>5, <1>8, <1>9, <1>10 DEF FeaturedIInv

\* The row has the state of the job, unless it is to be written back:
LEMMA ResyncReadStep ==
  ASSUME FeaturedIInv, ResyncRead
  PROVE  FeaturedIInv'
<1>0. PICK f \in Features : f = job.feature
  BY DEF FeaturedIInv, JobInv, Working, ResyncRead
<1>1. /\ mpc = "resync" /\ job.by \in {"start", "handler"}
      /\ UNCHANGED <<row, events, portInit, portEv, snap, cached, delayedOn, stateDb, unit, up, missed,
                     failed, unfiled, changes, faults>>
      /\ \/ mpc' = "write" /\ todo' = todo /\ job' = job
         \/ Leave /\ (row[f] = job.state \/ (job.state \notin Immutable /\ row[f] \in States))
  BY <1>0 DEF ResyncRead, FeaturedIInv, JobInv, Working, config, system, hist, bounds
<1>2. CASE mpc' = "write" /\ todo' = todo /\ job' = job
  <2>1. TypeOK' /\ JobInv'
    BY <1>1, <1>2 DEF FeaturedIInv, TypeOK, JobInv, Working
  <2>2. Subscribed' = Subscribed /\ \A g \in Features : InHand(g)' = InHand(g)
    BY <1>1, <1>2 DEF Subscribed, InHand, Working
  <2>3. EventInv'
    BY <1>1, <2>2 DEF FeaturedIInv, EventInv
  <2>4. CacheInv'
    BY <1>1, <1>2, <2>2 DEF FeaturedIInv, CacheInv, Agrees, Render
  <2>5. ShownInv'
    BY <1>1, <1>2 DEF FeaturedIInv, ShownInv, Shown, Waits, Pending
  <2>6. QED
    BY <1>1, <2>1, <2>3, <2>4, <2>5, SameUnits DEF FeaturedIInv
<1>3. CASE Leave /\ (row[f] = job.state \/ (job.state \notin Immutable /\ row[f] \in States))
  <2>1. /\ todo' = todo \ {f} /\ todo' \in SUBSET Features
        /\ job' = NoJob /\ job' \in Jobs /\ job'.by = "none"
        /\ job.by = "start" => mpc' = "boot"
        /\ job.by = "handler" => mpc' = "loop"
    BY <1>0, <1>1, <1>3, LeaveFacts DEF FeaturedIInv, Working
  <2>2. TypeOK'
    BY <1>1, <2>1 DEF FeaturedIInv, TypeOK
  <2>3. JobInv'
    BY <1>1, <2>1 DEF FeaturedIInv, JobInv, Working
  <2>4. EventInv'
    BY <1>1, <2>1 DEF FeaturedIInv, EventInv, Subscribed
  <2>5. ASSUME Subscribed', NEW g \in Features, events[g] = <<>> PROVE Agrees(g)
    <3>1. Subscribed /\ job.by = "handler"
      BY <1>1, <2>1, <2>5 DEF Subscribed
    <3>2. CASE g # f
      BY <1>0, <2>5, <3>1, <3>2 DEF FeaturedIInv, CacheInv, InHand
    <3>3. CASE g = f
      <4>1. Asked(f) /\ (Agrees(f) \/ (job.state \in Immutable /\ job.state # Render(f, row[f])))
        BY <1>0, <1>1, <2>5, <3>1, <3>3 DEF FeaturedIInv, CacheInv, InHand, Working
      <4>2. job.state \in Immutable => row[f] = job.state /\ row[f] # Template
        BY <1>3, FeaturedAssumption DEF Immutable, States
      <4>3. job.state \in Immutable => Render(f, row[f]) = job.state
        BY <4>2 DEF Render
      <4>4. QED
        BY <3>3, <4>1, <4>3
    <3>4. QED
      BY <3>2, <3>3
  <2>6. CacheInv'
    BY <1>1, <2>1, <2>5 DEF CacheInv, InHand, Agrees, Render
  <2>7. ShownInv'
    BY <1>1, <2>1 DEF FeaturedIInv, ShownInv, Shown, Waits, Pending
  <2>8. QED
    BY <1>1, <2>2, <2>3, <2>4, <2>6, <2>7, SameUnits DEF FeaturedIInv
<1>4. QED
  BY <1>1, <1>2, <1>3

\* which is then notified like any change.
LEMMA ResyncWriteStep ==
  ASSUME FeaturedIInv, ResyncWrite
  PROVE  FeaturedIInv'
<1>0. PICK f \in Features : f = job.feature
  BY DEF FeaturedIInv, JobInv, Working, ResyncWrite
<1> DEFINE r == IF job.state = Unset THEN Invalid ELSE job.state
<1>1. /\ mpc = "write" /\ job.by \in {"start", "handler"} /\ Leave
      /\ row' = [row EXCEPT ![f] = r]
      /\ events' = IF Subscribed THEN [events EXCEPT ![f] = Append(@, "set")] ELSE events
      /\ UNCHANGED <<portInit, portEv, snap, cached, delayedOn, stateDb, unit, up, missed,
                     failed, unfiled, changes, faults>>
  BY <1>0 DEF ResyncWrite, Notify, FeaturedIInv, JobInv, Working, system, hist, bounds
<1>2. r \in Rows /\ r # Absent
  BY FeaturedAssumption DEF FeaturedIInv, TypeOK, Jobs, Rows
<1> HIDE DEF r
<1>3. /\ todo' = todo \ {f} /\ todo' \in SUBSET Features
      /\ job' = NoJob /\ job' \in Jobs /\ job'.by = "none"
      /\ job.by = "start" => mpc' = "boot"
      /\ job.by = "handler" => mpc' = "loop"
  BY <1>0, <1>1, LeaveFacts DEF FeaturedIInv, Working
<1>4. /\ Subscribed <=> job.by = "handler"
      /\ Subscribed' <=> job.by = "handler"
  BY <1>1, <1>3 DEF Subscribed
<1>5. /\ events' \in [Features -> Seq({"set", "del"})] /\ row' \in [Features -> Rows] /\ row'[f] = r
      /\ \A g \in Features \ {f} : events'[g] = events[g] /\ row'[g] = row[g]
      /\ Subscribed => events'[f] # <<>> /\ LastOf(events'[f]) = "set"
  <2>1. events \in [Features -> Seq({"set", "del"})] /\ row \in [Features -> Rows]
    BY DEF FeaturedIInv, TypeOK
  <2>2. /\ Append(events[f], "set") \in Seq({"set", "del"})
        /\ Append(events[f], "set") # <<>> /\ LastOf(Append(events[f], "set")) = "set"
    BY <2>1, Queue
  <2>3. QED
    BY <1>1, <1>2, <2>1, <2>2
<1>6. TypeOK'
  BY <1>1, <1>3, <1>5 DEF FeaturedIInv, TypeOK
<1>7. JobInv'
  BY <1>1, <1>3 DEF FeaturedIInv, JobInv, Working
<1>8. EventInv'
  BY <1>2, <1>4, <1>5 DEF FeaturedIInv, EventInv
<1>9. ASSUME Subscribed, NEW g \in Features, events'[g] = <<>> PROVE Agrees(g)'
  <2>1. g # f /\ ~InHand(g) /\ events[g] = <<>>
    BY <1>0, <1>5, <1>9 DEF InHand
  <2>2. Agrees(g)
    BY <1>9, <2>1 DEF FeaturedIInv, CacheInv
  <2>3. QED
    BY <1>1, <1>5, <2>1, <2>2 DEF Agrees, Render
<1>10. CacheInv'
  BY <1>3, <1>4, <1>9 DEF CacheInv, InHand
<1>11. ShownInv'
  BY <1>1, <1>3 DEF FeaturedIInv, ShownInv, Shown, Waits, Pending
<1>12. QED
  BY <1>1, <1>6, <1>7, <1>8, <1>10, <1>11, SameUnits DEF FeaturedIInv

\* All of it holds at the start.
LEMMA FeaturedInitially ==
  ASSUME Init
  PROVE  FeaturedIInv
<1>1. <<>> \in Seq({"set", "del"})
  OBVIOUS
<1>2. TypeOK
  BY <1>1 DEF Init, TypeOK, Jobs, NoJob, Rows
<1>3. JobInv /\ EventInv /\ CacheInv
  BY DEF Init, JobInv, EventInv, CacheInv, Working, Subscribed, NoJob
<1>4. ShownInv /\ UnitInv
  BY FeaturedAssumption DEF Init, ShownInv, Shown, UnitInv
<1>5. QED
  BY <1>2, <1>3, <1>4 DEF FeaturedIInv

\* Only a job that runs its commands starts a service.
LEMMA FeaturedStepOk ==
  ASSUME FeaturedIInv, Next
  PROVE  FeaturedIInv' /\ \A f \in Delayed : ~up[f] /\ up'[f] => delayedOn
<1>1. CASE Skip \/ Run \/ RunFails \/ EnableFails
  BY <1>1, RunStep
<1>2. ASSUME NEW f \in Features,
             SyncStateField(f) \/ Deregister(f) \/ NothingNew(f) \/ Change(f) \/ StartDelayed(f)
      PROVE  up' = up
  BY <1>2 DEF SyncStateField, Deregister, NothingNew, Change, StartDelayed, system
<1>3. ASSUME NEW f \in Features, NEW r \in Rows, SetRow(f, r)
      PROVE  FeaturedIInv' /\ up' = up
  BY <1>3, SetRowStep DEF SetRow, system
<1>4. ASSUME NEW f \in Features,
             SyncStateField(f) \/ Deregister(f) \/ NothingNew(f) \/ Change(f) \/ StartDelayed(f)
      PROVE  FeaturedIInv' /\ up' = up
  BY <1>2, <1>4, SyncStep, DeregisterStep, NothingNewStep, ChangeStep, StartDelayedStep
<1>5. CASE PortInitDone \/ \E f \in Features : ServiceFails(f)
  <2>1. \A f \in Features : up'[f] => up[f]
    BY <1>5 DEF PortInitDone, ServiceFails, system, FeaturedIInv, TypeOK
  <2>2. QED
    BY <1>5, <2>1, EnvironmentStep, FeaturedAssumption
<1>6. CASE Snapshot \/ RegisterCallbacks \/ Restart
  BY <1>6, StartStep DEF Snapshot, RegisterCallbacks, Restart, system
<1>7. CASE InvalidState \/ Killed
  <2>1. /\ Gone /\ UNCHANGED <<row, portInit, delayedOn, stateDb, unit, up, missed, failed, unfiled>>
        /\ changes' = changes /\ faults' \in Nat
    BY <1>7 DEF InvalidState, Killed, FeaturedIInv, TypeOK, system, hist, bounds
  <2>2. QED
    BY <2>1, GoneStep
<1>8. CASE PortListener \/ PortTimeout \/ DelayedDone
  BY <1>8, EnableDelayedStep, StartDelayedStep
  DEF PortListener, PortTimeout, EnableDelayed, DelayedDone, system
<1>9. CASE ResyncRead \/ ResyncWrite
  BY <1>9, ResyncReadStep, ResyncWriteStep DEF ResyncRead, ResyncWrite, system
<1>10. QED
  BY <1>1, <1>3, <1>4, <1>5, <1>6, <1>7, <1>8, <1>9 DEF Next, Environment, Daemon

LEMMA FeaturedStutters ==
  ASSUME FeaturedIInv, UNCHANGED vars
  PROVE  FeaturedIInv' /\ up' = up
<1>1. UNCHANGED <<row, events, portInit, portEv, mpc, snap, todo, job, cached, delayedOn, stateDb, unit,
                  up, missed, failed, unfiled, changes, faults>>
  BY DEF vars, config, memory, system, hist, bounds
<1>2. TypeOK'
  BY <1>1 DEF FeaturedIInv, TypeOK
<1>3. QED
  BY <1>1, <1>2, SameJob, SameEvents, SameCache, SameShown, SameUnits DEF FeaturedIInv

\* The inductive invariant holds.
THEOREM FeaturedInvariant == Spec => []FeaturedIInv
<1>1. FeaturedIInv /\ [Next]_vars => FeaturedIInv'
  BY FeaturedStepOk, FeaturedStutters
<1>2. QED
  BY <1>1, FeaturedInitially, PTL DEF Spec

\* Between two notifications the cache of featured follows the rows (update_feature_state and
\* resync_feature_state), however changes, templates, write-backs and failures fall.
THEOREM CacheHolds == Spec => []CacheFollowsRows
<1>1. ASSUME FeaturedIInv PROVE CacheFollowsRows
  <2>1. SUFFICES ASSUME mpc = "loop", NEW f \in Features, events[f] = <<>> PROVE Agrees(f)
    BY DEF CacheFollowsRows, Agrees
  <2>2. Subscribed /\ ~InHand(f)
    BY <1>1, <2>1, NoJobHere DEF FeaturedIInv, Subscribed, Working
  <2>3. QED
    BY <1>1, <2>1, <2>2 DEF FeaturedIInv, CacheInv
<1>2. QED
  BY <1>1, FeaturedInvariant, PTL

\* Between two notifications STATE_DB follows the cache, and a service said to be disabled does
\* not run, unless its latest start was one whose "enable" failed unnoticed (scripts/featured:
\* 501-513).
THEOREM StateHolds == Spec => []StateFollowsCache
<1>1. ASSUME FeaturedIInv PROVE StateFollowsCache
  <2>1. mpc = "loop" => \A f \in Features : ~Pending(f)
    BY <1>1, NoJobHere DEF FeaturedIInv, Pending, Working
  <2>2. mpc = "loop" => \A f \in Features : ~Waits(f) => Shown(f)
    BY <1>1, <2>1 DEF FeaturedIInv, ShownInv
  <2>3. \A f \in Features : stateDb[f] = "disabled" => ~up[f] \/ unfiled[f]
    BY <1>1 DEF FeaturedIInv, UnitInv
  <2>4. QED
    BY <2>2, <2>3 DEF StateFollowsCache, Shown, Direction
<1>2. QED
  BY <1>1, FeaturedInvariant, PTL

\* No step of the daemon starts a delayed feature before the release (enable_delayed_services).
THEOREM DelayedWait == Spec => DelayedNotBefore
<1>1. FeaturedIInv /\ [Next]_vars => [\A f \in Delayed : ~up[f] /\ up'[f] => delayedOn]_vars
  BY FeaturedStepOk
<1>2. QED
  BY <1>1, FeaturedInvariant, PTL DEF Spec, DelayedNotBefore
-----------------------------------------------------------------------------
\* hostcfgd.

\* i is in the queue.
In(i, s) == \E k \in 1 .. Len(s) : s[k] = i

\* Where hostcfgd is.
Turn == hpc \in {"busy", "interfaces", "chrony"}
Awake == hpc = "idle" \/ Turn
Midway == hpc \in {"interfaces", "chrony"}

\* Nothing is left over while hostcfgd is down, waits or is idle; midway through update_mgmt_vrf
\* the item is the VRF.
PhaseInv ==
    /\ hpc = "down" => news = <<>>
    /\ hpc \in {"down", "waiting", "idle"} => tasks = <<>>
    /\ Midway => tasks # <<>> /\ Head(tasks) = "vrf"

\* What was read is the row, unless a notification waits.
ReadInv ==
    /\ hpc = "waiting" => \A i \in Host!Items : In(i, news) \/ init_data[i] = setting[i]
    /\ Turn => \A i \in Host!Items : In(i, tasks) => In(i, news) \/ told[i] = setting[i]

\* The item's service is one of those update_mgmt_vrf restarts, and it is midway.
Busy(i) == i \in Host!VrfServices /\ Midway

\* Items whose handlers remember what they restarted the service for.
Kept == {"hostname", "syslog", "iface", "ntp", "logging"}

\* A service is made of what hostcfgd remembers, if hostcfgd remembers it and has not lost it.
KeptInv ==
    Awake => \A i \in Host!Items \ astray :
        ~Busy(i) /\ (i \in Kept \/ (i \in {"banner", "vrf"} /\ remembered[i] # None))
        => applied[i] = remembered[i]

\* What ServicesFollowRows asks of one item.
Suits(i) ==
    \/ applied[i] = setting[i]
    \/ i \in astray
    \/ setting[i] = None /\ i \in Host!IgnoresNone
    \/ setting[i] = remembered[i] /\ i = "osversion"

\* It holds of each item that is neither waiting nor being worked on.
SuitInv ==
    /\ Awake => \A i \in Host!Items : ~Busy(i) /\ ~In(i, news) /\ ~In(i, tasks) => Suits(i)
    /\ hpc = "chrony" => \A i \in {"iface", "vrf"} : In(i, news) \/ applied[i] = setting[i]

\* The inductive invariant of hostcfgd.
HostIInv == Host!TypeOK /\ PhaseInv /\ ReadInv /\ KeptInv /\ SuitInv

\* Members of a queue whose head is taken, or that is appended to.
LEMMA TailIn ==
  ASSUME NEW S, NEW s \in Seq(S), s # <<>>, NEW i
  PROVE  In(i, s) <=> i = Head(s) \/ In(i, Tail(s))
<1>1. /\ Len(s) \in Nat /\ Len(s) > 0 /\ Head(s) = s[1] /\ Len(Tail(s)) = Len(s) - 1
      /\ \A k \in 1 .. Len(s) - 1 : Tail(s)[k] = s[k + 1]
  OBVIOUS
<1>2. ASSUME In(i, s), i # Head(s) PROVE In(i, Tail(s))
  <2>1. PICK k \in 1 .. Len(s) : s[k] = i
    BY <1>2 DEF In
  <2>2. k - 1 \in 1 .. Len(s) - 1 /\ (k - 1) + 1 = k
    BY <1>1, <1>2, <2>1
  <2>3. QED
    BY <1>1, <2>1, <2>2 DEF In
<1>3. ASSUME In(i, Tail(s)) PROVE In(i, s)
  <2>1. PICK k \in 1 .. Len(s) - 1 : Tail(s)[k] = i
    BY <1>1, <1>3 DEF In
  <2>2. k + 1 \in 1 .. Len(s) /\ s[k + 1] = i
    BY <1>1, <2>1
  <2>3. QED
    BY <2>2 DEF In
<1>4. In(Head(s), s)
  BY <1>1 DEF In
<1>5. QED
  BY <1>2, <1>3, <1>4

LEMMA AppendIn ==
  ASSUME NEW S, NEW s \in Seq(S), NEW x \in S, NEW i
  PROVE  In(i, Append(s, x)) <=> In(i, s) \/ i = x
<1>1. /\ Len(s) \in Nat /\ Len(Append(s, x)) = Len(s) + 1 /\ Append(s, x)[Len(s) + 1] = x
      /\ \A k \in 1 .. Len(s) : Append(s, x)[k] = s[k]
  OBVIOUS
<1>2. QED
  BY <1>1 DEF In

LEMMA InNone == ASSUME NEW i PROVE ~In(i, <<>>)
BY DEF In

\* Items whose services are restarted together.
LEMMA Services ==
  ASSUME NEW i \in Host!Items
  PROVE  /\ i \in Host!Service(i) /\ Host!Service(i) \subseteq Host!Items
         /\ i \in {"osversion", "syslog"} => Host!Service(i) = {"osversion", "syslog"}
         /\ i \in {"iface", "vrf"} => Host!Service(i) = {"iface", "vrf"}
         /\ i \notin {"osversion", "syslog", "iface", "vrf"} => Host!Service(i) = {i}
BY DEF Host!Items, Host!Metadata, Host!Service

\* Services made of their rows, or left alone.
LEMMA RowsType ==
  ASSUME Host!TypeOK, NEW is
  PROVE  /\ Host!Rows(is) \in [Host!Items -> Settings \cup {None, Unread}]
         /\ \A j \in Host!Items : /\ j \in is => Host!Rows(is)[j] = setting[j]
                                  /\ j \notin is => Host!Rows(is)[j] = applied[j]
BY DEF Host!TypeOK, Host!Rows

\* A restart, whether it succeeds or fails, keeps the types,
LEMMA RestartType ==
  ASSUME Host!TypeOK, NEW is \in SUBSET Host!Items, Host!Restarted(is) \/ Host!Fails(is)
  PROVE  /\ applied' \in [Host!Items -> Settings \cup {None, Unread}]
         /\ astray' \subseteq Host!Items
         /\ configFaults' \in Nat
<1>1. CASE Host!Restarted(is)
  BY <1>1, RowsType DEF Host!Restarted, Host!TypeOK
<1>2. CASE Host!Fails(is)
  BY <1>2, RowsType DEF Host!Fails, Host!Fault, Host!TypeOK
<1>3. QED
  BY <1>1, <1>2

\* and so do the queue of tasks
LEMMA GoesType ==
  ASSUME Host!TypeOK, NEW step, Host!Goes(step),
         step \in {"interfaces", "chrony"} \/ (step = "busy" /\ tasks # <<>>)
  PROVE  /\ hpc' \in {"down", "waiting", "idle", "busy", "interfaces", "chrony"}
         /\ tasks' \in Seq(Host!Items)
         /\ setting' \in [Host!Items -> Settings \cup {None}]
         /\ news' \in Seq(Host!Items)
         /\ {init_data', told'} \subseteq [Host!Items -> Settings \cup {None}]
         /\ settings' \in Nat
BY DEF Host!Goes, Host!TypeOK

\* and what is remembered,
LEMMA RememberType ==
  ASSUME Host!TypeOK, NEW i \in Host!Items, Host!Remember(i) \/ UNCHANGED remembered
  PROVE  remembered' \in [Host!Items -> Settings \cup {None}]
BY DEF Host!Remember, Host!TypeOK

\* the handlers,
LEMMA HandleType ==
  ASSUME Host!TypeOK, Host!Handle, hpc \in {"interfaces", "chrony"} => tasks # <<>>
  PROVE  Host!TypeOK'
<1>0. \A i \in Host!Items : Host!On(i) => tasks # <<>>
  BY DEF Host!On
<1>1. ASSUME NEW i \in Host!Items, Host!Skip(i) PROVE Host!TypeOK'
  <2>1. Host!Goes("busy") /\ tasks # <<>> /\ UNCHANGED <<remembered, applied, astray, configFaults>>
    BY <1>0, <1>1 DEF Host!Skip
  <2>2. QED
    BY <2>1, GoesType DEF Host!TypeOK
<1>2. ASSUME NEW i \in Host!Items, Host!RestartKept(i) PROVE Host!TypeOK'
  <2>1. /\ Host!Goes("busy") /\ tasks # <<>>
        /\ Host!Remember(i) \/ UNCHANGED remembered
        /\ Host!Restarted(Host!Service(i)) \/ Host!Fails(Host!Service(i))
    BY <1>0, <1>2 DEF Host!RestartKept
  <2>2. QED
    BY <2>1, Services, GoesType, RestartType, RememberType DEF Host!TypeOK
<1>3. ASSUME NEW i \in Host!Items, Host!RestartBlindly(i) PROVE Host!TypeOK'
  <2>1. /\ Host!Goes("busy") /\ tasks # <<>>
        /\ Host!Remember(i) \/ UNCHANGED remembered
        /\ Host!Restarted(Host!Service(i)) \/ Host!Fails(Host!Service(i))
    BY <1>0, <1>3 DEF Host!RestartBlindly
  <2>2. QED
    BY <2>1, Services, GoesType, RestartType, RememberType DEF Host!TypeOK
<1>4. CASE Host!SetTimezone
  <2>1. Host!Goes("busy") /\ tasks # <<>> /\ Host!Remember("timezone") /\ "timezone" \in Host!Items
    BY <1>0, <1>4 DEF Host!SetTimezone, Host!Items, Host!Metadata
  <2>2. /\ applied' \in [Host!Items -> Settings \cup {None, Unread}]
        /\ astray' \subseteq Host!Items
        /\ configFaults' \in Nat
    BY <1>4, <2>1 DEF Host!SetTimezone, Host!TypeOK, Host!Fault
  <2>3. QED
    BY <2>1, <2>2, GoesType, RememberType DEF Host!TypeOK
<1>5. Host!VrfServices \subseteq Host!Items /\ {"ntp"} \subseteq Host!Items /\ "vrf" \in Host!Items
  BY DEF Host!VrfServices, Host!Items, Host!Metadata
<1>6. ASSUME NEW outcomes, outcomes \subseteq [Host!Items -> Settings \cup {None, Unread}],
             Host!GivesUp(outcomes), tasks # <<>>
      PROVE  Host!TypeOK'
  <2>1. Host!Goes("busy") /\ UNCHANGED remembered
    BY <1>6 DEF Host!GivesUp
  <2>2. /\ applied' \in [Host!Items -> Settings \cup {None, Unread}]
        /\ astray' \subseteq Host!Items
        /\ configFaults' \in Nat
    BY <1>5, <1>6 DEF Host!GivesUp, Host!TypeOK, Host!Fault
  <2>3. QED
    BY <1>6, <2>1, <2>2, GoesType DEF Host!TypeOK
<1>7. CASE Host!StopChrony
  <2> DEFINE stopped == [applied EXCEPT !["ntp"] = Unread]
  <2>1. stopped \in [Host!Items -> Settings \cup {None, Unread}]
    BY DEF Host!TypeOK
  <2>2. tasks # <<>>
    BY <1>0, <1>5, <1>7 DEF Host!StopChrony
  <2>3. \/ /\ applied' = stopped /\ Host!Goes("interfaces")
           /\ UNCHANGED <<remembered, astray, configFaults>>
        \/ Host!GivesUp({stopped})
    BY <1>7 DEF Host!StopChrony
  <2> HIDE DEF stopped
  <2>4. CASE Host!GivesUp({stopped})
    BY <1>6, <2>1, <2>2, <2>4
  <2>5. CASE /\ applied' = stopped /\ Host!Goes("interfaces")
             /\ UNCHANGED <<remembered, astray, configFaults>>
    BY <2>1, <2>5, GoesType DEF Host!TypeOK
  <2>6. QED
    BY <2>3, <2>4, <2>5
<1>8. CASE Host!RestartInterfaces
  <2> DEFINE outcomes == {Host!Rows(part) : part \in SUBSET Host!Service("vrf")}
  <2>1. outcomes \subseteq [Host!Items -> Settings \cup {None, Unread}]
    BY RowsType
  <2>2. \/ /\ applied' = Host!Rows(Host!Service("vrf")) /\ Host!Goes("chrony")
           /\ UNCHANGED <<remembered, astray, configFaults>>
        \/ Host!GivesUp(outcomes)
    BY <1>8 DEF Host!RestartInterfaces
  <2>3. tasks # <<>>
    BY <1>8 DEF Host!RestartInterfaces
  <2> HIDE DEF outcomes
  <2>4. CASE Host!GivesUp(outcomes)
    BY <1>6, <2>1, <2>3, <2>4
  <2>5. CASE /\ applied' = Host!Rows(Host!Service("vrf")) /\ Host!Goes("chrony")
             /\ UNCHANGED <<remembered, astray, configFaults>>
    BY <2>5, RowsType, GoesType DEF Host!TypeOK
  <2>6. QED
    BY <2>2, <2>4, <2>5
<1>9. CASE Host!StartChrony
  <2>1. tasks # <<>>
    BY <1>9 DEF Host!StartChrony
  <2>2. CASE Host!GivesUp({Host!Rows({"ntp"})})
    BY <1>6, <2>1, <2>2, RowsType
  <2>3. CASE /\ Host!Remember("vrf") /\ applied' = Host!Rows({"ntp"}) /\ Host!Goes("busy")
             /\ astray' = (astray \ Host!VrfServices)
                          \cup {j \in Host!VrfServices : applied'[j] # remembered'[j]}
             /\ UNCHANGED configFaults
    <3>1. astray' \subseteq Host!Items /\ configFaults' \in Nat
      BY <1>5, <2>3 DEF Host!TypeOK
    <3>2. QED
      BY <1>5, <2>1, <2>3, <3>1, RowsType, GoesType, RememberType DEF Host!TypeOK
  <2>4. QED
    BY <1>9, <2>2, <2>3 DEF Host!StartChrony
<1>10. QED
  BY <1>1, <1>2, <1>3, <1>4, <1>7, <1>8, <1>9 DEF Host!Handle

\* and every step.
LEMMA HostTypeStep ==
  ASSUME Host!TypeOK, PhaseInv, Host!Next
  PROVE  Host!TypeOK'
<1>1. ASSUME NEW i \in Host!Items, Host!Set(i) PROVE Host!TypeOK'
  BY <1>1 DEF Host!Set, Host!TypeOK, Host!memory
<1>2. ASSUME NEW i \in Host!Items, Host!Boots(i) PROVE Host!TypeOK'
  BY <1>2 DEF Host!Boots, Host!TypeOK, Host!memory
<1>3. CASE Host!Subscribe
  BY <1>3 DEF Host!Subscribe, Host!TypeOK
<1>4. CASE Host!Load
  <2>1. {"timezone", "dns", "banner"} \subseteq Host!Items
    BY DEF Host!Items, Host!Metadata
  <2>2. tasks' \in Seq(Host!Items)
    BY <1>4, <2>1 DEF Host!Load
  <2>3. init_data' \in [Host!Items -> Settings \cup {None}]
    BY <1>4 DEF Host!Load, Host!Nothing
  <2>4. remembered' \in [Host!Items -> Settings \cup {None}]
    BY <1>4 DEF Host!Load, Host!TypeOK
  <2>5. QED
    BY <1>4, <2>2, <2>3, <2>4 DEF Host!Load, Host!TypeOK
<1>5. CASE Host!Notified
  <2>1. {"hostname", "timezone", "osversion"} \subseteq Host!Items
    BY DEF Host!Items, Host!Metadata
  <2>2. Head(news) \in Host!Items /\ news' \in Seq(Host!Items)
    BY <1>5 DEF Host!Notified, Host!TypeOK
  <2>3. tasks' \in Seq(Host!Items)
    BY <1>5, <2>1, <2>2 DEF Host!Notified
  <2>4. QED
    BY <1>5, <2>2, <2>3 DEF Host!Notified, Host!TypeOK
<1>6. CASE Host!Handled
  BY <1>6 DEF Host!Handled, Host!TypeOK, Host!Nothing
<1>7. CASE Host!Handle
  BY <1>7, HandleType DEF PhaseInv, Midway
<1>8. CASE Host!Ends
  <2>1. Host!VrfServices \subseteq Host!Items /\ Host!Nothing \in [Host!Items -> Settings \cup {None}]
    BY DEF Host!VrfServices, Host!Items, Host!Metadata, Host!Nothing
  <2>2. QED
    BY <1>8, <2>1 DEF Host!Ends, Host!TypeOK, Host!Fault
<1>9. QED
  BY <1>1, <1>2, <1>3, <1>4, <1>5, <1>6, <1>7, <1>8 DEF Host!Next

\* Lasting relations of one item, when no work on its services is under way.
Keeps(j) ==
    j \in Kept \/ (j \in {"banner", "vrf"} /\ remembered[j] # None) => applied[j] = remembered[j]

\* A handler is done with its item: what it does to the services is right, or they are astray.
LEMMA HandlerKeeps ==
  ASSUME HostIInv, NEW i \in Host!Items, Host!On(i), Host!Goes("busy"),
         \A j \in Host!Items \ astray' :
            \/ /\ j # i /\ j \notin astray
               /\ applied'[j] = applied[j] /\ remembered'[j] = remembered[j]
            \/ Keeps(j)' /\ (In(j, news) \/ Suits(j)')
  PROVE  KeptInv' /\ SuitInv'
<1>1. /\ hpc = "busy" /\ hpc' = "busy" /\ tasks # <<>> /\ Head(tasks) = i /\ tasks' = Tail(tasks)
      /\ setting' = setting /\ news' = news
  BY DEF Host!On, Host!Goes
<1>2. \A j \in Host!Items : ~Busy(j) /\ ~Busy(j)'
  BY <1>1 DEF Busy, Midway
<1>3. \A j \in Host!Items : In(j, tasks) <=> j = i \/ In(j, tasks')
  BY <1>1, TailIn DEF HostIInv, Host!TypeOK
<1>4. /\ \A j \in Host!Items \ astray : Keeps(j)
      /\ \A j \in Host!Items : ~In(j, news) /\ ~In(j, tasks) => Suits(j)
  BY <1>1, <1>2 DEF HostIInv, KeptInv, SuitInv, Keeps, Awake, Turn
<1>5. ASSUME NEW j \in Host!Items, j \notin astray' PROVE Keeps(j)'
  BY <1>4, <1>5 DEF Keeps
<1>6. ASSUME NEW j \in Host!Items, ~In(j, news), ~In(j, tasks') PROVE Suits(j)'
  <2>1. CASE j \in astray'
    BY <2>1 DEF Suits
  <2>2. CASE j # i /\ j \notin astray /\ applied'[j] = applied[j] /\ remembered'[j] = remembered[j]
    BY <1>1, <1>3, <1>4, <1>6, <2>2 DEF Suits
  <2>3. QED
    BY <1>6, <2>1, <2>2
<1>7. KeptInv'
  BY <1>5 DEF KeptInv, Keeps
<1>8. SuitInv'
  BY <1>1, <1>6 DEF SuitInv
<1>9. QED
  BY <1>7, <1>8

\* The row a handler was told of is the present one, unless a notification waits.
LEMMA ToldIsRow ==
  ASSUME HostIInv, NEW i \in Host!Items, Host!On(i)
  PROVE  In(i, news) \/ told[i] = setting[i]
<1>1. hpc = "busy" /\ tasks # <<>> /\ Head(tasks) = i /\ tasks \in Seq(Host!Items)
  BY DEF Host!On, HostIInv, Host!TypeOK
<1>2. In(i, tasks)
  BY <1>1, TailIn
<1>3. QED
  BY <1>1, <1>2 DEF HostIInv, ReadInv, Turn

\* Services that are restarted have their rows, or are astray.
LEMMA RestartedKeeps ==
  ASSUME HostIInv, NEW i \in Host!Items, Host!On(i), Host!Goes("busy"),
         NEW is \in SUBSET Host!Items, i \in is, Host!Restarted(is),
         Host!Remember(i) \/ (i \in {"osversion", "dns"} /\ UNCHANGED remembered)
  PROVE  KeptInv' /\ SuitInv'
<1>1. /\ hpc = "busy" /\ tasks # <<>> /\ Head(tasks) = i
      /\ setting' = setting
  BY DEF Host!On, Host!Goes
<1>2. ASSUME NEW j \in Host!Items \ astray'
      PROVE  \/ /\ j # i /\ j \notin astray
                /\ applied'[j] = applied[j] /\ remembered'[j] = remembered[j]
             \/ Keeps(j)' /\ (In(j, news) \/ Suits(j)')
  <2>1. CASE j \notin is
    BY <2>1, RowsType DEF Host!Restarted, Host!Remember, HostIInv, Host!TypeOK
  <2>2. CASE j \in is
    <3>1. applied'[j] = setting[j] /\ setting[j] = Host!Known(j)
      BY <1>2, <2>2, RowsType DEF Host!Restarted, HostIInv
    <3>2. j = i => Host!Known(j) = told[j]
      BY DEF Host!Known
    <3>3. j # i => Host!Known(j) = remembered[j]
      BY <1>1 DEF Host!Known, Host!On
    <3>4. Suits(j)'
      BY <1>1, <3>1 DEF Suits
    <3>5. j # i => remembered'[j] = remembered[j]
      BY DEF Host!Remember, HostIInv, Host!TypeOK
    <3>6. j = i => remembered'[j] = told[j] \/ j \in {"osversion", "dns"}
      BY DEF Host!Remember, HostIInv, Host!TypeOK
    <3>7. Keeps(j)'
      BY <3>1, <3>2, <3>3, <3>5, <3>6 DEF Keeps, Kept
    <3>8. QED
      BY <3>4, <3>7
  <2>3. QED
    BY <2>1, <2>2
<1>3. QED
  BY <1>2, HandlerKeeps

\* After a failure they are astray.
LEMMA FailsKeeps ==
  ASSUME HostIInv, NEW i \in Host!Items, Host!On(i), Host!Goes("busy"),
         NEW is \in SUBSET Host!Items, i \in is, Host!Fails(is),
         Host!Remember(i) \/ UNCHANGED remembered
  PROVE  KeptInv' /\ SuitInv'
<1>1. PICK part \in SUBSET is : applied' = Host!Rows(part)
  BY DEF Host!Fails
<1>2. astray' = astray \cup is
  BY DEF Host!Fails
<1>3. ASSUME NEW j \in Host!Items \ astray'
      PROVE  /\ j # i /\ j \notin astray
             /\ applied'[j] = applied[j] /\ remembered'[j] = remembered[j]
  BY <1>1, <1>2, RowsType DEF Host!Remember, HostIInv, Host!TypeOK
<1>4. QED
  BY <1>3, HandlerKeeps

\* Nothing to do means that the service has the row.
LEMMA SkipKeeps ==
  ASSUME HostIInv, NEW i \in Host!Items, Host!Skip(i)
  PROVE  KeptInv' /\ SuitInv'
<1>1. /\ Host!On(i) /\ Host!NothingToDo(i) /\ Host!Goes("busy") /\ hpc = "busy"
      /\ UNCHANGED <<remembered, applied, astray, setting>>
  BY DEF Host!Skip, Host!Goes, Host!On
<1>2. i \notin astray => Keeps(i)
  BY <1>1 DEF HostIInv, KeptInv, Keeps, Awake, Turn, Busy, Midway
<1>3. In(i, news) \/ told[i] = setting[i]
  BY <1>1, ToldIsRow
<1>4. told[i] = setting[i] => Suits(i)
  <2>1. CASE told[i] = None /\ i \in Host!IgnoresNone
    BY <2>1 DEF Suits
  <2>2. CASE told[i] = remembered[i] /\ i = "timezone" /\ applied[i] = told[i]
    BY <2>2 DEF Suits
  <2>3. CASE told[i] = remembered[i] /\ i \notin {"dns", "timezone"}
    BY <1>2, <2>1, <2>3 DEF Suits, Keeps, Kept, Host!IgnoresNone, Host!Items, Host!Metadata
  <2>4. QED
    BY <1>1, <2>1, <2>2, <2>3 DEF Host!NothingToDo
<1>5. (Keeps(i) => Keeps(i)') /\ (Suits(i) => Suits(i)')
  BY <1>1 DEF Keeps, Suits
<1>6. \A j \in Host!Items \ astray' :
            \/ /\ j # i /\ j \notin astray
               /\ applied'[j] = applied[j] /\ remembered'[j] = remembered[j]
            \/ Keeps(j)' /\ (In(j, news) \/ Suits(j)')
  BY <1>1, <1>2, <1>3, <1>4, <1>5
<1>7. QED
  BY <1>1, <1>6, HandlerKeeps

\* The timezone is set to the row that was told.
LEMMA TimezoneKeeps ==
  ASSUME HostIInv, Host!SetTimezone
  PROVE  KeptInv' /\ SuitInv'
<1> DEFINE i == "timezone"
<1>1. /\ i \in Host!Items /\ Host!On(i) /\ Host!Goes("busy") /\ Host!Remember(i) /\ setting' = setting
      /\ \/ /\ applied' = [applied EXCEPT ![i] = told[i]]
            /\ astray' = astray \ {i}
         \/ UNCHANGED applied /\ astray' = astray \cup {i}
  BY DEF Host!SetTimezone, Host!Goes, Host!Items, Host!Metadata
<1>2. In(i, news) \/ told[i] = setting[i]
  BY <1>1, ToldIsRow
<1>3. ASSUME NEW j \in Host!Items \ astray'
      PROVE  \/ /\ j # i /\ j \notin astray
                /\ applied'[j] = applied[j] /\ remembered'[j] = remembered[j]
             \/ Keeps(j)' /\ (In(j, news) \/ Suits(j)')
  <2>1. CASE j # i
    BY <1>1, <1>3, <2>1 DEF Host!Remember, HostIInv, Host!TypeOK
  <2>2. CASE j = i
    <3>1. applied'[j] = told[j]
      BY <1>1, <1>3, <2>2 DEF HostIInv, Host!TypeOK
    <3>2. QED
      BY <1>1, <1>2, <2>2, <3>1 DEF Keeps, Suits, Kept
  <2>3. QED
    BY <2>1, <2>2
<1>4. QED
  BY <1>1, <1>3, HandlerKeeps

\* A failure in update_mgmt_vrf leaves its three services astray.
LEMMA GivesUpKeeps ==
  ASSUME HostIInv, NEW outcomes, Host!GivesUp(outcomes), Midway \/ Host!On("vrf"),
         \A o \in outcomes : \A j \in Host!Items \ Host!VrfServices : o[j] = applied[j]
  PROVE  KeptInv' /\ SuitInv'
<1>1. /\ applied' = applied \/ applied' \in outcomes
      /\ astray' = astray \cup Host!VrfServices /\ remembered' = remembered
      /\ Host!Goes("busy")
  BY DEF Host!GivesUp
<1>2. /\ Awake /\ hpc' = "busy" /\ tasks' = Tail(tasks) /\ setting' = setting /\ news' = news
      /\ tasks # <<>> /\ Head(tasks) = "vrf" /\ "vrf" \in Host!VrfServices
  BY <1>1 DEF Host!Goes, Host!On, HostIInv, PhaseInv, Midway, Awake, Turn, Host!VrfServices
<1>3. ASSUME NEW j \in Host!Items \ astray'
      PROVE  /\ j \notin Host!VrfServices /\ j \notin astray /\ ~Busy(j) /\ j # "vrf"
             /\ applied'[j] = applied[j] /\ remembered'[j] = remembered[j]
  BY <1>1, <1>2 DEF Busy
<1>4. \A j \in Host!Items : In(j, tasks) <=> j = "vrf" \/ In(j, tasks')
  BY <1>2, TailIn DEF HostIInv, Host!TypeOK
<1>5. KeptInv'
  BY <1>2, <1>3 DEF HostIInv, KeptInv
<1>6. ASSUME NEW j \in Host!Items, ~In(j, news), ~In(j, tasks') PROVE Suits(j)'
  <2>1. CASE j \in astray'
    BY <2>1 DEF Suits
  <2>2. CASE j \notin astray'
    <3>1. Suits(j)
      BY <1>2, <1>3, <1>4, <1>6, <2>2 DEF HostIInv, SuitInv
    <3>2. QED
      BY <1>2, <1>3, <2>2, <3>1 DEF Suits
  <2>3. QED
    BY <2>1, <2>2
<1>7. SuitInv'
  BY <1>2, <1>6 DEF SuitInv
<1>8. QED
  BY <1>5, <1>7

\* The items of other services are not touched while the VRF changes.
LEMMA OthersKeep ==
  ASSUME HostIInv, Awake, Awake', Midway \/ Host!On("vrf"),
         \/ Midway' /\ tasks' = tasks
         \/ hpc' = "busy" /\ tasks' = Tail(tasks),
         setting' = setting, news' = news,
         \A j \in Host!Items \ Host!VrfServices :
             /\ applied'[j] = applied[j] /\ remembered'[j] = remembered[j]
             /\ j \in astray' <=> j \in astray,
         hpc' = "busy" => \A j \in Host!VrfServices \ astray' :
                             Keeps(j)' /\ (In(j, news) \/ Suits(j)'),
         hpc' = "chrony" => \A j \in {"iface", "vrf"} : applied'[j] = setting[j]
  PROVE  KeptInv' /\ SuitInv'
<1>1. /\ tasks # <<>> /\ Head(tasks) = "vrf" /\ "vrf" \in Host!VrfServices
      /\ Host!VrfServices \subseteq Host!Items
  BY DEF Host!On, HostIInv, PhaseInv, Host!VrfServices, Host!Items, Host!Metadata
<1>2. \A j \in Host!Items : In(j, tasks) <=> j = "vrf" \/ In(j, Tail(tasks))
  BY <1>1, TailIn DEF HostIInv, Host!TypeOK
<1>3. ASSUME NEW j \in Host!Items, j \notin Host!VrfServices
      PROVE  /\ ~Busy(j) /\ j # "vrf"
             /\ applied'[j] = applied[j] /\ remembered'[j] = remembered[j]
             /\ j \in astray' <=> j \in astray
             /\ In(j, tasks') <=> In(j, tasks)
  BY <1>1, <1>2, <1>3 DEF Busy
<1>4. ASSUME NEW j \in Host!VrfServices, ~Busy(j)' PROVE hpc' = "busy"
  BY <1>4 DEF Busy, Midway
<1>5. ASSUME NEW j \in Host!Items, j \notin astray', ~Busy(j)' PROVE Keeps(j)'
  <2>1. CASE j \in Host!VrfServices
    BY <1>4, <1>5, <2>1
  <2>2. CASE j \notin Host!VrfServices
    <3>1. Keeps(j)
      BY <1>3, <1>5, <2>2 DEF HostIInv, KeptInv, Keeps
    <3>2. QED
      BY <1>3, <2>2, <3>1 DEF Keeps
  <2>3. QED
    BY <2>1, <2>2
<1>6. ASSUME NEW j \in Host!Items, ~Busy(j)', ~In(j, news), ~In(j, tasks') PROVE Suits(j)'
  <2>1. CASE j \in Host!VrfServices
    BY <1>4, <1>6, <2>1 DEF Suits
  <2>2. CASE j \notin Host!VrfServices
    <3>1. Suits(j)
      BY <1>3, <1>6, <2>2 DEF HostIInv, SuitInv
    <3>2. QED
      BY <1>3, <2>2, <3>1 DEF Suits
  <2>3. QED
    BY <2>1, <2>2
<1>7. KeptInv'
  BY <1>5 DEF KeptInv, Keeps
<1>8. SuitInv'
  BY <1>6 DEF SuitInv
<1>9. QED
  BY <1>7, <1>8

\* The three commands of update_mgmt_vrf.
LEMMA StopChronyKeeps ==
  ASSUME HostIInv, Host!StopChrony
  PROVE  KeptInv' /\ SuitInv'
<1> DEFINE stopped == [applied EXCEPT !["ntp"] = Unread]
<1>1. /\ Host!On("vrf") /\ hpc = "busy"
      /\ \/ /\ applied' = stopped /\ Host!Goes("interfaces") /\ UNCHANGED <<remembered, astray>>
         \/ Host!GivesUp({stopped})
  BY DEF Host!StopChrony, Host!On
<1>2. \A j \in Host!Items \ Host!VrfServices : stopped[j] = applied[j]
  BY DEF Host!VrfServices, HostIInv, Host!TypeOK
<1> HIDE DEF stopped
<1>3. CASE Host!GivesUp({stopped})
  BY <1>1, <1>2, <1>3, GivesUpKeeps
<1>4. CASE applied' = stopped /\ Host!Goes("interfaces") /\ UNCHANGED <<remembered, astray>>
  <2>1. /\ hpc' = "interfaces" /\ tasks' = tasks /\ setting' = setting /\ news' = news
        /\ Awake /\ Awake' /\ Midway'
    BY <1>1, <1>4 DEF Host!Goes, Awake, Turn, Midway
  <2>2. QED
    BY <1>1, <1>2, <1>4, <2>1, OthersKeep
<1>5. QED
  BY <1>1, <1>3, <1>4

LEMMA RestartInterfacesKeeps ==
  ASSUME HostIInv, Host!RestartInterfaces
  PROVE  KeptInv' /\ SuitInv'
<1> DEFINE outcomes == {Host!Rows(part) : part \in SUBSET Host!Service("vrf")}
<1>1. /\ hpc = "interfaces"
      /\ \/ /\ applied' = Host!Rows(Host!Service("vrf")) /\ Host!Goes("chrony")
            /\ UNCHANGED <<remembered, astray>>
         \/ Host!GivesUp(outcomes)
  BY DEF Host!RestartInterfaces
<1>2. Host!Service("vrf") = {"iface", "vrf"} /\ {"iface", "vrf"} \subseteq Host!VrfServices
  BY Services DEF Host!Items, Host!Metadata, Host!VrfServices
<1>3. \A o \in outcomes : \A j \in Host!Items \ Host!VrfServices : o[j] = applied[j]
  BY <1>2, RowsType DEF HostIInv
<1>4. Midway /\ Awake
  BY <1>1 DEF Midway, Awake, Turn
<1> HIDE DEF outcomes
<1>5. CASE Host!GivesUp(outcomes)
  BY <1>3, <1>4, <1>5, GivesUpKeeps
<1>6. CASE /\ applied' = Host!Rows(Host!Service("vrf")) /\ Host!Goes("chrony")
           /\ UNCHANGED <<remembered, astray>>
  <2>1. /\ hpc' = "chrony" /\ tasks' = tasks /\ setting' = setting /\ news' = news /\ Awake' /\ Midway'
    BY <1>6 DEF Host!Goes, Awake, Turn, Midway
  <2>2. /\ \A j \in {"iface", "vrf"} : applied'[j] = setting[j]
        /\ \A j \in Host!Items \ Host!VrfServices : applied'[j] = applied[j]
    BY <1>2, <1>6, RowsType DEF HostIInv, Host!Items, Host!Metadata
  <2>3. QED
    BY <1>4, <1>6, <2>1, <2>2, OthersKeep
<1>7. QED
  BY <1>1, <1>5, <1>6

LEMMA StartChronyKeeps ==
  ASSUME HostIInv, Host!StartChrony
  PROVE  KeptInv' /\ SuitInv'
<1> DEFINE fresh == Host!Rows({"ntp"})
<1>1. /\ hpc = "chrony"
      /\ \/ /\ Host!Remember("vrf") /\ applied' = fresh /\ Host!Goes("busy")
            /\ astray' = (astray \ Host!VrfServices)
                         \cup {j \in Host!VrfServices : applied'[j] # remembered'[j]}
         \/ Host!GivesUp({fresh})
  BY DEF Host!StartChrony
<1>2. Host!VrfServices = {"iface", "vrf", "ntp"} /\ Host!VrfServices \subseteq Host!Items
  BY DEF Host!VrfServices, Host!Items, Host!Metadata
<1>3. fresh["ntp"] = setting["ntp"] /\ \A j \in Host!Items \ {"ntp"} : fresh[j] = applied[j]
  BY <1>2, RowsType DEF HostIInv
<1>4. Midway /\ Awake
  BY <1>1 DEF Midway, Awake, Turn
<1> HIDE DEF fresh
<1>5. CASE Host!GivesUp({fresh})
  <2>1. \A o \in {fresh} : \A j \in Host!Items \ Host!VrfServices : o[j] = applied[j]
    BY <1>2, <1>3
  <2>2. QED
    BY <1>4, <1>5, <2>1, GivesUpKeeps
<1>6. CASE /\ Host!Remember("vrf") /\ applied' = fresh /\ Host!Goes("busy")
           /\ astray' = (astray \ Host!VrfServices)
                        \cup {j \in Host!VrfServices : applied'[j] # remembered'[j]}
  <2>1. /\ hpc' = "busy" /\ tasks' = Tail(tasks) /\ setting' = setting /\ news' = news /\ Awake'
    BY <1>6 DEF Host!Goes, Awake, Turn
  <2>2. \A j \in Host!Items \ Host!VrfServices :
           /\ applied'[j] = applied[j] /\ remembered'[j] = remembered[j]
           /\ j \in astray' <=> j \in astray
    BY <1>2, <1>3, <1>6 DEF Host!Remember, HostIInv, Host!TypeOK
  <2>3. ASSUME NEW j \in Host!VrfServices \ astray' PROVE Keeps(j)' /\ (In(j, news) \/ Suits(j)')
    <3>1. Keeps(j)'
      BY <1>6, <2>3 DEF Keeps
    <3>2. In(j, news) \/ applied'[j] = setting[j]
      BY <1>1, <1>2, <1>3, <1>6 DEF HostIInv, SuitInv
    <3>3. QED
      BY <2>1, <3>1, <3>2 DEF Suits
  <2>4. QED
    BY <1>4, <2>1, <2>2, <2>3, OthersKeep
<1>7. QED
  BY <1>1, <1>5, <1>6

\* Every handler keeps what hostcfgd knows of the services right.
LEMMA HandleKeeps ==
  ASSUME HostIInv, Host!Handle
  PROVE  KeptInv' /\ SuitInv'
<1>1. ASSUME NEW i \in Host!Items, Host!Skip(i) PROVE KeptInv' /\ SuitInv'
  BY <1>1, SkipKeeps
<1>2. ASSUME NEW i \in Host!Items, Host!RestartKept(i) PROVE KeptInv' /\ SuitInv'
  <2>1. /\ Host!On(i) /\ Host!Goes("busy")
        /\ \/ Host!Remember(i) /\ Host!Restarted(Host!Service(i))
           \/ UNCHANGED remembered /\ Host!Fails(Host!Service(i))
    BY <1>2 DEF Host!RestartKept
  <2>2. CASE Host!Remember(i) /\ Host!Restarted(Host!Service(i))
    BY <2>1, <2>2, Services, RestartedKeeps
  <2>3. CASE UNCHANGED remembered /\ Host!Fails(Host!Service(i))
    BY <2>1, <2>3, Services, FailsKeeps
  <2>4. QED
    BY <2>1, <2>2, <2>3
<1>3. ASSUME NEW i \in Host!Items, Host!RestartBlindly(i) PROVE KeptInv' /\ SuitInv'
  <2>1. /\ Host!On(i) /\ Host!Goes("busy")
        /\ Host!Remember(i) \/ (i \in {"osversion", "dns"} /\ UNCHANGED remembered)
        /\ Host!Restarted(Host!Service(i)) \/ Host!Fails(Host!Service(i))
    BY <1>3 DEF Host!RestartBlindly
  <2>2. CASE Host!Restarted(Host!Service(i))
    BY <2>1, <2>2, Services, RestartedKeeps
  <2>3. CASE Host!Fails(Host!Service(i))
    BY <2>1, <2>3, Services, FailsKeeps
  <2>4. QED
    BY <2>1, <2>2, <2>3
<1>4. QED
  BY <1>1, <1>2, <1>3, TimezoneKeeps, StopChronyKeeps, RestartInterfacesKeeps, StartChronyKeeps
  DEF Host!Handle

\* A handler goes on with its item, or is done with it; it reads no row.
LEMMA HandlePhase ==
  ASSUME HostIInv, Host!Handle
  PROVE  PhaseInv' /\ ReadInv'
<1> DEFINE Moved ==
              /\ setting' = setting /\ news' = news /\ told' = told /\ Turn /\ tasks # <<>>
              /\ \/ hpc' = "busy" /\ tasks' = Tail(tasks)
                 \/ hpc' \in {"interfaces", "chrony"} /\ tasks' = tasks /\ Head(tasks) = "vrf"
<1>1. Moved
  <2>1. ASSUME NEW i \in Host!Items, Host!On(i), Host!Goes("busy") PROVE Moved
    BY <2>1 DEF Host!On, Host!Goes, Turn
  <2>2. ASSUME NEW i \in Host!Items, Host!Skip(i) \/ Host!RestartKept(i) \/ Host!RestartBlindly(i)
        PROVE  Moved
    BY <2>1, <2>2 DEF Host!Skip, Host!RestartKept, Host!RestartBlindly
  <2>3. CASE Host!SetTimezone
    BY <2>1, <2>3 DEF Host!SetTimezone, Host!Items, Host!Metadata
  <2>4. CASE Host!StopChrony
    BY <2>4 DEF Host!StopChrony, Host!GivesUp, Host!On, Host!Goes, Turn
  <2>5. ASSUME Midway, \/ Host!Goes("chrony") \/ Host!Goes("busy") PROVE Moved
    BY <2>5 DEF HostIInv, PhaseInv, Midway, Turn, Host!Goes
  <2>6. CASE Host!RestartInterfaces
    BY <2>5, <2>6 DEF Host!RestartInterfaces, Host!GivesUp, Midway
  <2>7. CASE Host!StartChrony
    BY <2>5, <2>7 DEF Host!StartChrony, Host!GivesUp, Midway
  <2>8. QED
    BY <2>2, <2>3, <2>4, <2>6, <2>7 DEF Host!Handle
<1>2. \A i \in Host!Items : In(i, tasks') => In(i, tasks)
  BY <1>1, TailIn DEF HostIInv, Host!TypeOK
<1>3. \A i \in Host!Items : In(i, tasks) => In(i, news) \/ told[i] = setting[i]
  BY <1>1 DEF HostIInv, ReadInv
<1>4. PhaseInv'
  BY <1>1 DEF PhaseInv, Midway
<1>5. ReadInv'
  BY <1>1, <1>2, <1>3 DEF ReadInv
<1>6. QED
  BY <1>4, <1>5

\* A change of CONFIG_DB is notified.
LEMMA SetStep ==
  ASSUME HostIInv, NEW i \in Host!Items, Host!Set(i)
  PROVE  PhaseInv' /\ ReadInv' /\ KeptInv' /\ SuitInv'
<1>1. /\ UNCHANGED <<hpc, init_data, remembered, tasks, told, applied, astray>>
      /\ \A j \in Host!Items \ {i} : setting'[j] = setting[j]
      /\ news' = IF hpc = "down" THEN news ELSE Append(news, i)
  BY DEF Host!Set, Host!memory, HostIInv, Host!TypeOK
<1>2. hpc # "down" => \A j \in Host!Items : In(j, news') <=> In(j, news) \/ j = i
  BY <1>1, AppendIn DEF HostIInv, Host!TypeOK
<1>3. PhaseInv'
  BY <1>1 DEF HostIInv, PhaseInv, Midway
<1>4. ReadInv'
  BY <1>1, <1>2 DEF HostIInv, ReadInv, Turn
<1>5. KeptInv'
  BY <1>1 DEF HostIInv, KeptInv, Awake, Turn, Busy, Midway
<1>6. \A j \in Host!Items \ {i} : Suits(j) => Suits(j)'
  BY <1>1 DEF Suits
<1>7. hpc' = "chrony" => \A j \in {"iface", "vrf"} : In(j, news') \/ applied'[j] = setting'[j]
  BY <1>1, <1>2 DEF HostIInv, SuitInv, Host!Items, Host!Metadata
<1>8. ASSUME Awake', NEW j \in Host!Items, ~Busy(j)', ~In(j, news'), ~In(j, tasks') PROVE Suits(j)'
  BY <1>1, <1>2, <1>6, <1>8 DEF HostIInv, SuitInv, Awake, Turn, Busy, Midway
<1>9. SuitInv'
  BY <1>7, <1>8 DEF SuitInv
<1>10. QED
  BY <1>3, <1>4, <1>5, <1>9

\* At load a service counts as known if it has the row that was read.
LEMMA LoadStep ==
  ASSUME HostIInv, Host!Load
  PROVE  PhaseInv' /\ ReadInv' /\ KeptInv' /\ SuitInv'
<1>1. /\ hpc = "waiting" /\ hpc' = "busy" /\ told' = init_data
      /\ astray' = {i \in Host!Items : applied[i] # told'[i]}
      /\ UNCHANGED <<setting, news, applied>>
  BY DEF Host!Load
<1>2. \A j \in Host!Items : remembered'[j] = IF j \in {"banner", "vrf"} THEN None ELSE init_data[j]
  BY DEF Host!Load, HostIInv, Host!TypeOK
<1>3. \A j \in Host!Items : In(j, news) \/ init_data[j] = setting[j]
  BY <1>1 DEF HostIInv, ReadInv
<1>4. PhaseInv' /\ ReadInv'
  BY <1>1, <1>3 DEF PhaseInv, ReadInv, Midway
<1>5. KeptInv'
  BY <1>1, <1>2 DEF KeptInv, Kept
<1>6. SuitInv'
  BY <1>1, <1>3 DEF SuitInv, Suits
<1>7. QED
  BY <1>4, <1>5, <1>6

\* A notification is taken, with the rows of its handler.
LEMMA NotifiedStep ==
  ASSUME HostIInv, Host!Notified
  PROVE  PhaseInv' /\ ReadInv' /\ KeptInv' /\ SuitInv'
<1>1. /\ hpc = "idle" /\ hpc' = "busy" /\ news # <<>> /\ news' = Tail(news) /\ told' = setting
      /\ tasks = <<>>
      /\ UNCHANGED <<setting, remembered, applied, astray>>
  BY DEF Host!Notified, HostIInv, PhaseInv
<1>2. \A j \in Host!Items : In(j, news) <=> j = Head(news) \/ In(j, news')
  BY <1>1, TailIn DEF HostIInv, Host!TypeOK
<1>3. In(Head(news), tasks')
  <2>1. CASE Head(news) \in Host!Metadata
    <3> DEFINE fields == <<"hostname", "timezone", "osversion">>
    <3>1. tasks' = fields
      BY <2>1 DEF Host!Notified
    <3>2. /\ Len(fields) = 3
          /\ fields[1] = "hostname" /\ fields[2] = "timezone" /\ fields[3] = "osversion"
      OBVIOUS
    <3> HIDE DEF fields
    <3>3. QED
      BY <2>1, <3>1, <3>2 DEF In, Host!Metadata
  <2>2. CASE Head(news) \notin Host!Metadata
    BY <2>2 DEF Host!Notified, In
  <2>3. QED
    BY <2>1, <2>2
<1>4. PhaseInv' /\ ReadInv'
  BY <1>1 DEF PhaseInv, ReadInv, Midway
<1>5. KeptInv'
  BY <1>1 DEF HostIInv, KeptInv, Awake, Busy, Midway
<1>6. ASSUME NEW j \in Host!Items, ~In(j, news'), ~In(j, tasks') PROVE Suits(j)'
  <2>1. ~In(j, news) /\ ~In(j, tasks)
    BY <1>1, <1>2, <1>3, <1>6, InNone
  <2>2. Suits(j)
    BY <1>1, <2>1 DEF HostIInv, SuitInv, Awake, Busy, Midway
  <2>3. QED
    BY <1>1, <2>2 DEF Suits
<1>7. SuitInv'
  BY <1>1, <1>6 DEF SuitInv
<1>8. QED
  BY <1>4, <1>5, <1>7

\* Every step keeps the invariant,
LEMMA HostNextStep ==
  ASSUME HostIInv, Host!Next
  PROVE  HostIInv'
<1>1. Host!TypeOK'
  BY HostTypeStep DEF HostIInv
<1>2. ASSUME NEW i \in Host!Items, Host!Boots(i) PROVE PhaseInv' /\ ReadInv' /\ KeptInv' /\ SuitInv'
  <2>1. /\ hpc \in {"down", "waiting"} /\ UNCHANGED <<hpc, setting, news, init_data, tasks, told>>
    BY <1>2 DEF Host!Boots, Host!memory
  <2>2. QED
    BY <2>1 DEF HostIInv, PhaseInv, ReadInv, KeptInv, SuitInv, Awake, Turn, Midway
<1>3. ASSUME Host!Subscribe PROVE PhaseInv' /\ ReadInv' /\ KeptInv' /\ SuitInv'
  <2>1. /\ hpc = "down" /\ hpc' = "waiting" /\ init_data' = setting
        /\ UNCHANGED <<setting, news, tasks, told>>
    BY <1>3 DEF Host!Subscribe
  <2>2. QED
    BY <2>1 DEF HostIInv, PhaseInv, ReadInv, KeptInv, SuitInv, Awake, Turn, Midway
<1>4. ASSUME Host!Handled PROVE PhaseInv' /\ ReadInv' /\ KeptInv' /\ SuitInv'
  <2>1. /\ hpc = "busy" /\ hpc' = "idle" /\ tasks = <<>>
        /\ UNCHANGED <<setting, news, tasks, remembered, applied, astray>>
    BY <1>4 DEF Host!Handled
  <2>2. PhaseInv' /\ ReadInv'
    BY <2>1 DEF PhaseInv, ReadInv, Turn, Midway
  <2>3. KeptInv'
    BY <2>1 DEF HostIInv, KeptInv, Awake, Turn, Busy, Midway
  <2>4. \A j \in Host!Items : Suits(j) => Suits(j)'
    BY <2>1 DEF Suits
  <2>5. SuitInv'
    BY <2>1, <2>4 DEF HostIInv, SuitInv, Awake, Turn, Busy, Midway
  <2>6. QED
    BY <2>2, <2>3, <2>5
<1>5. ASSUME Host!Ends PROVE PhaseInv' /\ ReadInv' /\ KeptInv' /\ SuitInv'
  <2>1. hpc' = "down" /\ news' = <<>> /\ tasks' = <<>>
    BY <1>5 DEF Host!Ends
  <2>2. QED
    BY <2>1 DEF PhaseInv, ReadInv, KeptInv, SuitInv, Awake, Turn, Midway
<1>6. QED
  BY <1>1, <1>2, <1>3, <1>4, <1>5, SetStep, LoadStep, NotifiedStep, HandleKeeps, HandlePhase
  DEF Host!Next, HostIInv

\* which holds at the start
LEMMA HostInitially ==
  ASSUME Host!Init
  PROVE  HostIInv
<1>1. Host!TypeOK
  BY DEF Host!Init, Host!TypeOK, Host!Nothing
<1>2. PhaseInv /\ ReadInv /\ KeptInv /\ SuitInv
  BY DEF Host!Init, PhaseInv, ReadInv, KeptInv, SuitInv, Awake, Turn, Midway
<1>3. QED
  BY <1>1, <1>2 DEF HostIInv

\* and when nothing happens.
LEMMA HostStutters ==
  ASSUME HostIInv, UNCHANGED <<setting, news, hpc, init_data, remembered, tasks, told, applied, astray,
                               settings, configFaults>>
  PROVE  HostIInv'
BY DEF HostIInv, Host!TypeOK, PhaseInv, ReadInv, KeptInv, SuitInv, Suits, Awake, Turn, Busy, Midway, In

\* The inductive invariant holds.
THEOREM HostInvariant == Host!Spec => []HostIInv
<1>1. HostIInv /\ [Host!Next]_Host!hostVars => HostIInv'
  BY HostNextStep, HostStutters DEF Host!hostVars, Host!memory
<1>2. QED
  BY <1>1, HostInitially, PTL DEF Host!Spec

\* Between two notifications the services of hostcfgd are made of their rows, or hostcfgd is known
\* to differ from them: however changes fall between its readings and theirs, commands fail and the
\* daemon ends.
THEOREM ServicesHold == Host!Spec => []ServicesFollowRows
<1>1. ASSUME HostIInv PROVE ServicesFollowRows
  <2>1. hpc = "idle" /\ news = <<>> =>
          \A i \in Host!Items : Awake /\ ~Busy(i) /\ ~In(i, news) /\ ~In(i, tasks)
    BY <1>1, InNone DEF HostIInv, PhaseInv, Awake, Busy, Midway
  <2>2. hpc = "idle" /\ news = <<>> => \A i \in Host!Items : Suits(i)
    BY <1>1, <2>1 DEF HostIInv, SuitInv
  <2>3. QED
    BY <2>2 DEF ServicesFollowRows, Host!ServicesFollowRows, Suits
<1>2. QED
  BY <1>1, HostInvariant, PTL

\* Every variable of both daemons has its type.
THEOREM ConfigTypeCorrect == ConfigSpec => []ConfigTypeOK
<1> DEFINE IInv == FeaturedIInv /\ HostIInv /\ subject \in {{"featured"}} \cup Groups
<1>1. ConfigInit => IInv
  BY FeaturedInitially, HostInitially DEF ConfigInit
<1>2. IInv /\ [ConfigNext]_configVars => IInv'
  <2>1. SUFFICES ASSUME IInv, [ConfigNext]_configVars PROVE IInv'
    OBVIOUS
  <2>2. CASE UNCHANGED configVars
    BY <2>1, <2>2, FeaturedStutters, HostStutters DEF configVars, hostVars, Groups
  <2>3. CASE UNCHANGED subject /\ FeaturedStep
    BY <2>1, <2>3, FeaturedStepOk, HostStutters DEF FeaturedStep, hostVars, Groups
  <2>4. CASE UNCHANGED subject /\ HostStep
    BY <2>1, <2>4, FeaturedStutters, HostNextStep DEF HostStep, Groups
  <2>5. QED
    BY <2>1, <2>2, <2>3, <2>4 DEF ConfigNext
<1>3. IInv => ConfigTypeOK
  BY DEF FeaturedIInv, HostIInv, ConfigTypeOK
<1>4. QED
  BY <1>1, <1>2, <1>3, PTL DEF ConfigSpec
=============================================================================
