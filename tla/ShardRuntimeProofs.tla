-------------------------- MODULE ShardRuntimeProofs --------------------------
(***************************************************************************)
(* The safety of ShardRuntime, for every bound: each variable keeps its    *)
(* type, and one vb-runtime runs at a time, and one more for each add that *)
(* came in during a start attempt, while there was no client.              *)
(*                                                                         *)
(* A child that has died and whose end is not dealt with is a debt: a      *)
(* reader or the starter will schedule a restart for it.  Restarts are     *)
(* paid for by faults and by adds (Paid), which bounds the clients.  A     *)
(* running child, a debt, a scheduled restart and a thread on its way to   *)
(* _start_lock turn into one another; there is one of them, and one more   *)
(* for each late add.  Where there is none, an add makes the one (Few).    *)
(***************************************************************************)
EXTENDS ShardRuntime, SequenceTheorems, FiniteSetTheorems, WellFoundedInduction, TLAPS

---------------------------------------------------------------------------
(* Sequences and numbers.                                                  *)

\* What is in a sequence, as it grows and shrinks.
LEMMA InSequence ==
    ASSUME NEW S, NEW s \in Seq(S)
    PROVE  /\ Len(s) \in Nat /\ DOMAIN s = 1..Len(s)
           /\ ToSet(s) = {s[i] : i \in 1..Len(s)} /\ ToSet(s) \subseteq S
BY LenProperties, ElementOfSeq DEF ToSet

LEMMA InAppended ==
    ASSUME NEW S, NEW s \in Seq(S), NEW e \in S
    PROVE  /\ Append(s, e) \in Seq(S) /\ Len(Append(s, e)) = Len(s) + 1
           /\ Append(s, e)[Len(s) + 1] = e /\ \A i \in 1..Len(s) : Append(s, e)[i] = s[i]
           /\ ToSet(Append(s, e)) = ToSet(s) \cup {e}
<1> DEFINE t == Append(s, e)
           n == Len(s)
<1>1. /\ t \in Seq(S) /\ Len(t) = n + 1 /\ t[n + 1] = e /\ \A i \in 1..n : t[i] = s[i]
  BY AppendProperties
<1>2. n \in Nat /\ ToSet(s) = {s[i] : i \in 1..n}
  BY InSequence
<1> HIDE DEF t
<1>3. ToSet(t) = {t[i] : i \in 1..(n + 1)}
  BY <1>1, InSequence
<1>4. ToSet(t) = ToSet(s) \cup {e}
  BY <1>1, <1>2, <1>3
<1> QED BY <1>1, <1>4 DEF t

LEMMA InTail ==
    ASSUME NEW S, NEW s \in Seq(S), s # <<>>
    PROVE  /\ Tail(s) \in Seq(S) /\ Len(s) \in Nat \ {0} /\ Len(Tail(s)) = Len(s) - 1
           /\ \A i \in 1..(Len(s) - 1) : Tail(s)[i] = s[i + 1]
           /\ Head(s) = s[1] /\ Head(s) \in S
           /\ ToSet(s) = {Head(s)} \cup ToSet(Tail(s))
<1> DEFINE t == Tail(s)
           n == Len(s)
<1>1. n \in Nat \ {0}
  BY EmptySeq, LenProperties
<1>2. /\ t \in Seq(S) /\ Len(t) = n - 1 /\ \A i \in 1..(n - 1) : t[i] = s[i + 1]
      /\ Head(s) = s[1] /\ Head(s) \in S
  BY <1>1, HeadTailProperties, ElementOfSeq
<1> HIDE DEF t
<1>3. ToSet(s) = {s[i] : i \in 1..n} /\ ToSet(t) = {t[i] : i \in 1..(n - 1)}
  BY <1>2, InSequence
<1>4. \A i \in 1..n : i = 1 \/ (i - 1 \in 1..(n - 1) /\ t[i - 1] = s[i])
  BY <1>1, <1>2
<1>5. \A i \in 1..(n - 1) : i + 1 \in 1..n
  BY <1>1
<1>6. ToSet(s) \subseteq {Head(s)} \cup ToSet(t)
  BY <1>2, <1>3, <1>4
<1>7. {Head(s)} \cup ToSet(t) \subseteq ToSet(s)
  BY <1>1, <1>2, <1>3, <1>5
<1> QED BY <1>1, <1>2, <1>6, <1>7 DEF t

\* A set of numbers has a least one.
LEMMA LeastOf ==
    ASSUME NEW T \in SUBSET Nat, T # {}
    PROVE  \E x \in T : \A y \in T : x <= y
<1> DEFINE R == OpToRel(<, Nat)
<1>1. IsWellFoundedOn(R, Nat)
  BY NatLessThanWellFounded, Zenon
<1>2. \A x, y \in Nat : x < y => <<x, y>> \in R
  BY DEF OpToRel
<1> HIDE DEF R
<1>3. PICK x \in T : \A y \in T : ~ (<<y, x>> \in R)
  BY <1>1, WFMin
<1>4. ASSUME NEW y \in T PROVE x <= y
  <2>1. x \in Nat /\ y \in Nat /\ ~(y < x)
    BY <1>2, <1>3
  <2> QED BY <2>1
<1> QED BY <1>4

---------------------------------------------------------------------------

\* A child whose end will be counted or schedules a restart.
Owes(c) ==
    /\ ~stopping /\ child[c] = "dead"
    /\ \/ heard[c] /\ reader[c] = "reading"
       \/ ~heard[c] /\ starter.cl = c /\ starter.pc \in {"hello", "reap"}
Debts == {c \in Clients : Owes(c)}

Ended == {"kill", "stop", "join", "stopped"}
Marks ==
    /\ \A c \in Clients : c > spawned => child[c] = "none"
    /\ starter.pc # "free" => starter.cl \in Clients /\ starter.cl <= spawned
    /\ starter.pc = "spawn" => child[starter.cl] = "none"
    /\ starter.pc = "hello" => child[starter.cl] # "none"
    /\ starter.pc = "reap" => child[starter.cl] = "dead" /\ ~heard[starter.cl]
    /\ starter.pc = "refused" => child[starter.cl] = "dead"
    /\ starter.pc = "asked" => starter.todo # {}
    /\ late \in Nat /\ late <= added
    /\ op.pc \in {"add", "adding", "remove", "removing"} => op.idx \in Indexes /\ op.cl \in Clients
    /\ stopping <=> op.pc \in Ended

\* Every attempt but the first is paid for by a fault or an add.
Paid ==
    /\ spawned + waiting + (IF scheduled THEN 1 ELSE 0) + Cardinality(Debts) <= 1 + faults + added
    /\ failures + Cardinality(Debts) <= faults

Attempt == {"spawn", "hello", "reap", "refused", "install"}
Busy(c) == Runs(c) \/ Owes(c) \/ (starter.pc = "spawn" /\ starter.cl = c)
Busies  == {c \in Clients : Busy(c)}
Planned == waiting + (IF scheduled THEN 1 ELSE 0)

\* No runtime is there, none is on its way, and an add would schedule one.
Unattended ==
    /\ ~stopping /\ client = None /\ Planned = 0
    /\ ~(starter.pc \in Attempt /\ Busy(starter.cl))

Few == /\ Cardinality(Busies) + Planned <= 1 + late
       /\ Unattended => Cardinality(Busies) <= late

IInv == TypeOK /\ Marks /\ Paid
-----------------------------------------------------------------------------
(* The types                                                               *)

StarterPcs == {"free", "spawn", "hello", "reap", "refused", "install", "announce", "replay",
               "asked", "discard"}
OpPcs == {"start", "idle", "add", "adding", "remove", "removing", "kill", "stop", "join",
          "stopped"}
StarterT == [pc : StarterPcs, cl : Clients \cup {None}, todo : SUBSET Indexes, got : Answers]
OpT == [pc : OpPcs, idx : Indexes \cup {None}, cl : Clients \cup {None},
        st : Clients \cup {None}, got : Answers]
Line == {"starter", "op"} \X {"add", "remove"} \X Indexes

LEMMA Bounds ==
    /\ MaxFailures \in Nat /\ MaxAdds \in Nat /\ MaxRemoves \in Nat /\ MaxFaults \in Nat
    /\ Clients \subseteq Nat \ {0} /\ Indexes \subseteq Nat
    /\ None \notin Nat /\ None \notin Clients /\ None \notin Indexes
    /\ IsFiniteSet(Clients) /\ Cardinality(Clients) = 1 + MaxFaults + MaxAdds
<1>1. /\ MaxFailures \in Nat /\ MaxAdds \in Nat /\ MaxRemoves \in Nat /\ MaxFaults \in Nat
      /\ None \notin Nat
  BY ShardAssumption DEF ShardAssumption
<1>2. Clients \subseteq Nat \ {0} /\ Indexes \subseteq Nat
  BY <1>1 DEF Clients, Indexes
<1>3. IsFiniteSet(Clients) /\ Cardinality(Clients) = 1 + MaxFaults + MaxAdds
  <2> DEFINE z == 1 + MaxFaults + MaxAdds
  <2>1. 1 \in Int /\ z \in Int /\ z >= 1
    BY <1>1
  <2>2. IsFiniteSet(1..z) /\ Cardinality(1..z) = z - 1 + 1
    BY <2>1, FS_Interval
  <2> QED BY <2>1, <2>2 DEF Clients
<1> QED BY <1>1, <1>2, <1>3

\* The types, by the part of the shard they belong to.
LEMMA Typed ==
    ASSUME TypeOK
    PROVE  /\ child \in [Clients -> {"none", "booting", "up", "dead"}]
           /\ heard \in [Clients -> BOOLEAN]
           /\ reader \in [Clients -> {"none", "reading", "ended"}]
           /\ inbox \in [Clients -> Seq(Line)] /\ table \in [Clients -> SUBSET Indexes]
           /\ starter \in StarterT /\ op \in OpT
BY DEF TypeOK, StarterT, OpT, StarterPcs, OpPcs, Line

LEMMA StarterFields ==
    ASSUME NEW s \in StarterT
    PROVE  /\ \A pc \in StarterPcs :
                 /\ [s EXCEPT !.pc = pc] \in StarterT /\ [s EXCEPT !.pc = pc].pc = pc
                 /\ [s EXCEPT !.pc = pc].cl = s.cl /\ [s EXCEPT !.pc = pc].todo = s.todo
           /\ \A got \in Answers :
                 /\ [s EXCEPT !.got = got] \in StarterT /\ [s EXCEPT !.got = got].pc = s.pc
                 /\ [s EXCEPT !.got = got].cl = s.cl /\ [s EXCEPT !.got = got].todo = s.todo
           /\ \A todo \in SUBSET Indexes :
                 /\ [s EXCEPT !.todo = todo] \in StarterT /\ [s EXCEPT !.todo = todo].pc = s.pc
                 /\ [s EXCEPT !.todo = todo].cl = s.cl /\ [s EXCEPT !.todo = todo].todo = todo
           /\ \A c \in Clients :
                 /\ [s EXCEPT !.cl = c] \in StarterT /\ [s EXCEPT !.cl = c].pc = s.pc
                 /\ [s EXCEPT !.cl = c].cl = c
BY DEF StarterT

LEMMA OpFields ==
    ASSUME NEW o \in OpT
    PROVE  /\ \A pc \in OpPcs :
                 /\ [o EXCEPT !.pc = pc] \in OpT /\ [o EXCEPT !.pc = pc].pc = pc
                 /\ [o EXCEPT !.pc = pc].cl = o.cl /\ [o EXCEPT !.pc = pc].idx = o.idx
           /\ \A got \in Answers :
                 /\ [o EXCEPT !.got = got] \in OpT /\ [o EXCEPT !.got = got].pc = o.pc
                 /\ [o EXCEPT !.got = got].cl = o.cl /\ [o EXCEPT !.got = got].idx = o.idx
           /\ \A i \in Indexes :
                 /\ [o EXCEPT !.idx = i] \in OpT /\ [o EXCEPT !.idx = i].pc = o.pc
                 /\ [o EXCEPT !.idx = i].cl = o.cl /\ [o EXCEPT !.idx = i].idx = i
           /\ \A c \in Clients \cup {None} :
                 /\ [o EXCEPT !.cl = c] \in OpT /\ [o EXCEPT !.cl = c].pc = o.pc
                 /\ [o EXCEPT !.cl = c].cl = c /\ [o EXCEPT !.cl = c].idx = o.idx
           /\ \A c \in Clients \cup {None} :
                 /\ [o EXCEPT !.st = c] \in OpT /\ [o EXCEPT !.st = c].pc = o.pc
                 /\ [o EXCEPT !.st = c].cl = o.cl /\ [o EXCEPT !.st = c].idx = o.idx
BY DEF OpT

LEMMA FreeIs == Free \in StarterT /\ Free.pc = "free"
BY DEF Free, StarterT, StarterPcs, Answers

LEMMA RestIs == Rest \in OpT /\ Rest.pc = "idle"
BY DEF Rest, OpT, OpPcs, Answers

\* The least stream of a replay is one of them.
LEMMA LeastIs ==
    ASSUME NEW S \in SUBSET Indexes, S # {}
    PROVE  Min(S) \in S
<1>1. S \subseteq Nat
  BY Bounds
<1>2. \E x \in S : \A y \in S : x <= y
  BY <1>1, LeastOf
<1> QED BY <1>2 DEF Min

\* The lock is taken for an attempt that is paid for.
LEMMA DebtsCount == IsFiniteSet(Debts) /\ Cardinality(Debts) \in Nat
<1>1. IsFiniteSet(Debts)
  <2>1. Debts \subseteq Clients /\ IsFiniteSet(Clients)
    BY Bounds DEF Debts
  <2> QED BY <2>1, FS_Subset
<1> QED BY <1>1, FS_CardinalityType

LEMMA Counts ==
    ASSUME TypeOK
    PROVE  /\ spawned \in Nat /\ waiting \in Nat /\ failures \in Nat
           /\ faults \in 0..MaxFaults /\ added \in 0..MaxAdds /\ removes \in 0..MaxRemoves
<1>1. spawned \in Nat
  BY Bounds DEF TypeOK
<1>2. waiting \in Nat
  BY Bounds DEF TypeOK
<1> QED BY <1>1, <1>2, Bounds DEF TypeOK

LEMMA Room ==
    ASSUME IInv, waiting > 0
    PROVE  spawned + 1 \in Clients
<1>1. spawned + waiting <= 1 + faults + added
  <2>1. (IF scheduled THEN 1 ELSE 0) \in Nat
    OBVIOUS
  <2> QED BY <2>1, Counts, DebtsCount, Bounds DEF IInv, Paid
<1> QED BY <1>1, Counts, Bounds DEF IInv, Clients

\* What the starter turns into.
LEMMA StarterTyped ==
    ASSUME IInv, [Next]_vars
    PROVE  /\ starter' \in StarterT
           /\ starter'.pc # "free" => starter'.cl \in Clients
           /\ starter'.pc = "asked" => starter'.todo # {}
<1>1. /\ starter \in StarterT /\ active \subseteq Indexes
      /\ starter.pc # "free" => starter.cl \in Clients
      /\ starter.pc = "asked" => starter.todo # {}
  BY Typed DEF IInv, Marks, TypeOK
<1>2. CASE UNCHANGED starter
  BY <1>1, <1>2
<1>3. CASE starter' = Free
  BY <1>3, FreeIs
<1>4. ASSUME NEW pc \in StarterPcs, starter' = [starter EXCEPT !.pc = pc], starter.pc # "free",
             pc = "asked" => starter.todo # {}
      PROVE  /\ starter' \in StarterT
             /\ starter'.pc # "free" => starter'.cl \in Clients
             /\ starter'.pc = "asked" => starter'.todo # {}
  BY <1>1, <1>4, StarterFields
<1>5. ASSUME NEW got \in Answers, starter' = [starter EXCEPT !.got = got]
      PROVE  /\ starter' \in StarterT
             /\ starter'.pc # "free" => starter'.cl \in Clients
             /\ starter'.pc = "asked" => starter'.todo # {}
  BY <1>1, <1>5, StarterFields
<1>6. CASE TakeLock
  <2>1. \/ UNCHANGED starter
        \/ ~stopping /\ starter' = [Free EXCEPT !.pc = "spawn", !.cl = spawned + 1]
    BY <1>6 DEF TakeLock
  <2>2. ~stopping => spawned + 1 \in Clients
    BY <1>6, Room DEF TakeLock
  <2> DEFINE s == [Free EXCEPT !.pc = "spawn"]
  <2>3. s \in StarterT /\ s.pc = "spawn"
    BY FreeIs, StarterFields DEF StarterPcs
  <2>4. [Free EXCEPT !.pc = "spawn", !.cl = spawned + 1] = [s EXCEPT !.cl = spawned + 1]
    BY FreeIs DEF StarterT
  <2> HIDE DEF s
  <2>5. ~stopping => /\ [s EXCEPT !.cl = spawned + 1] \in StarterT
                     /\ [s EXCEPT !.cl = spawned + 1].pc = "spawn"
                     /\ [s EXCEPT !.cl = spawned + 1].cl = spawned + 1
    BY <2>2, <2>3, StarterFields
  <2> QED BY <1>2, <2>1, <2>2, <2>4, <2>5
<1>7. CASE Spawn \/ HelloArrives \/ HelloFails \/ VersionRefused
  <2>1. /\ starter.pc # "free"
        /\ \E pc \in {"hello", "install", "reap", "refused"} : starter' = [starter EXCEPT !.pc = pc]
    BY <1>7 DEF Spawn, HelloArrives, HelloFails, VersionRefused
  <2> QED BY <1>4, <2>1 DEF StarterPcs
<1>8. CASE SpawnFails \/ RefusedEnds \/ StartFailed \/ Discarded
  BY <1>3, <1>8 DEF SpawnFails, RefusedEnds, Raises, StartFailed, Discarded
<1>9. CASE Install
  <2>1. /\ starter.pc # "free"
        /\ \E pc \in {"announce", "discard"} : starter' = [starter EXCEPT !.pc = pc]
    BY <1>9 DEF Install
  <2> QED BY <1>4, <2>1 DEF StarterPcs
<1>10. CASE Announce
  <2> DEFINE s == [starter EXCEPT !.pc = "replay"]
  <2>1. starter.pc = "announce" /\ starter' = [starter EXCEPT !.pc = "replay", !.todo = active]
    BY <1>10 DEF Announce
  <2>2. s \in StarterT /\ s.pc = "replay" /\ s.cl = starter.cl
    BY <1>1, StarterFields DEF StarterPcs
  <2>3. starter' = [s EXCEPT !.todo = active]
    BY <1>1, <2>1 DEF StarterT
  <2>4. starter' \in StarterT /\ starter'.pc = "replay" /\ starter'.cl = starter.cl
    <3> HIDE DEF s
    <3> QED BY <1>1, <2>2, <2>3, StarterFields DEF StarterT
  <2> QED BY <1>1, <2>1, <2>4
<1>11. ASSUME starter.pc # "free", NextReplayed
       PROVE  /\ starter' \in StarterT
              /\ starter'.pc # "free" => starter'.cl \in Clients
              /\ starter'.pc = "asked" => starter'.todo # {}
  <2> DEFINE rest == starter.todo \ {Min(starter.todo)}
             e == [starter EXCEPT !.pc = "replay", !.todo = rest, !.got = "none"]
  <2>1. starter' = e /\ rest \in SUBSET Indexes
    BY <1>1, <1>11 DEF NextReplayed, StarterT
  <2>2. e \in StarterT /\ e.pc = "replay" /\ e.cl = starter.cl
    <3> HIDE DEF rest
    <3> QED BY <1>1, <2>1 DEF StarterT, StarterPcs, Answers
  <2> QED BY <1>1, <1>11, <2>1, <2>2
<1>12. CASE Replay
  <2>1. \/ starter' = Free
        \/ starter.pc = "replay" /\ NextReplayed
        \/ /\ starter.pc = "replay" /\ starter.todo # {}
           /\ starter' = [starter EXCEPT !.pc = "asked", !.got = "none"]
    BY <1>12 DEF Replay
  <2>2. CASE starter' = [starter EXCEPT !.pc = "asked", !.got = "none"] /\ starter.todo # {}
             /\ starter.pc = "replay"
    <3> DEFINE s == [starter EXCEPT !.pc = "asked"]
    <3>1. s \in StarterT /\ s.pc = "asked" /\ s.cl = starter.cl /\ s.todo = starter.todo
      BY <1>1, StarterFields DEF StarterPcs
    <3>2. starter' = [s EXCEPT !.got = "none"] /\ "none" \in Answers
      BY <1>1, <2>2 DEF StarterT, Answers
    <3>3. /\ starter' \in StarterT /\ starter'.pc = "asked" /\ starter'.cl = starter.cl
          /\ starter'.todo = starter.todo
      <4> HIDE DEF s
      <4> QED BY <3>1, <3>2, StarterFields
    <3> QED BY <1>1, <2>2, <3>3
  <2> QED BY <1>3, <1>11, <2>1, <2>2
<1>13. CASE Replayed
  <2>1. starter' = Free \/ (starter.pc = "asked" /\ NextReplayed)
    BY <1>13 DEF Replayed, AfterRefusal
  <2> QED BY <1>3, <1>11, <2>1
<1>14. ASSUME NEW c \in Clients, ChildAnswers(c) \/ ReaderEnds(c)
       PROVE  \/ UNCHANGED starter
              \/ \E got \in Answers : starter' = [starter EXCEPT !.got = got]
  BY <1>14 DEF ChildAnswers, ReaderEnds, Reply, Answers
<1>15. CASE BackoffOver \/ AddBegins \/ (\E i \in Indexes : RemoveBegins(i) \/ Forget(i)) \/ StopBegins
            \/ OpGoesOn
            \/ (\E c \in Clients : ChildSaysHello(c) \/ ChildDies(c)) \/ UNCHANGED vars
  <2>1. UNCHANGED starter
    BY <1>15 DEF BackoffOver, AddBegins, RemoveBegins, Forget, StopBegins, OpGoesOn, Started, Asks, AddEnds,
                 RemoveEnds, StopKillsStarting, StopEndsClient, Stopped, ChildSaysHello, ChildDies, vars
  <2> QED BY <1>2, <2>1
<1> QED BY <1>2, <1>5, <1>6, <1>7, <1>8, <1>9, <1>10, <1>12, <1>13, <1>14, <1>15 DEF Next, StarterRuns

\* What the operation thread turns into.
LEMMA OpTyped ==
    ASSUME IInv, [Next]_vars
    PROVE  /\ op' \in OpT
           /\ op'.pc \in {"add", "adding", "remove", "removing"} => op'.idx \in Indexes /\ op'.cl \in Clients
           /\ stopping' <=> op'.pc \in Ended
<1>1. /\ op \in OpT /\ client \in Clients \cup {None} /\ starting \in Clients \cup {None}
      /\ op.pc \in {"add", "adding", "remove", "removing"} => op.idx \in Indexes /\ op.cl \in Clients
      /\ stopping <=> op.pc \in Ended
  BY Typed DEF IInv, Marks, TypeOK
<1>2. CASE UNCHANGED <<op, stopping>>
  BY <1>1, <1>2
<1>3. CASE op' = Rest /\ op.pc \notin Ended /\ UNCHANGED stopping
  BY <1>1, <1>3, RestIs DEF Ended
<1>4. ASSUME NEW got \in Answers, op' = [op EXCEPT !.got = got], UNCHANGED stopping
      PROVE  /\ op' \in OpT
             /\ op'.pc \in {"add", "adding", "remove", "removing"} => op'.idx \in Indexes /\ op'.cl \in Clients
             /\ stopping' <=> op'.pc \in Ended
  BY <1>1, <1>4, OpFields
\* A request goes to the client there is.
<1>5. ASSUME NEW pc \in {"add", "remove"}, NEW i \in Indexes, client # None, op.pc = "idle",
             op' = [Rest EXCEPT !.pc = pc, !.idx = i, !.cl = client], UNCHANGED stopping
      PROVE  /\ op' \in OpT
             /\ op'.pc \in {"add", "adding", "remove", "removing"} => op'.idx \in Indexes /\ op'.cl \in Clients
             /\ stopping' <=> op'.pc \in Ended
  <2> DEFINE e == [Rest EXCEPT !.pc = pc, !.idx = i, !.cl = client]
  <2>1. e \in OpT /\ e.pc = pc /\ e.idx = i /\ e.cl = client
    BY <1>1, <1>5 DEF Rest, OpT, OpPcs, Answers
  <2> HIDE DEF e
  <2> QED BY <1>1, <1>5, <2>1 DEF Ended, e
<1>6. CASE Started \/ AddEnds \/ RemoveEnds
  <2>1. op.pc \in {"start", "adding", "removing"} /\ op' = Rest /\ UNCHANGED stopping
    BY <1>6 DEF Started, AddEnds, RemoveEnds
  <2> QED BY <1>3, <2>1 DEF Ended
<1>7. CASE Asks
  <2> DEFINE pc == IF op.pc = "add" THEN "adding" ELSE "removing"
             got == IF Runs(op.cl) THEN "none" ELSE "gone"
             o == [op EXCEPT !.pc = pc]
  <2>1. op.pc \in {"add", "remove"} /\ op' = [op EXCEPT !.pc = pc, !.got = got] /\ UNCHANGED stopping
    BY <1>7 DEF Asks
  <2>2. pc \in {"adding", "removing"} /\ pc \in OpPcs /\ got \in Answers
    BY DEF OpPcs, Answers
  <2> HIDE DEF pc, got
  <2>3. op' = [o EXCEPT !.got = got]
    BY <1>1, <2>1 DEF OpT
  <2>4. o \in OpT /\ o.pc = pc /\ o.cl = op.cl /\ o.idx = op.idx
    BY <1>1, <2>2, OpFields
  <2> HIDE DEF o
  <2>5. op' \in OpT /\ op'.pc = pc /\ op'.cl = op.cl /\ op'.idx = op.idx
    BY <2>2, <2>3, <2>4, OpFields
  <2> QED BY <1>1, <2>1, <2>2, <2>5 DEF Ended
<1>8. CASE AddBegins
  <2>1. \/ UNCHANGED <<op, stopping>>
        \/ /\ client # None /\ op.pc = "idle" /\ UNCHANGED stopping
           /\ op' = [Rest EXCEPT !.pc = "add", !.idx = added + 1, !.cl = client]
    BY <1>8 DEF AddBegins
  <2>2. added + 1 \in Indexes
    BY <1>8, Counts, Bounds DEF AddBegins, Indexes, IInv
  <2> QED BY <1>2, <1>5, <2>1, <2>2
<1>9. ASSUME NEW i \in Indexes, RemoveBegins(i)
      PROVE  \/ UNCHANGED <<op, stopping>>
             \/ /\ client # None /\ op.pc = "idle" /\ UNCHANGED stopping
                /\ op' = [Rest EXCEPT !.pc = "remove", !.idx = i, !.cl = client]
  BY <1>9 DEF RemoveBegins
<1>10. CASE Stops
  <2> DEFINE e == [Rest EXCEPT !.pc = "kill", !.cl = client, !.st = starting]
  <2>1. op' = e /\ stopping' = TRUE
    BY <1>10 DEF Stops
  <2>2. e \in OpT /\ e.pc = "kill"
    BY <1>1 DEF Rest, OpT, OpPcs, Answers
  <2> HIDE DEF e
  <2> QED BY <2>1, <2>2 DEF Ended
<1>11. CASE StopKillsStarting \/ StopEndsClient \/ Stopped
  <2>1. PICK pc \in {"stop", "join", "stopped"} :
            op.pc \in {"kill", "stop", "join"} /\ op' = [op EXCEPT !.pc = pc] /\ UNCHANGED stopping
    BY <1>11 DEF StopKillsStarting, StopEndsClient, Stopped
  <2>2. op' \in OpT /\ op'.pc = pc
    <3>1. pc \in OpPcs
      BY <2>1 DEF OpPcs
    <3> QED BY <1>1, <2>1, <3>1, OpFields
  <2> QED BY <1>1, <2>1, <2>2 DEF Ended
<1>12. ASSUME NEW c \in Clients, ChildAnswers(c) \/ ReaderEnds(c)
       PROVE  \/ UNCHANGED <<op, stopping>>
              \/ UNCHANGED stopping /\ \E got \in Answers : op' = [op EXCEPT !.got = got]
  BY <1>12 DEF ChildAnswers, ReaderEnds, Reply, Answers
<1>13. CASE SpawnFails \/ RefusedEnds \/ StopBegins
  <2>1. Stops \/ UNCHANGED <<op, stopping>>
    BY <1>13 DEF SpawnFails, RefusedEnds, Raises, StopBegins
  <2> QED BY <1>2, <1>10, <2>1
<1>14. CASE TakeLock \/ Spawn \/ HelloArrives \/ HelloFails \/ VersionRefused \/ StartFailed \/ Install
            \/ Discarded \/ Announce \/ Replay \/ Replayed
  <2>1. UNCHANGED <<op, stopping>>
    BY <1>14 DEF TakeLock, Spawn, HelloArrives, HelloFails, VersionRefused, StartFailed,
                 Install, Discarded, Announce, Replay, Replayed
  <2> QED BY <1>2, <2>1
<1>15. CASE BackoffOver \/ (\E i \in Indexes : Forget(i))
            \/ (\E c \in Clients : ChildSaysHello(c) \/ ChildDies(c)) \/ UNCHANGED vars
  <2>1. UNCHANGED <<op, stopping>>
    BY <1>15 DEF BackoffOver, Forget, ChildSaysHello, ChildDies, vars
  <2> QED BY <1>2, <2>1
<1> QED BY <1>2, <1>4, <1>5, <1>6, <1>7, <1>8, <1>9, <1>11, <1>12, <1>13, <1>14, <1>15
        DEF Next, StarterRuns, OpGoesOn

\* The children, their readers and what they are asked.
LEMMA ChildTyped ==
    ASSUME IInv, [Next]_vars
    PROVE  /\ child' \in [Clients -> {"none", "booting", "up", "dead"}]
           /\ heard' \in [Clients -> BOOLEAN]
           /\ reader' \in [Clients -> {"none", "reading", "ended"}]
           /\ table' \in [Clients -> SUBSET Indexes]
<1>1. /\ child \in [Clients -> {"none", "booting", "up", "dead"}]
      /\ heard \in [Clients -> BOOLEAN]
      /\ reader \in [Clients -> {"none", "reading", "ended"}]
      /\ table \in [Clients -> SUBSET Indexes] /\ inbox \in [Clients -> Seq(Line)]
  BY Typed DEF IInv
<1>2. CASE UNCHANGED <<child, heard, reader, table>>
  BY <1>1, <1>2
<1>3. ASSUME NEW c, NEW v \in {"booting", "up", "dead"}, child' = [child EXCEPT ![c] = v]
      PROVE  child' \in [Clients -> {"none", "booting", "up", "dead"}]
  BY <1>1, <1>3
<1>4. CASE Spawn
  <2>1. /\ child' = [child EXCEPT ![starter.cl] = "booting"] /\ UNCHANGED <<heard, table>>
        /\ reader' = [reader EXCEPT ![starter.cl] = "reading"]
    BY <1>4 DEF Spawn
  <2> QED BY <1>1, <1>3, <2>1
<1>5. CASE HelloFails \/ VersionRefused \/ Install
  <2>1. /\ child' = [child EXCEPT ![starter.cl] = "dead"] \/ UNCHANGED child
        /\ UNCHANGED <<heard, reader, table>>
    BY <1>5 DEF HelloFails, VersionRefused, Install
  <2> QED BY <1>1, <1>3, <2>1
<1>6. ASSUME NEW c \in Clients, ChildSaysHello(c) \/ ChildDies(c) \/ ReaderEnds(c) \/ ChildAnswers(c)
      PROVE  /\ child' \in [Clients -> {"none", "booting", "up", "dead"}]
             /\ heard' \in [Clients -> BOOLEAN]
             /\ reader' \in [Clients -> {"none", "reading", "ended"}]
             /\ table' \in [Clients -> SUBSET Indexes]
  <2>1. CASE ChildSaysHello(c)
    <3>1. /\ child' = [child EXCEPT ![c] = "up"] /\ heard' = [heard EXCEPT ![c] = TRUE]
          /\ UNCHANGED <<reader, table>>
      BY <2>1 DEF ChildSaysHello
    <3>2. heard' \in [Clients -> BOOLEAN]
      BY <1>1, <3>1
    <3> QED BY <1>1, <1>3, <3>1, <3>2
  <2>2. CASE ChildDies(c)
    <3>1. child' = [child EXCEPT ![c] = "dead"] /\ UNCHANGED <<heard, reader, table>>
      BY <2>2 DEF ChildDies
    <3> QED BY <1>1, <1>3, <3>1
  <2>3. CASE ReaderEnds(c)
    <3>1. reader' = [reader EXCEPT ![c] = "ended"] /\ UNCHANGED <<heard, child, table>>
      BY <2>3 DEF ReaderEnds
    <3> QED BY <1>1, <3>1
  <2>4. CASE ChildAnswers(c)
    <3> DEFINE i == Head(inbox[c])[3]
    <3>1. inbox[c] # <<>> /\ UNCHANGED <<child, heard, reader>>
      BY <2>4 DEF ChildAnswers
    <3>2. inbox[c] \in Seq(Line)
      BY <1>1
    <3>3. Head(inbox[c]) \in Line
      BY <3>1, <3>2, InTail
    <3>4. i \in Indexes
      BY <3>3 DEF Line
    <3>5. \/ UNCHANGED table
          \/ table' = [table EXCEPT ![c] = @ \ {i}]
          \/ table' = [table EXCEPT ![c] = @ \cup {i}]
      BY <2>4 DEF ChildAnswers
    <3> HIDE DEF i
    <3>6. table' \in [Clients -> SUBSET Indexes]
      <4>1. table[c] \in SUBSET Indexes
        BY <1>1
      <4>2. PICK e \in SUBSET Indexes : table' = [table EXCEPT ![c] = e] \/ UNCHANGED table
        BY <3>4, <3>5, <4>1
      <4> QED BY <1>1, <4>2
    <3> QED BY <1>1, <3>1, <3>6
  <2> QED BY <1>6, <2>1, <2>2, <2>3, <2>4
<1>7. CASE StopKillsStarting \/ StopEndsClient
  <2>1. /\ UNCHANGED child \/ \E c : child' = [child EXCEPT ![c] = "dead"]
                                     \/ child' = [child EXCEPT ![c] = child[c]]
        /\ UNCHANGED <<heard, reader, table>>
    BY <1>7 DEF StopKillsStarting, StopEndsClient, Kills
  <2>2. \A c : [child EXCEPT ![c] = child[c]] = child
    BY <1>1
  <2> QED BY <1>1, <1>3, <2>1, <2>2
<1>8. CASE TakeLock \/ SpawnFails \/ HelloArrives \/ RefusedEnds \/ StartFailed \/ Discarded \/ Announce
           \/ Replay \/ Replayed
  <2>1. UNCHANGED <<child, heard, reader, table>>
    BY <1>8 DEF TakeLock, SpawnFails, HelloArrives, RefusedEnds, StartFailed, Discarded, Announce,
                Replay, Replayed, childVars
  <2> QED BY <1>2, <2>1
<1>9. CASE BackoffOver \/ AddBegins \/ (\E i \in Indexes : RemoveBegins(i) \/ Forget(i)) \/ StopBegins
           \/ Started \/ Asks \/ AddEnds \/ RemoveEnds \/ Stopped \/ UNCHANGED vars
  <2>1. UNCHANGED <<child, heard, reader, table>>
    BY <1>9 DEF BackoffOver, AddBegins, RemoveBegins, Forget, StopBegins, Started, Asks, AddEnds, RemoveEnds,
                Stopped, childVars, vars
  <2> QED BY <1>2, <2>1
<1> QED BY <1>4, <1>5, <1>6, <1>7, <1>8, <1>9 DEF Next, StarterRuns, OpGoesOn

LEMMA InboxTyped ==
    ASSUME IInv, [Next]_vars
    PROVE  inbox' \in [Clients -> Seq(Line)]
<1>1. inbox \in [Clients -> Seq(Line)] /\ starter \in StarterT /\ op \in OpT
  BY Typed DEF IInv
<1>2. ASSUME NEW c, NEW who \in {"starter", "op"}, NEW what \in {"add", "remove"}, NEW i \in Indexes,
             Send(c, who, what, i)
      PROVE  inbox' \in [Clients -> Seq(Line)]
  <2>1. <<who, what, i>> \in Line
    BY DEF Line
  <2>2. ASSUME c \in Clients PROVE Append(inbox[c], <<who, what, i>>) \in Seq(Line)
    <3>1. inbox[c] \in Seq(Line)
      BY <1>1, <2>2
    <3> QED BY <2>1, <3>1, InAppended
  <2>3. inbox' = [inbox EXCEPT ![c] = Append(inbox[c], <<who, what, i>>)]
    BY <1>2 DEF Send
  <2> DEFINE e == Append(inbox[c], <<who, what, i>>)
  <2> HIDE DEF e
  <2> QED BY <1>1, <2>2, <2>3 DEF e
<1>3. CASE UNCHANGED inbox
  BY <1>1, <1>3
<1>4. CASE Replay
  <2>1. \/ UNCHANGED inbox
        \/ starter.todo # {} /\ Send(starter.cl, "starter", "add", Min(starter.todo))
    BY <1>4 DEF Replay
  <2>2. starter.todo # {} => Min(starter.todo) \in Indexes
    <3>1. starter.todo \in SUBSET Indexes
      BY <1>1 DEF StarterT
    <3> QED BY <3>1, LeastIs
  <2> QED BY <1>2, <1>3, <2>1, <2>2
<1>5. CASE Asks
  <2>1. UNCHANGED inbox \/ (op.pc \in {"add", "remove"} /\ Send(op.cl, "op", op.pc, op.idx))
    BY <1>5 DEF Asks
  <2>2. op.pc \in {"add", "remove"} => op.idx \in Indexes
    BY DEF IInv, Marks
  <2> QED BY <1>2, <1>3, <2>1, <2>2
<1>6. ASSUME NEW c \in Clients, ChildAnswers(c) \/ ReaderEnds(c)
      PROVE  inbox' \in [Clients -> Seq(Line)]
  <2>1. inbox[c] \in Seq(Line) /\ <<>> \in Seq(Line)
    BY <1>1, EmptySeq
  <2>2. \/ inbox[c] # <<>> /\ inbox' = [inbox EXCEPT ![c] = Tail(inbox[c])]
        \/ inbox' = [inbox EXCEPT ![c] = <<>>]
    BY <1>6 DEF ChildAnswers, ReaderEnds
  <2>3. inbox[c] # <<>> => Tail(inbox[c]) \in Seq(Line)
    BY <2>1, InTail
  <2>4. PICK e \in Seq(Line) : inbox' = [inbox EXCEPT ![c] = e]
    BY <2>1, <2>2, <2>3
  <2> QED BY <1>1, <2>4
<1>7. CASE TakeLock \/ Spawn \/ SpawnFails \/ HelloArrives \/ HelloFails \/ VersionRefused \/ RefusedEnds
           \/ StartFailed \/ Install \/ Discarded \/ Announce \/ Replayed
           \/ (\E c \in Clients : ChildSaysHello(c) \/ ChildDies(c))
  <2>1. UNCHANGED inbox
    BY <1>7 DEF TakeLock, Spawn, SpawnFails, HelloArrives, HelloFails, VersionRefused, RefusedEnds,
                StartFailed, Install, Discarded, Announce, Replayed, ChildSaysHello, ChildDies, childVars
  <2> QED BY <1>3, <2>1
<1>8. CASE BackoffOver \/ AddBegins \/ (\E i \in Indexes : RemoveBegins(i) \/ Forget(i)) \/ StopBegins
           \/ Started \/ AddEnds \/ RemoveEnds \/ StopKillsStarting \/ StopEndsClient \/ Stopped
           \/ UNCHANGED vars
  <2>1. UNCHANGED inbox
    BY <1>8 DEF BackoffOver, AddBegins, RemoveBegins, Forget, StopBegins, Started, AddEnds, RemoveEnds,
                StopKillsStarting, StopEndsClient, Stopped, childVars, vars
  <2> QED BY <1>3, <2>1
<1> QED BY <1>4, <1>5, <1>6, <1>7, <1>8 DEF Next, StarterRuns, OpGoesOn

\* What the steps do to the flags and the counts that have small types.
LEMMA FlagsTyped ==
    ASSUME IInv, [Next]_vars
    PROVE  /\ client' \in Clients \cup {None} /\ starting' \in Clients \cup {None}
           /\ stopping' \in BOOLEAN /\ scheduled' \in BOOLEAN /\ failed' \in BOOLEAN
           /\ helloSeen' \in BOOLEAN /\ active' \subseteq Indexes /\ reported' \subseteq Indexes
           /\ contexts' \subseteq Indexes
           /\ added' \in 0..MaxAdds /\ removes' \in 0..MaxRemoves /\ faults' \in 0..MaxFaults
<1>1. /\ client \in Clients \cup {None} /\ starting \in Clients \cup {None}
      /\ stopping \in BOOLEAN /\ scheduled \in BOOLEAN /\ failed \in BOOLEAN
      /\ helloSeen \in BOOLEAN /\ active \subseteq Indexes /\ reported \subseteq Indexes
      /\ contexts \subseteq Indexes
      /\ added \in 0..MaxAdds /\ removes \in 0..MaxRemoves /\ faults \in 0..MaxFaults
  BY DEF IInv, TypeOK
<1>2. starter \in StarterT /\ op \in OpT
  BY Typed DEF IInv
<1>3. ASSUME NEW n, GiveUpOrRestart(n) \/ ScheduleRestart
      PROVE  scheduled' \in BOOLEAN
  BY <1>1, <1>3 DEF GiveUpOrRestart, ScheduleRestart
<1>4. ASSUME NEW n, GiveUpOrRestart(n)
      PROVE  failed' \in BOOLEAN
  BY <1>1, <1>4 DEF GiveUpOrRestart
<1>5. ASSUME NEW c, StillStarting(c)
      PROVE  starting' \in Clients \cup {None}
  BY <1>1, <1>5 DEF StillStarting
<1>6. Fault => faults' \in 0..MaxFaults
  BY <1>1, Bounds DEF Fault
<1>7. CASE BackoffOver
  BY <1>1, <1>7 DEF BackoffOver, bounds
<1>8. CASE TakeLock
  <2>1. /\ UNCHANGED starting \/ (~stopping /\ starting' = spawned + 1)
        /\ UNCHANGED <<client, stopping, flagVars, active, contexts, reported, added, removes, faults>>
    BY <1>8 DEF TakeLock
  <2>2. ~stopping => spawned + 1 \in Clients
    BY <1>8, Room DEF TakeLock
  <2> QED BY <1>1, <2>1, <2>2 DEF flagVars
<1>9. CASE Spawn \/ SpawnFails \/ HelloArrives \/ RefusedEnds \/ Discarded \/ Replay
  <2>1. /\ UNCHANGED <<flagVars, client, starting, active, contexts, reported, bounds>>
        /\ UNCHANGED stopping \/ stopping' = TRUE
    BY <1>9 DEF Spawn, SpawnFails, HelloArrives, RefusedEnds, Raises, Stops, Discarded, Replay
  <2> QED BY <1>1, <2>1 DEF flagVars, bounds
<1>10. CASE HelloFails \/ VersionRefused
  <2>1. /\ UNCHANGED <<flagVars, client, starting, stopping, active, contexts, reported, added, removes>>
        /\ Fault \/ UNCHANGED faults
    BY <1>10 DEF HelloFails, VersionRefused
  <2> QED BY <1>1, <1>6, <2>1 DEF flagVars
<1>11. CASE StartFailed
  <2>1. /\ StillStarting(starter.cl)
        /\ \/ UNCHANGED <<failed, scheduled>>
           \/ GiveUpOrRestart(failures + 1)
        /\ UNCHANGED <<helloSeen, client, stopping, active, contexts, reported, added, removes, faults>>
    BY <1>11 DEF StartFailed, bounds
  <2> QED BY <1>1, <1>3, <1>4, <1>5, <2>1
<1>12. CASE Install
  <2>1. /\ StillStarting(starter.cl) /\ (UNCHANGED client \/ client' = starter.cl)
        /\ starter.cl \in Clients
        /\ UNCHANGED <<failed, scheduled, helloSeen, stopping, active, contexts, reported, added, removes, faults>>
    BY <1>12 DEF Install, bounds, IInv, Marks
  <2> QED BY <1>1, <1>5, <2>1
<1>13. CASE Announce
  <2>1. /\ helloSeen' = TRUE /\ failed' = FALSE
        /\ UNCHANGED <<scheduled, client, starting, stopping, active, contexts, reported, added, removes, faults>>
    BY <1>13 DEF Announce, bounds
  <2> QED BY <1>1, <2>1
<1>14. CASE Replayed
  <2>1. /\ UNCHANGED <<flagVars, client, starting, stopping, active, contexts, bounds>>
        /\ UNCHANGED reported
           \/ (starter.pc = "asked" /\ reported' = reported \cup {Min(starter.todo)})
    BY <1>14 DEF Replayed
  <2>2. starter.pc = "asked" => Min(starter.todo) \in Indexes
    BY <1>2, LeastIs DEF IInv, Marks, StarterT
  <2> QED BY <1>1, <2>1, <2>2 DEF flagVars, bounds
<1>15. ASSUME NEW c \in Clients, ChildSaysHello(c) \/ ChildDies(c) \/ ChildAnswers(c)
       PROVE  /\ UNCHANGED <<flagVars, client, starting, stopping, active, contexts, reported, added, removes>>
              /\ Fault \/ UNCHANGED faults
  BY <1>15 DEF ChildSaysHello, ChildDies, ChildAnswers, bounds
<1>16. ASSUME NEW c \in Clients, ReaderEnds(c)
       PROVE  /\ client' \in Clients \cup {None} /\ scheduled' \in BOOLEAN /\ failed' \in BOOLEAN
              /\ UNCHANGED <<starting, stopping, helloSeen, active, contexts, reported, bounds>>
  <2>1. /\ UNCHANGED client \/ client' = None
        /\ UNCHANGED <<starting, stopping, helloSeen, active, contexts, reported, bounds>>
        /\ \/ UNCHANGED <<scheduled, failed>>
           \/ ScheduleRestart /\ UNCHANGED failed
           \/ GiveUpOrRestart(failures + 1)
    BY <1>16 DEF ReaderEnds
  <2> QED BY <1>1, <1>3, <1>4, <2>1
<1>17. CASE AddBegins
  <2>1. /\ added < MaxAdds /\ added' = added + 1 /\ active' = active \cup {added + 1}
        /\ contexts' = contexts \cup {added + 1}
        /\ ScheduleRestart \/ UNCHANGED scheduled
        /\ UNCHANGED <<failed, helloSeen, client, starting, stopping, reported, removes, faults>>
    BY <1>17 DEF AddBegins
  <2>2. added' \in 0..MaxAdds /\ added + 1 \in Indexes
    BY <1>1, <2>1, Bounds DEF Indexes
  <2> QED BY <1>1, <1>3, <2>1, <2>2
<1>18. CASE Started \/ Asks \/ AddEnds \/ RemoveEnds
  <2>1. /\ UNCHANGED <<flagVars, client, starting, stopping, bounds>> /\ active' \subseteq active
        /\ contexts' \subseteq contexts
        /\ UNCHANGED reported \/ (op.pc = "removing" /\ reported' = reported \cup {op.idx})
    BY <1>18 DEF Started, Asks, AddEnds, RemoveEnds
  <2>2. op.pc = "removing" => op.idx \in Indexes
    BY DEF IInv, Marks
  <2> QED BY <1>1, <2>1, <2>2 DEF flagVars, bounds
<1>19. ASSUME NEW i \in Indexes, RemoveBegins(i)
       PROVE  /\ UNCHANGED <<flagVars, client, starting, stopping, contexts, reported, added, faults>>
              /\ active' \subseteq active /\ removes' \in 0..MaxRemoves
  <2>1. /\ UNCHANGED <<flagVars, client, starting, stopping, contexts, reported, added, faults>>
        /\ active' \subseteq active /\ removes < MaxRemoves /\ removes' = removes + 1
    BY <1>19 DEF RemoveBegins
  <2> QED BY <1>1, <2>1, Bounds
<1>20. CASE StopBegins \/ StopKillsStarting \/ StopEndsClient \/ Stopped \/ UNCHANGED vars
  <2>1. /\ UNCHANGED <<flagVars, starting, active, contexts, reported, bounds>>
        /\ UNCHANGED client \/ client' = None
        /\ UNCHANGED stopping \/ stopping' = TRUE
    BY <1>20 DEF StopBegins, Stops, StopKillsStarting, StopEndsClient, Stopped, vars
  <2> QED BY <1>1, <2>1 DEF flagVars, bounds
<1>21. ASSUME NEW i \in Indexes, Forget(i)
       PROVE  /\ UNCHANGED <<flagVars, client, starting, stopping, active, reported, bounds>>
              /\ contexts' \subseteq contexts
  BY <1>21 DEF Forget
<1> QED BY <1>1, <1>6, <1>7, <1>8, <1>9, <1>10, <1>11, <1>12, <1>13, <1>14, <1>15, <1>16, <1>17, <1>18,
           <1>19, <1>20, <1>21 DEF Next, StarterRuns, OpGoesOn, flagVars, bounds


\* A late add is an add.
LEMMA LateCounted ==
    ASSUME IInv, [Next]_vars
    PROVE  late' \in Nat /\ late' <= added'
<1>1. late \in Nat /\ late <= added /\ added \in Nat
  BY Counts, Bounds DEF IInv, Marks
<1>2. CASE AddBegins
  BY <1>1, <1>2 DEF AddBegins
<1>3. CASE ~AddBegins
  <2>1. UNCHANGED <<late, added>>
    BY <1>3 DEF Next, BackoffOver, StarterRuns, TakeLock, Spawn, SpawnFails, HelloArrives, HelloFails,
                VersionRefused, RefusedEnds, StartFailed, Install, Discarded, Announce, Replay, Replayed,
                ChildSaysHello, ChildDies, ChildAnswers, ReaderEnds, RemoveBegins, Forget, StopBegins,
                OpGoesOn, Started, Asks, AddEnds, RemoveEnds, StopKillsStarting, StopEndsClient, Stopped,
                bounds, vars
  <2> QED BY <1>1, <2>1
<1> QED BY <1>2, <1>3

\* Where the starter's child is.
LEMMA StarterFollows ==
    ASSUME IInv, [Next]_vars
    PROVE  /\ \A c \in Clients : c > spawned' => child'[c] = "none"
           /\ starter'.pc # "free" => starter'.cl <= spawned'
           /\ starter'.pc = "spawn" => child'[starter'.cl] = "none"
           /\ starter'.pc = "hello" => child'[starter'.cl] # "none"
           /\ starter'.pc = "reap" => child'[starter'.cl] = "dead" /\ ~heard'[starter'.cl]
           /\ starter'.pc = "refused" => child'[starter'.cl] = "dead"
<1> DEFINE Here ==
      /\ \A c \in Clients : c > spawned => child[c] = "none"
      /\ starter.pc # "free" => starter.cl <= spawned
      /\ starter.pc = "spawn" => child[starter.cl] = "none"
      /\ starter.pc = "hello" => child[starter.cl] # "none"
      /\ starter.pc = "reap" => child[starter.cl] = "dead" /\ ~heard[starter.cl]
      /\ starter.pc = "refused" => child[starter.cl] = "dead"
<1> SUFFICES Here'
  OBVIOUS
<1>1. /\ starter.pc # "free" => starter.cl \in Clients
      /\ starter \in StarterT
      /\ child \in [Clients -> {"none", "booting", "up", "dead"}] /\ heard \in [Clients -> BOOLEAN]
      /\ spawned \in Nat /\ Clients \subseteq Nat
  BY Typed, Counts, Bounds DEF IInv, Marks
<1>2. Here
  BY DEF IInv, Marks
<1>3. ASSUME UNCHANGED <<child, heard, spawned>>, starter'.pc = starter.pc, starter'.cl = starter.cl
      PROVE  Here'
  BY <1>2, <1>3
<1>4. ASSUME UNCHANGED <<child, heard, spawned>>, starter'.pc \notin {"spawn", "hello", "reap", "refused"},
             starter'.pc # "free" => starter.pc # "free" /\ starter'.cl = starter.cl
      PROVE  Here'
  BY <1>2, <1>4
<1>5. CASE TakeLock
  <2>1. UNCHANGED <<child, heard>>
    BY <1>5 DEF TakeLock, childVars
  <2>2. CASE stopping
    BY <1>3, <1>5, <2>1, <2>2 DEF TakeLock
  <2>3. CASE ~stopping
    <3>1. /\ spawned' = spawned + 1 /\ spawned + 1 \in Clients
          /\ starter' = [Free EXCEPT !.pc = "spawn", !.cl = spawned + 1]
      BY <1>5, <2>3, Room DEF TakeLock
    <3>2. starter'.pc = "spawn" /\ starter'.cl = spawned + 1
      BY <3>1 DEF Free
    <3>3. \A c \in Clients : c > spawned + 1 => c > spawned
      BY <1>1
    <3>4. spawned + 1 > spawned /\ spawned + 1 <= spawned'
      BY <1>1, <3>1
    <3> QED BY <1>2, <2>1, <3>1, <3>2, <3>3, <3>4
  <2> QED BY <2>2, <2>3
\* The child of a client there is changes.
<1>6. ASSUME NEW c \in Clients, c <= spawned, NEW v,
             child' = [child EXCEPT ![c] = v], UNCHANGED spawned
      PROVE  /\ \A d \in Clients : d > spawned' => child'[d] = "none"
             /\ child'[c] = v /\ \A d \in Clients : d # c => child'[d] = child[d]
  BY <1>1, <1>2, <1>6
<1>7. CASE Spawn \/ HelloFails \/ VersionRefused
  <2>1. PICK pc \in {"hello", "reap", "refused"}, v \in {"booting", "dead"} :
            /\ starter.pc # "free" /\ child' = [child EXCEPT ![starter.cl] = v]
            /\ UNCHANGED <<heard, spawned>> /\ starter' = [starter EXCEPT !.pc = pc]
            /\ pc = "reap" => v = "dead" /\ ~heard[starter.cl]
            /\ pc = "refused" => v = "dead"
    BY <1>7 DEF Spawn, HelloFails, VersionRefused, bounds
  <2>2. starter'.pc = pc /\ starter'.cl = starter.cl
    BY <1>1, <2>1, StarterFields DEF StarterPcs
  <2>3. child'[starter.cl] = v /\ \A d \in Clients : d > spawned' => child'[d] = "none"
    BY <1>1, <1>2, <1>6, <2>1
  <2> QED BY <1>1, <1>2, <2>1, <2>2, <2>3
<1>8. CASE Install
  <2>1. PICK pc \in {"announce", "discard"} :
            /\ starter.pc # "free" /\ starter' = [starter EXCEPT !.pc = pc]
            /\ UNCHANGED child \/ child' = [child EXCEPT ![starter.cl] = "dead"]
            /\ UNCHANGED <<heard, spawned>>
    BY <1>8 DEF Install, bounds
  <2>2. starter'.pc = pc /\ starter'.cl = starter.cl
    BY <1>1, <2>1, StarterFields DEF StarterPcs
  <2>3. \A d \in Clients : d > spawned' => child'[d] = "none"
    BY <1>1, <1>2, <1>6, <2>1
  <2> QED BY <1>1, <1>2, <2>1, <2>2, <2>3
<1>9. CASE SpawnFails \/ HelloArrives \/ RefusedEnds \/ StartFailed \/ Discarded \/ Announce \/ Replay \/ Replayed
  <2>1. /\ UNCHANGED <<child, heard, spawned>>
        /\ \/ starter' = Free
           \/ /\ starter.pc # "free"
              /\ \/ \E pc \in {"install"} : starter' = [starter EXCEPT !.pc = pc]
                 \/ \E todo : starter' = [starter EXCEPT !.pc = "replay", !.todo = todo]
                 \/ \E todo : starter' = [starter EXCEPT !.pc = "replay", !.todo = todo, !.got = "none"]
                 \/ starter' = [starter EXCEPT !.pc = "asked", !.got = "none"]
    BY <1>9 DEF SpawnFails, HelloArrives, RefusedEnds, Raises, StartFailed, Discarded, Announce, Replay, Replayed, NextReplayed,
                AfterRefusal, childVars, bounds
  <2>2. starter'.pc \notin {"spawn", "hello", "reap", "refused"}
        /\ (starter'.pc # "free" => starter.pc # "free" /\ starter'.cl = starter.cl)
    BY <1>1, <2>1, FreeIs DEF StarterT
  <2> QED BY <1>4, <2>1, <2>2
<1>10. ASSUME NEW c \in Clients, Runs(c), NEW v \in {"up", "dead"}, child' = [child EXCEPT ![c] = v],
              UNCHANGED <<starter, spawned>>,
              UNCHANGED heard \/ heard' = [heard EXCEPT ![c] = TRUE]
       PROVE  Here'
  <2>1. c <= spawned /\ child[c] # "none" /\ child[c] # "dead"
    BY <1>1, <1>2, <1>10 DEF Runs
  <2>2. /\ \A d \in Clients : d > spawned' => child'[d] = "none"
        /\ child'[c] = v /\ \A d \in Clients : d # c => child'[d] = child[d] /\ heard'[d] = heard[d]
    BY <1>1, <1>6, <1>10, <2>1
  <2> QED BY <1>1, <1>2, <1>10, <2>1, <2>2
<1>11. ASSUME NEW c \in Clients, ChildSaysHello(c) \/ ChildDies(c)
       PROVE  Here'
  BY <1>10, <1>11 DEF ChildSaysHello, ChildDies, Runs, bounds
<1>12. ASSUME NEW c \in Clients, ChildAnswers(c) \/ ReaderEnds(c)
       PROVE  Here'
  <2>1. /\ UNCHANGED <<child, heard, spawned>>
        /\ UNCHANGED starter \/ \E got \in Answers : starter' = [starter EXCEPT !.got = got]
    BY <1>12 DEF ChildAnswers, ReaderEnds, Reply, bounds, Answers
  <2>2. starter'.pc = starter.pc /\ starter'.cl = starter.cl
    <3>1. ASSUME NEW got \in Answers
          PROVE  [starter EXCEPT !.got = got].pc = starter.pc /\ [starter EXCEPT !.got = got].cl = starter.cl
      BY <1>1 DEF StarterT
    <3>2. ASSUME NEW got \in Answers, starter' = [starter EXCEPT !.got = got]
          PROVE  starter'.pc = starter.pc /\ starter'.cl = starter.cl
      BY <3>1, <3>2
    <3>3. CASE UNCHANGED starter
      BY <3>3
    <3> QED BY <2>1, <3>2, <3>3
  <2> QED BY <1>3, <2>1, <2>2
<1>13. CASE StopKillsStarting \/ StopEndsClient
  <2>1. /\ UNCHANGED <<heard, spawned, starter>>
        /\ UNCHANGED child \/ \E c \in Clients : Kills(c)
    BY <1>13, Typed DEF StopKillsStarting, StopEndsClient, bounds, IInv, OpT
  <2>2. CASE UNCHANGED child
    BY <1>3, <2>1, <2>2
  <2>3. ASSUME NEW c \in Clients, Kills(c)
        PROVE  Here'
    <3>1. child' = child \/ (Runs(c) /\ child' = [child EXCEPT ![c] = "dead"])
      BY <1>1, <2>3 DEF Kills
    <3> QED BY <1>10, <2>1, <2>2, <3>1
  <2> QED BY <2>1, <2>2, <2>3
<1>14. CASE BackoffOver \/ AddBegins \/ (\E i \in Indexes : RemoveBegins(i) \/ Forget(i)) \/ StopBegins
            \/ Started \/ Asks \/ AddEnds \/ RemoveEnds \/ Stopped \/ UNCHANGED vars
  <2>1. UNCHANGED <<child, heard, spawned, starter>>
    BY <1>14 DEF BackoffOver, AddBegins, RemoveBegins, Forget, StopBegins, Started, Asks, AddEnds, RemoveEnds,
                Stopped, childVars, bounds, vars
  <2> QED BY <1>3, <2>1
<1> HIDE DEF Here
<1> QED BY <1>5, <1>7, <1>8, <1>9, <1>11, <1>12, <1>13, <1>14 DEF Next, StarterRuns, OpGoesOn

LEMMA MarksStep ==
    ASSUME IInv, [Next]_vars
    PROVE  Marks'
BY StarterFollows, StarterTyped, OpTyped, LateCounted DEF Marks
-----------------------------------------------------------------------------
(* Restarts are paid for                                                   *)

\* Attempts begun, asked for and planned.
Load == spawned + waiting + (IF scheduled THEN 1 ELSE 0)

Numbers == spawned \in Nat /\ waiting \in Nat /\ failures \in Nat

\* What a step does to the account: nothing, a fault, a restart for a fault, an add.
Quiet   == /\ Debts' \subseteq Debts /\ Load' <= Load /\ failures' <= failures
           /\ UNCHANGED <<faults, added>>
Faults  == /\ \E c \in Clients : Debts' \subseteq Debts \cup {c}
           /\ Load' <= Load /\ failures' <= failures /\ faults' = faults + 1 /\ UNCHANGED added
Settles == /\ \E c \in Debts : Debts' \subseteq Debts \ {c}
           /\ Load' <= Load + 1 /\ failures' <= failures + 1 /\ UNCHANGED <<faults, added>>
Adds    == /\ Debts' \subseteq Debts /\ Load' <= Load + 1 /\ failures' <= failures
           /\ added' = added + 1 /\ UNCHANGED faults

\* A restart is scheduled for nothing more than one attempt.
LEMMA Scheduling ==
    ASSUME IInv
    PROVE  /\ Load \in Nat
           /\ ScheduleRestart /\ UNCHANGED spawned => Load' <= Load + 1 /\ waiting' \in Nat /\ UNCHANGED waiting
           /\ \A n : GiveUpOrRestart(n) /\ UNCHANGED spawned
                        => Load' <= Load + 1 /\ waiting' \in Nat /\ UNCHANGED waiting
           /\ UNCHANGED <<spawned, waiting, scheduled>> => Load' = Load /\ waiting' \in Nat
<1>1. spawned \in Nat /\ waiting \in Nat
  BY Counts DEF IInv
<1>2. /\ (IF scheduled THEN 1 ELSE 0) \in 0..1
      /\ (IF scheduled' THEN 1 ELSE 0) \in 0..1
  OBVIOUS
<1>3. /\ Load \in Nat
      /\ UNCHANGED <<spawned, waiting>> => Load' <= Load + 1
  BY <1>1, <1>2 DEF Load
<1>6. ASSUME UNCHANGED <<spawned, waiting, scheduled>>
      PROVE  Load' = Load
  <2>1. (IF scheduled' THEN 1 ELSE 0) = (IF scheduled THEN 1 ELSE 0)
    BY <1>6
  <2> QED BY <1>6, <2>1 DEF Load
<1>4. ScheduleRestart => UNCHANGED waiting
  BY DEF ScheduleRestart
<1>5. \A n : GiveUpOrRestart(n) => UNCHANGED waiting
  BY <1>4 DEF GiveUpOrRestart
<1> QED BY <1>1, <1>3, <1>4, <1>5, <1>6

\* Who owes is not changed by a step of the others.
LEMMA SameDebts ==
    ASSUME UNCHANGED <<child, heard, reader>>, stopping => stopping',
           starter'.pc \in {"hello", "reap"} => starter.pc \in {"hello", "reap"} /\ starter'.cl = starter.cl
    PROVE  Debts' \subseteq Debts
<1>1. ASSUME NEW c \in Clients, Owes(c)'
      PROVE  Owes(c)
  BY <1>1 DEF Owes
<1> QED BY <1>1 DEF Debts

LEMMA DebtsOfTheStopped ==
    ASSUME stopping'
    PROVE  Debts' \subseteq Debts
BY DEF Debts, Owes

\* One debt more, one less.
LEMMA OtherDebts ==
    ASSUME NEW c \in Clients, NEW d \in Clients, d # c, Owes(d)',
           stopping => stopping', child'[d] = child[d], heard'[d] = heard[d], reader'[d] = reader[d],
           starter'.pc \in {"hello", "reap"} =>
               starter'.cl = c \/ (starter.pc \in {"hello", "reap"} /\ starter'.cl = starter.cl)
    PROVE  Owes(d)
BY DEF Owes

LEMMA StarterDebts ==
    ASSUME IInv, StarterRuns
    PROVE  (Quiet \/ Faults \/ Settles) /\ Numbers'
<1>1. /\ spawned \in Nat /\ waiting \in Nat /\ failures \in Nat
      /\ starter.pc # "free" => starter.cl \in Clients
      /\ starter.pc = "hello" => child[starter.cl] # "none"
      /\ starter.pc = "reap" => child[starter.cl] = "dead" /\ ~heard[starter.cl]
      /\ starter \in StarterT
      /\ child \in [Clients -> {"none", "booting", "up", "dead"}] /\ heard \in [Clients -> BOOLEAN]
      /\ reader \in [Clients -> {"none", "reading", "ended"}]
  BY Typed, Counts DEF IInv, Marks
<1>2. CASE TakeLock
  <2>1. /\ UNCHANGED <<child, heard, reader, stopping, failures, scheduled, added, faults>>
        /\ waiting > 0 /\ waiting' = waiting - 1
        /\ starter.pc = "free"
        /\ \/ UNCHANGED <<starter, spawned>>
           \/ spawned' = spawned + 1 /\ starter' = [Free EXCEPT !.pc = "spawn", !.cl = spawned + 1]
    BY <1>2 DEF TakeLock, childVars, flagVars
  <2>2. starter'.pc \notin {"hello", "reap"}
    BY <2>1 DEF Free
  <2>3. Debts' \subseteq Debts
    BY <2>1, <2>2, SameDebts
  <2>4. Load' <= Load /\ waiting' \in Nat /\ spawned' \in Nat
    <3>1. (IF scheduled THEN 1 ELSE 0) \in Nat /\ (IF scheduled' THEN 1 ELSE 0) = (IF scheduled THEN 1 ELSE 0)
      BY <2>1
    <3> QED BY <1>1, <2>1, <3>1 DEF Load
  <2> QED BY <1>1, <2>1, <2>3, <2>4 DEF Quiet, Numbers
<1>3. CASE Spawn
  <2>1. /\ starter.pc = "spawn" /\ child' = [child EXCEPT ![starter.cl] = "booting"]
        /\ reader' = [reader EXCEPT ![starter.cl] = "reading"]
        /\ starter' = [starter EXCEPT !.pc = "hello"]
        /\ UNCHANGED <<heard, stopping, failures, scheduled, waiting, spawned, added, faults>>
    BY <1>3 DEF Spawn, flagVars, bounds
  <2>2. starter'.cl = starter.cl /\ starter.cl \in Clients
    BY <1>1, <2>1, StarterFields DEF StarterPcs
  <2>3. child'[starter.cl] = "booting"
    BY <1>1, <2>1, <2>2
  <2>4. ASSUME NEW d \in Clients, Owes(d)'
        PROVE  Owes(d)
    <3>1. d # starter.cl
      BY <2>3, <2>4 DEF Owes
    <3>2. child'[d] = child[d] /\ reader'[d] = reader[d]
      BY <1>1, <2>1, <3>1
    <3> QED BY <2>1, <2>2, <2>4, <3>1, <3>2, OtherDebts
  <2>5. Debts' \subseteq Debts
    BY <2>4 DEF Debts
  <2> QED BY <1>1, <2>1, <2>5, Scheduling DEF Quiet, Numbers
<1>4. CASE HelloFails
  <2>1. /\ starter.pc = "hello" /\ ~heard[starter.cl] /\ child' = [child EXCEPT ![starter.cl] = "dead"]
        /\ starter' = [starter EXCEPT !.pc = "reap"]
        /\ UNCHANGED <<heard, reader, stopping, failures, scheduled, waiting, spawned, added>>
        /\ IF Runs(starter.cl) THEN Fault ELSE UNCHANGED faults
    BY <1>4 DEF HelloFails, flagVars
  <2>2. starter'.cl = starter.cl /\ starter.cl \in Clients
    BY <1>1, <2>1, StarterFields DEF StarterPcs
  <2>3. ASSUME NEW d \in Clients, d # starter.cl, Owes(d)'
        PROVE  Owes(d)
    <3>1. child'[d] = child[d]
      BY <1>1, <2>1, <2>3
    <3> QED BY <2>1, <2>2, <2>3, <3>1, OtherDebts
  <2>4. Debts' \subseteq Debts \cup {starter.cl}
    BY <2>3 DEF Debts
  <2>5. CASE Runs(starter.cl)
    BY <1>1, <2>1, <2>2, <2>4, <2>5, Scheduling DEF Faults, Numbers, Fault
  <2>6. CASE ~Runs(starter.cl)
    <3>1. child[starter.cl] = "dead"
      BY <1>1, <2>1, <2>2, <2>6 DEF Runs
    <3>2. Owes(starter.cl)' => Owes(starter.cl)
      BY <2>1, <3>1 DEF Owes
    <3>3. Debts' \subseteq Debts
      BY <2>2, <2>3, <3>2 DEF Debts
    <3> QED BY <1>1, <2>1, <2>6, <3>3, Scheduling DEF Quiet, Numbers
  <2> QED BY <2>5, <2>6
<1>5. CASE StartFailed
  <2>1. /\ starter.pc = "reap" /\ starter' = Free
        /\ UNCHANGED <<child, heard, reader, stopping, spawned, added, faults>>
        /\ IF stopping THEN UNCHANGED <<failures, failed, scheduled, waiting>>
           ELSE failures' = failures + 1 /\ GiveUpOrRestart(failures + 1)
    BY <1>5 DEF StartFailed, childVars, bounds
  <2>2. Debts' \subseteq Debts
    BY <2>1, FreeIs, SameDebts
  <2>3. CASE stopping
    BY <1>1, <2>1, <2>2, <2>3, Scheduling DEF Quiet, Numbers
  <2>4. CASE ~stopping
    <3>1. PICK c \in Clients : c = starter.cl
      BY <1>1, <2>1
    <3>2. c \in Debts
      BY <1>1, <2>1, <2>4, <3>1 DEF Debts, Owes
    <3>3. ~Owes(c)'
      BY <1>1, <2>1, <3>1, FreeIs DEF Owes
    <3>4. Debts' \subseteq Debts \ {c}
      BY <2>2, <3>3 DEF Debts
    <3>5. Load' <= Load + 1 /\ waiting' \in Nat
      BY <2>1, <2>4, Scheduling
    <3> QED BY <1>1, <2>1, <2>4, <3>2, <3>4, <3>5 DEF Settles, Numbers
  <2> QED BY <2>3, <2>4
<1>6. CASE Install
  <2>1. /\ starter.pc = "install"
        /\ \E pc \in {"announce", "discard"} : starter' = [starter EXCEPT !.pc = pc]
        /\ stopping \/ UNCHANGED child
        /\ failures' = 0 \/ UNCHANGED failures
        /\ UNCHANGED <<heard, reader, stopping, scheduled, waiting, spawned, added, faults>>
    BY <1>6 DEF Install, MayInstall, bounds
  <2>2. starter'.pc \notin {"hello", "reap"}
    BY <1>1, <2>1 DEF StarterT
  <2>3. Debts' \subseteq Debts
    BY <2>1, <2>2, SameDebts, DebtsOfTheStopped
  <2>4. failures' <= failures /\ failures' \in Nat
    BY <1>1, <2>1
  <2> QED BY <1>1, <2>1, <2>3, <2>4, Scheduling DEF Quiet, Numbers
<1>7. CASE SpawnFails \/ HelloArrives \/ RefusedEnds \/ Discarded \/ Announce \/ Replay \/ Replayed
  <2>1. /\ UNCHANGED <<child, heard, reader, failures, scheduled, waiting, spawned, added, faults>>
        /\ UNCHANGED stopping \/ stopping' = TRUE
        /\ \/ starter' = Free
           \/ starter' = [starter EXCEPT !.pc = "install"]
           \/ \E todo : starter' = [starter EXCEPT !.pc = "replay", !.todo = todo]
           \/ \E todo : starter' = [starter EXCEPT !.pc = "replay", !.todo = todo, !.got = "none"]
           \/ starter' = [starter EXCEPT !.pc = "asked", !.got = "none"]
    BY <1>7 DEF SpawnFails, HelloArrives, RefusedEnds, Raises, Stops, Discarded, Announce, Replay, Replayed, NextReplayed,
                AfterRefusal, childVars, flagVars, bounds
  <2>2. starter'.pc \notin {"hello", "reap"}
    BY <1>1, <2>1, FreeIs DEF StarterT
  <2>5. stopping => stopping'
    <3>1. UNCHANGED stopping \/ stopping' = TRUE
      BY <2>1
    <3> QED BY <3>1
  <2>6. UNCHANGED <<child, heard, reader>>
    BY <2>1
  <2>3. Debts' \subseteq Debts
    BY <2>2, <2>5, <2>6, SameDebts
  <2>4. UNCHANGED <<spawned, waiting, scheduled, failures, added, faults>>
    BY <2>1
  <2> QED BY <1>1, <2>3, <2>4, Scheduling DEF Quiet, Numbers
<1>8. CASE VersionRefused
  <2>1. /\ starter.pc = "hello" /\ child' = [child EXCEPT ![starter.cl] = "dead"] /\ Fault
        /\ starter' = [starter EXCEPT !.pc = "refused"]
        /\ UNCHANGED <<heard, reader, stopping, failures, scheduled, waiting, spawned, added>>
    BY <1>8 DEF VersionRefused, flagVars
  <2>2. starter'.pc = "refused" /\ starter.cl \in Clients
    BY <1>1, <2>1, StarterFields DEF StarterPcs
  <2>3. ASSUME NEW d \in Clients, d # starter.cl, Owes(d)'
        PROVE  Owes(d)
    <3>1. child'[d] = child[d]
      BY <1>1, <2>1, <2>3
    <3> QED BY <2>1, <2>2, <2>3, <3>1, OtherDebts
  <2>4. Debts' \subseteq Debts \cup {starter.cl}
    BY <2>3 DEF Debts
  <2> QED BY <1>1, <2>1, <2>2, <2>4, Scheduling DEF Faults, Numbers, Fault
<1> QED BY <1>2, <1>3, <1>4, <1>5, <1>6, <1>7, <1>8 DEF StarterRuns

LEMMA ChildDebts ==
    ASSUME IInv, NEW c \in Clients,
           ChildSaysHello(c) \/ ChildDies(c) \/ ChildAnswers(c) \/ ReaderEnds(c)
    PROVE  (Quiet \/ Faults \/ Settles) /\ Numbers'
<1>1. /\ spawned \in Nat /\ waiting \in Nat /\ failures \in Nat
      /\ starter.pc # "free" => starter.cl \in Clients
      /\ starter.pc = "reap" => child[starter.cl] = "dead" /\ ~heard[starter.cl]
      /\ starter \in StarterT
      /\ child \in [Clients -> {"none", "booting", "up", "dead"}] /\ heard \in [Clients -> BOOLEAN]
      /\ reader \in [Clients -> {"none", "reading", "ended"}]
  BY Typed, Counts DEF IInv, Marks
<1>2. ASSUME NEW got \in Answers
      PROVE  [starter EXCEPT !.got = got].pc = starter.pc /\ [starter EXCEPT !.got = got].cl = starter.cl
  BY <1>1 DEF StarterT
<1>3. ASSUME UNCHANGED starter \/ \E got \in Answers : starter' = [starter EXCEPT !.got = got]
      PROVE  starter'.pc = starter.pc /\ starter'.cl = starter.cl
  <2>1. CASE UNCHANGED starter
    BY <2>1
  <2>2. ASSUME NEW got \in Answers, starter' = [starter EXCEPT !.got = got]
        PROVE  starter'.pc = starter.pc /\ starter'.cl = starter.cl
    BY <1>2, <2>2
  <2> QED BY <1>3, <2>1, <2>2
<1>4. CASE ChildSaysHello(c)
  <2>1. /\ child' = [child EXCEPT ![c] = "up"] /\ heard' = [heard EXCEPT ![c] = TRUE]
        /\ UNCHANGED <<reader, starter, stopping, failures, scheduled, waiting, spawned, added, faults>>
    BY <1>4 DEF ChildSaysHello, flagVars, bounds
  <2>2. child'[c] = "up"
    BY <1>1, <2>1
  <2>3. ASSUME NEW d \in Clients, Owes(d)'
        PROVE  Owes(d)
    <3>1. d # c
      BY <2>2, <2>3 DEF Owes
    <3>2. child'[d] = child[d] /\ heard'[d] = heard[d]
      BY <1>1, <2>1, <3>1
    <3> QED BY <2>1, <2>3, <3>1, <3>2, OtherDebts
  <2>4. Debts' \subseteq Debts
    BY <2>3 DEF Debts
  <2> QED BY <1>1, <2>1, <2>4, Scheduling DEF Quiet, Numbers
<1>5. CASE ChildDies(c)
  <2>1. /\ child' = [child EXCEPT ![c] = "dead"] /\ Fault
        /\ UNCHANGED <<heard, reader, starter, stopping, failures, scheduled, waiting, spawned, added>>
    BY <1>5 DEF ChildDies, flagVars
  <2>2. ASSUME NEW d \in Clients, d # c, Owes(d)'
        PROVE  Owes(d)
    <3>1. child'[d] = child[d]
      BY <1>1, <2>1, <2>2
    <3> QED BY <2>1, <2>2, <3>1, OtherDebts
  <2>3. Debts' \subseteq Debts \cup {c}
    BY <2>2 DEF Debts
  <2> QED BY <1>1, <2>1, <2>3, Scheduling DEF Faults, Numbers, Fault
<1>6. CASE ChildAnswers(c)
  <2>1. /\ UNCHANGED <<child, heard, reader, stopping, failures, scheduled, waiting, spawned, added, faults>>
        /\ UNCHANGED starter \/ \E got \in Answers : starter' = [starter EXCEPT !.got = got]
    BY <1>6 DEF ChildAnswers, Reply, flagVars, bounds, Answers
  <2>2. Debts' \subseteq Debts
    BY <1>3, <2>1, SameDebts
  <2> QED BY <1>1, <2>1, <2>2, Scheduling DEF Quiet, Numbers
\* The end of a client that was heard of settles; of another one it does nothing.
<1>7. CASE ReaderEnds(c)
  <2>1. /\ reader[c] = "reading" /\ child[c] = "dead" /\ reader' = [reader EXCEPT ![c] = "ended"]
        /\ UNCHANGED <<child, heard, stopping, spawned, added, faults>>
        /\ UNCHANGED starter \/ \E got \in Answers : starter' = [starter EXCEPT !.got = got]
    BY <1>7 DEF ReaderEnds, bounds, Answers
  <2>2. /\ stopping \/ ~heard[c] => UNCHANGED <<failures, scheduled, waiting>>
        /\ ~stopping /\ heard[c] => \/ ScheduleRestart /\ UNCHANGED failures
                                    \/ failures' = failures + 1 /\ GiveUpOrRestart(failures + 1)
    BY <1>7 DEF ReaderEnds, ReportsExit
  <2>3. starter'.pc = starter.pc /\ starter'.cl = starter.cl
    BY <1>3, <2>1
  <2>4. ASSUME NEW d \in Clients, d # c, Owes(d)'
        PROVE  Owes(d)
    <3>1. reader'[d] = reader[d]
      BY <1>1, <2>1, <2>4
    <3> QED BY <2>1, <2>3, <2>4, <3>1, OtherDebts
  <2>5. reader'[c] = "ended"
    BY <1>1, <2>1
  <2>6. CASE stopping \/ ~heard[c]
    <3>1. Owes(c)' => Owes(c)
      BY <2>1, <2>3, <2>5 DEF Owes
    <3>2. Debts' \subseteq Debts
      BY <2>4, <3>1 DEF Debts
    <3> QED BY <1>1, <2>1, <2>2, <2>6, <3>2, Scheduling DEF Quiet, Numbers
  <2>7. CASE ~stopping /\ heard[c]
    <3>1. c \in Debts
      BY <2>1, <2>7 DEF Debts, Owes
    <3>2. ~Owes(c)'
      BY <2>1, <2>5, <2>7 DEF Owes
    <3>3. Debts' \subseteq Debts \ {c}
      BY <2>4, <3>2 DEF Debts
    <3>4. /\ Load' <= Load + 1 /\ waiting' \in Nat
          /\ UNCHANGED failures \/ failures' = failures + 1
      BY <2>1, <2>2, <2>7, Scheduling
    <3> QED BY <1>1, <2>1, <3>1, <3>3, <3>4 DEF Settles, Numbers
  <2> QED BY <2>6, <2>7
<1> QED BY <1>4, <1>5, <1>6, <1>7

LEMMA OtherDebtSteps ==
    ASSUME IInv,
           \/ BackoffOver \/ AddBegins \/ (\E i \in Indexes : RemoveBegins(i) \/ Forget(i))
           \/ StopBegins \/ OpGoesOn \/ UNCHANGED vars
    PROVE  (Quiet \/ Adds) /\ Numbers'
<1>1. spawned \in Nat /\ waiting \in Nat /\ failures \in Nat /\ (stopping <=> op.pc \in Ended)
  BY Counts DEF IInv, Marks
<1>2. CASE BackoffOver
  <2>1. /\ scheduled /\ ~scheduled' /\ waiting' = waiting + 1
        /\ UNCHANGED <<child, heard, reader, starter, stopping, failures, spawned, added, faults>>
    BY <1>2 DEF BackoffOver, childVars, bounds
  <2>2. Debts' \subseteq Debts
    BY <2>1, SameDebts
  <2>3. Load' <= Load
    <3>1. (IF scheduled THEN 1 ELSE 0) = 1 /\ (IF scheduled' THEN 1 ELSE 0) = 0
      BY <2>1
    <3> QED BY <1>1, <2>1, <3>1 DEF Load
  <2> QED BY <1>1, <2>1, <2>2, <2>3 DEF Quiet, Numbers
<1>3. CASE AddBegins
  <2>1. /\ UNCHANGED <<child, heard, reader, starter, stopping, failures, spawned, faults>>
        /\ added' = added + 1
        /\ ScheduleRestart \/ UNCHANGED <<scheduled, waiting>>
    BY <1>3 DEF AddBegins, childVars
  <2>2. Debts' \subseteq Debts
    BY <2>1, SameDebts
  <2>3. Load' <= Load + 1 /\ waiting' \in Nat
    BY <2>1, Scheduling
  <2> QED BY <1>1, <2>1, <2>2, <2>3 DEF Adds, Numbers
<1>4. ASSUME UNCHANGED <<failures, scheduled, waiting, spawned, added, faults>>,
             \/ stopping'
             \/ UNCHANGED <<child, heard, reader, starter, stopping>>
      PROVE  Quiet /\ Numbers'
  <2>1. Debts' \subseteq Debts
    BY <1>4, SameDebts, DebtsOfTheStopped
  <2> QED BY <1>1, <1>4, <2>1, Scheduling DEF Quiet, Numbers
<1>5. CASE \E i \in Indexes : RemoveBegins(i) \/ Forget(i)
  BY <1>4, <1>5 DEF RemoveBegins, Forget, childVars, flagVars, bounds
<1>6. CASE StopBegins
  BY <1>4, <1>6 DEF StopBegins, Stops, flagVars, bounds
<1>7. CASE Started \/ Asks \/ AddEnds \/ RemoveEnds
  BY <1>4, <1>7 DEF Started, Asks, AddEnds, RemoveEnds, childVars, flagVars, bounds
<1>8. CASE StopKillsStarting \/ StopEndsClient \/ Stopped
  <2>1. /\ op.pc \in {"kill", "stop", "join"} /\ UNCHANGED stopping
        /\ UNCHANGED <<failures, scheduled, waiting, spawned, added, faults>>
    BY <1>8 DEF StopKillsStarting, StopEndsClient, Stopped, flagVars, bounds
  <2>2. stopping'
    BY <1>1, <2>1 DEF Ended
  <2> QED BY <1>4, <2>1, <2>2
<1>9. CASE UNCHANGED vars
  BY <1>4, <1>9 DEF vars, childVars, flagVars, bounds
<1> QED BY <1>2, <1>3, <1>5, <1>6, <1>7, <1>8, <1>9 DEF OpGoesOn

LEMMA Classified ==
    ASSUME IInv, [Next]_vars
    PROVE  (Quiet \/ Faults \/ Settles \/ Adds) /\ Numbers'
BY StarterDebts, ChildDebts, OtherDebtSteps DEF Next

LEMMA SumIsNatural == ASSUME NEW i \in Nat, NEW j \in Nat, NEW k \in Nat PROVE i + j + k \in Nat
OBVIOUS

\* The account before and after a step, in numbers.
LEMMA PaidStep ==
    ASSUME IInv, [Next]_vars
    PROVE  Paid'
<1>1. /\ IsFiniteSet(Debts) /\ Cardinality(Debts) \in Nat /\ Load \in Nat /\ failures \in Nat
      /\ faults \in Nat /\ added \in Nat
  BY DebtsCount, Scheduling, Counts, Bounds DEF IInv
<1>2. Load' \in Nat /\ failures' \in Nat
  <2>1. spawned' \in Nat /\ waiting' \in Nat /\ failures' \in Nat
    BY Classified DEF Numbers
  <2>2. (IF scheduled' THEN 1 ELSE 0) \in Nat
    OBVIOUS
  <2>3. spawned' + waiting' + (IF scheduled' THEN 1 ELSE 0) \in Nat
    BY <2>1, <2>2, SumIsNatural
  <2> QED BY <2>1, <2>3 DEF Load
<1>3. ASSUME NEW S, IsFiniteSet(S), Debts' \subseteq S
      PROVE  Cardinality(Debts') \in Nat /\ Cardinality(Debts') <= Cardinality(S)
  <2>1. IsFiniteSet(Debts') /\ Cardinality(Debts') <= Cardinality(S)
    BY <1>3, FS_Subset
  <2> QED BY <2>1, FS_CardinalityType
<1>4. PICK l \in Nat, n \in Nat, f \in Nat, x \in Nat, a \in Nat :
          l = Load /\ n = Cardinality(Debts) /\ f = failures /\ x = faults /\ a = added
  BY <1>1
<1>5. l + n <= 1 + x + a /\ f + n <= x
  BY <1>4 DEF IInv, Paid, Load
<1>6. PICK l1 \in Nat, f1 \in Nat : l1 = Load' /\ f1 = failures'
  BY <1>2
<1>7. ASSUME NEW m \in Nat, m = Cardinality(Debts'), NEW x1, NEW a1, x1 = faults', a1 = added',
             l1 + m <= 1 + x1 + a1, f1 + m <= x1
      PROVE  Paid'
  <2>1. Load' + Cardinality(Debts') <= 1 + faults' + added' /\ failures' + Cardinality(Debts') <= faults'
    BY <1>6, <1>7
  <2> QED BY <2>1 DEF Paid, Load
<1>8. CASE Quiet \/ Adds
  <2>1. PICK m \in Nat : m = Cardinality(Debts') /\ m <= n
    BY <1>1, <1>3, <1>4, <1>8 DEF Quiet, Adds
  <2>2. \/ l1 <= l /\ f1 <= f /\ faults' = x /\ added' = a
        \/ l1 <= l + 1 /\ f1 <= f /\ faults' = x /\ added' = a + 1
    BY <1>4, <1>6, <1>8 DEF Quiet, Adds
  <2>3. PICK x1 \in Nat, a1 \in Nat :
            /\ x1 = faults' /\ a1 = added'
            /\ \/ l1 <= l /\ f1 <= f /\ x1 = x /\ a1 = a
               \/ l1 <= l + 1 /\ f1 <= f /\ x1 = x /\ a1 = a + 1
    <3>1. a + 1 \in Nat
      BY <1>4
    <3> QED BY <1>4, <2>2, <3>1
  <2>4. l1 + m <= 1 + x1 + a1 /\ f1 + m <= x1
    BY <1>4, <1>5, <1>6, <2>1, <2>3
  <2> QED BY <1>7, <2>1, <2>3, <2>4
<1>9. CASE Faults
  <2>1. PICK c \in Clients : Debts' \subseteq Debts \cup {c}
    BY <1>9 DEF Faults
  <2>2. /\ IsFiniteSet(Debts \cup {c})
        /\ Cardinality(Debts \cup {c}) = n \/ Cardinality(Debts \cup {c}) = n + 1
    BY <1>1, <1>4, FS_AddElement
  <2>3. PICK m \in Nat : m = Cardinality(Debts') /\ m <= n + 1
    <3>1. PICK k \in Nat : k = Cardinality(Debts \cup {c}) /\ (k = n \/ k = n + 1)
      <4>1. n + 1 \in Nat
        BY <1>4
      <4> QED BY <1>4, <2>2, <4>1
    <3>2. PICK m \in Nat : m = Cardinality(Debts') /\ m <= k
      BY <1>3, <2>1, <2>2, <3>1
    <3>3. m <= n + 1
      BY <1>4, <3>1, <3>2
    <3> QED BY <3>2, <3>3
  <2>4. l1 <= l /\ f1 <= f /\ faults' = x + 1 /\ added' = a
    BY <1>4, <1>6, <1>9 DEF Faults
  <2>5. l1 + m <= 1 + (x + 1) + a /\ f1 + m <= x + 1
    BY <1>4, <1>5, <1>6, <2>3, <2>4
  <2> QED BY <1>7, <2>3, <2>4, <2>5
<1>10. CASE Settles
  <2>1. PICK c \in Debts : Debts' \subseteq Debts \ {c}
    BY <1>10 DEF Settles
  <2>2. IsFiniteSet(Debts \ {c}) /\ Cardinality(Debts \ {c}) = n - 1
    BY <1>1, <1>4, <2>1, FS_RemoveElement
  <2>3. PICK m \in Nat : m = Cardinality(Debts') /\ m <= n - 1
    BY <1>3, <2>1, <2>2
  <2>4. l1 <= l + 1 /\ f1 <= f + 1 /\ faults' = x /\ added' = a
    BY <1>4, <1>6, <1>10 DEF Settles
  <2>5. l1 + m <= 1 + x + a /\ f1 + m <= x
    BY <1>4, <1>5, <1>6, <2>3, <2>4
  <2> QED BY <1>4, <1>7, <2>3, <2>4, <2>5
<1> QED BY <1>8, <1>9, <1>10, Classified

\* What is paid for is bounded.
LEMMA CountsStep ==
    ASSUME IInv, [Next]_vars
    PROVE  /\ spawned' \in {0} \cup Clients /\ waiting' \in 0..Cardinality(Clients)
           /\ failures' \in 0..MaxFaults
<1>1. spawned' \in Nat /\ waiting' \in Nat /\ failures' \in Nat
  BY Classified DEF Numbers
<1>2. faults' \in 0..MaxFaults /\ added' \in 0..MaxAdds
  BY FlagsTyped
<1>3. Cardinality(Debts)' \in Nat
  BY DebtsCount, Bounds, FS_Subset, FS_CardinalityType DEF Debts
<1>4. (IF scheduled' THEN 1 ELSE 0) \in Nat
  OBVIOUS
<1>5. /\ spawned' + waiting' + (IF scheduled' THEN 1 ELSE 0) + Cardinality(Debts)' <= 1 + faults' + added'
      /\ failures' + Cardinality(Debts)' <= faults'
  BY PaidStep DEF Paid
<1>6. /\ spawned' <= 1 + MaxFaults + MaxAdds /\ waiting' <= 1 + MaxFaults + MaxAdds
      /\ failures' <= MaxFaults
  BY <1>1, <1>2, <1>3, <1>4, <1>5, Bounds
<1> QED BY <1>1, <1>6, Bounds DEF Clients

LEMMA InitIInv == Init => IInv
<1> SUFFICES ASSUME Init PROVE IInv
  OBVIOUS
<1>1. op \in OpT /\ op.pc = "start" /\ starter \in StarterT /\ starter.pc = "free"
  <2>1. op = [Rest EXCEPT !.pc = "start"] /\ starter = Free
    BY DEF Init
  <2> QED BY <2>1, RestIs, OpFields, FreeIs DEF OpPcs
<1>2. Marks
  BY <1>1 DEF Init, Marks, Ended
<1>3. Debts = {}
  BY <1>1 DEF Init, Debts, Owes
<1>4. Paid
  <2>1. Cardinality(Debts) = 0
    BY <1>3, FS_EmptySet
  <2>2. spawned = 0 /\ waiting = 1 /\ ~scheduled /\ failures = 0 /\ faults = 0 /\ added = 0
    BY DEF Init
  <2> QED BY <2>1, <2>2 DEF Paid
<1>5. /\ inbox \in [Clients -> Seq(Line)] /\ table \in [Clients -> SUBSET Indexes]
      /\ child \in [Clients -> {"none", "booting", "up", "dead"}] /\ heard \in [Clients -> BOOLEAN]
      /\ reader \in [Clients -> {"none", "reading", "ended"}]
  <2>1. <<>> \in Seq(Line)
    BY EmptySeq
  <2> QED BY <2>1 DEF Init
<1>6. waiting \in 0..Cardinality(Clients)
  BY Bounds DEF Init
<1>7. starter \in StarterT /\ op \in OpT
  BY <1>1
<1>8. /\ spawned \in {0} \cup Clients
      /\ client \in Clients \cup {None} /\ starting \in Clients \cup {None}
      /\ stopping \in BOOLEAN /\ failures \in 0..MaxFaults
      /\ scheduled \in BOOLEAN /\ failed \in BOOLEAN /\ helloSeen \in BOOLEAN
      /\ active \subseteq Indexes /\ contexts \subseteq Indexes /\ reported \subseteq Indexes
      /\ late \in 0..MaxAdds
      /\ added \in 0..MaxAdds /\ removes \in 0..MaxRemoves /\ faults \in 0..MaxFaults
  <2>1. /\ client = None /\ starting = None /\ ~stopping /\ ~scheduled /\ ~failed /\ ~helloSeen
        /\ spawned = 0 /\ failures = 0 /\ added = 0 /\ removes = 0 /\ faults = 0
        /\ active = {} /\ contexts = {} /\ reported = {} /\ late = 0
    BY DEF Init
  <2>2. stopping \in BOOLEAN /\ scheduled \in BOOLEAN /\ failed \in BOOLEAN /\ helloSeen \in BOOLEAN
    BY Zenon DEF Init
  <2> QED BY <2>1, <2>2, Bounds
<1>9. TypeOK
  BY <1>5, <1>6, <1>7, <1>8 DEF TypeOK, StarterT, OpT, StarterPcs, OpPcs, Line
<1> QED BY <1>2, <1>4, <1>9 DEF IInv

LEMMA IInvStep == IInv /\ [Next]_vars => IInv'
<1> SUFFICES ASSUME IInv, [Next]_vars PROVE IInv'
  OBVIOUS
<1>1. /\ child' \in [Clients -> {"none", "booting", "up", "dead"}]
      /\ heard' \in [Clients -> BOOLEAN]
      /\ reader' \in [Clients -> {"none", "reading", "ended"}]
      /\ table' \in [Clients -> SUBSET Indexes] /\ inbox' \in [Clients -> Seq(Line)]
  BY ChildTyped, InboxTyped
<1>2. starter' \in StarterT /\ op' \in OpT
  BY StarterTyped, OpTyped
<1>3. late' \in 0..MaxAdds
  <2>1. added' \in 0..MaxAdds
    BY FlagsTyped
  <2> QED BY <2>1, LateCounted, Bounds
<1>4. TypeOK'
  BY <1>1, <1>2, <1>3, FlagsTyped, CountsStep DEF TypeOK, StarterT, OpT, StarterPcs, OpPcs, Line
<1> QED BY <1>4, MarksStep, PaidStep DEF IInv

\* Every variable of a shard keeps its type, whatever dies and whenever streams are
\* added: shard.py never runs out of clients it counts on, and the failures it counts
\* (_start_failures) are no more than there were.
THEOREM TypeCorrect == Spec => []TypeOK
<1>1. IInv => TypeOK
  BY DEF IInv
<1> QED BY InitIInv, IInvStep, <1>1, PTL DEF Spec
-----------------------------------------------------------------------------
(* One runtime at a time                                                   *)

\* Who is busy is not changed by a step of the others.
LEMMA SameBusy ==
    ASSUME NEW c \in Clients, Busy(c)', child'[c] = child[c], heard'[c] = heard[c],
           reader'[c] = reader[c], stopping => stopping',
           starter'.pc \in {"hello", "reap", "spawn"} =>
               /\ starter'.cl = starter.cl
               /\ starter'.pc = "spawn" <=> starter.pc = "spawn"
               /\ starter'.pc \in {"hello", "reap"} => starter.pc \in {"hello", "reap"}
    PROVE  Busy(c)
BY DEF Busy, Owes, Runs

\* Nobody gets busy but by taking the lock.
LEMMA StillBusy ==
    ASSUME IInv, [Next]_vars, ~TakeLock, NEW c \in Clients, Busy(c)'
    PROVE  Busy(c)
<1>1. /\ starter.pc # "free" => starter.cl \in Clients
      /\ starter \in StarterT /\ op \in OpT /\ (stopping <=> op.pc \in Ended)
      /\ child \in [Clients -> {"none", "booting", "up", "dead"}] /\ heard \in [Clients -> BOOLEAN]
      /\ reader \in [Clients -> {"none", "reading", "ended"}]
  BY Typed DEF IInv, Marks
<1>2. Runs(c) => Busy(c)
  BY DEF Busy
<1>3. CASE Spawn \/ HelloFails
  <2>1. PICK pc \in {"hello", "reap"}, v \in {"booting", "dead"} :
            /\ starter.pc # "free" /\ child' = [child EXCEPT ![starter.cl] = v]
            /\ starter' = [starter EXCEPT !.pc = pc] /\ UNCHANGED <<heard, stopping>>
            /\ reader' = [reader EXCEPT ![starter.cl] = "reading"] \/ UNCHANGED reader
            /\ \/ starter.pc = "spawn" /\ pc = "hello" /\ v = "booting"
               \/ starter.pc = "hello" /\ pc = "reap" /\ v = "dead"
    BY <1>3 DEF Spawn, HelloFails
  <2>2. starter'.pc = pc /\ starter'.cl = starter.cl
    BY <1>1, <2>1, StarterFields DEF StarterPcs
  <2>3. CASE c # starter.cl
    <3>1. child'[c] = child[c] /\ reader'[c] = reader[c]
      BY <1>1, <2>1, <2>3
    <3>2. CASE Runs(c)
      BY <1>2, <3>2
    <3>3. CASE ~Runs(c)
      BY <2>1, <2>2, <2>3, <3>1, <3>3 DEF Busy, Owes, Runs
    <3> QED BY <3>2, <3>3
  <2>4. CASE c = starter.cl /\ starter.pc = "spawn"
    BY <2>4 DEF Busy
  <2>5. CASE c = starter.cl /\ starter.pc = "hello"
    <3>1. child[c] # "none" /\ child'[c] = "dead"
      BY <1>1, <2>1, <2>5 DEF IInv, Marks
    <3>2. ~heard[c]
      BY <1>3, <2>5 DEF Spawn, HelloFails
    <3>3. ~stopping'
      BY <2>2, <2>1, <2>5, <3>1 DEF Busy, Owes, Runs
    <3>4. ~stopping
      BY <2>1, <3>3
    <3>5. Runs(c) \/ child[c] = "dead"
      BY <1>1, <3>1 DEF Runs
    <3> QED BY <2>5, <3>2, <3>4, <3>5 DEF Busy, Owes
  <2> QED BY <2>1, <2>3, <2>4, <2>5
<1>4. CASE Install
  <2>1. /\ starter.pc = "install"
        /\ \E pc \in {"announce", "discard"} : starter' = [starter EXCEPT !.pc = pc]
        /\ UNCHANGED child \/ (stopping /\ child' = [child EXCEPT ![starter.cl] = "dead"])
        /\ UNCHANGED <<heard, reader, stopping>>
    BY <1>4 DEF Install, MayInstall
  <2>2. starter'.pc \notin {"hello", "reap", "spawn"}
    BY <1>1, <2>1 DEF StarterT
  <2>3. CASE UNCHANGED child
    BY <2>1, <2>2, <2>3, SameBusy
  <2>4. CASE stopping /\ child' = [child EXCEPT ![starter.cl] = "dead"]
    <3>1. child'[c] \in {"dead", child[c]}
      BY <1>1, <2>4
    <3> QED BY <2>1, <2>2, <2>4, <3>1 DEF Busy, Owes, Runs
  <2> QED BY <2>1, <2>3, <2>4
<1>5. CASE SpawnFails \/ HelloArrives \/ RefusedEnds \/ StartFailed \/ Discarded \/ Announce \/ Replay \/ Replayed
  <2>1. /\ UNCHANGED <<child, heard, reader>> /\ (UNCHANGED stopping \/ stopping' = TRUE)
        /\ \/ starter' = Free
           \/ starter' = [starter EXCEPT !.pc = "install"]
           \/ \E todo : starter' = [starter EXCEPT !.pc = "replay", !.todo = todo]
           \/ \E todo : starter' = [starter EXCEPT !.pc = "replay", !.todo = todo, !.got = "none"]
           \/ starter' = [starter EXCEPT !.pc = "asked", !.got = "none"]
    BY <1>5 DEF SpawnFails, HelloArrives, RefusedEnds, Raises, Stops, StartFailed, Discarded, Announce, Replay, Replayed, NextReplayed,
                AfterRefusal, childVars
  <2>2. starter'.pc \notin {"hello", "reap", "spawn"}
    BY <1>1, <2>1, FreeIs DEF StarterT
  <2>3. stopping => stopping'
    BY <2>1
  <2>4. child'[c] = child[c] /\ heard'[c] = heard[c] /\ reader'[c] = reader[c]
    BY <2>1
  <2> QED BY <2>2, <2>3, <2>4, SameBusy
<1>6. ASSUME NEW d \in Clients, Runs(d), NEW v \in {"up", "dead"}, child' = [child EXCEPT ![d] = v],
             UNCHANGED <<reader, starter, stopping>>,
             UNCHANGED heard \/ heard' = [heard EXCEPT ![d] = TRUE]
      PROVE  Busy(c)
  <2>1. CASE c = d
    BY <1>2, <1>6, <2>1
  <2>2. CASE c # d
    <3>1. child'[c] = child[c] /\ heard'[c] = heard[c]
      BY <1>1, <1>6, <2>2
    <3> QED BY <1>6, <3>1, SameBusy
  <2> QED BY <2>1, <2>2
<1>7. ASSUME NEW d \in Clients, ChildSaysHello(d) \/ ChildDies(d)
      PROVE  Busy(c)
  BY <1>6, <1>7 DEF ChildSaysHello, ChildDies, Runs
<1>8. ASSUME NEW got \in Answers
      PROVE  [starter EXCEPT !.got = got].pc = starter.pc /\ [starter EXCEPT !.got = got].cl = starter.cl
  BY <1>1 DEF StarterT
<1>9. ASSUME UNCHANGED starter \/ \E got \in Answers : starter' = [starter EXCEPT !.got = got]
      PROVE  starter'.pc = starter.pc /\ starter'.cl = starter.cl
  <2>1. CASE UNCHANGED starter
    BY <2>1
  <2>2. ASSUME NEW got \in Answers, starter' = [starter EXCEPT !.got = got]
        PROVE  starter'.pc = starter.pc /\ starter'.cl = starter.cl
    BY <1>8, <2>2
  <2> QED BY <1>9, <2>1, <2>2
<1>10. ASSUME NEW d \in Clients, ChildAnswers(d)
       PROVE  Busy(c)
  <2>1. /\ UNCHANGED <<child, heard, reader, stopping>>
        /\ UNCHANGED starter \/ \E got \in Answers : starter' = [starter EXCEPT !.got = got]
    BY <1>10 DEF ChildAnswers, Reply, Answers
  <2> QED BY <1>9, <2>1, SameBusy
<1>11. ASSUME NEW d \in Clients, ReaderEnds(d)
       PROVE  Busy(c)
  <2>1. /\ reader[d] = "reading" /\ child[d] = "dead" /\ reader' = [reader EXCEPT ![d] = "ended"]
        /\ UNCHANGED <<child, heard, stopping>>
        /\ UNCHANGED starter \/ \E got \in Answers : starter' = [starter EXCEPT !.got = got]
    BY <1>11 DEF ReaderEnds, Answers
  <2>2. starter'.pc = starter.pc /\ starter'.cl = starter.cl
    BY <1>9, <2>1
  <2>3. CASE reader'[c] = reader[c]
    BY <2>1, <2>2, <2>3, SameBusy
  <2>4. CASE reader'[c] # reader[c]
    <3>1. c = d /\ reader'[c] = "ended"
      BY <1>1, <2>1, <2>4
    <3> QED BY <2>1, <2>2, <3>1 DEF Busy, Owes, Runs
  <2> QED BY <2>3, <2>4
<1>12. CASE StopKillsStarting \/ StopEndsClient
  <2>1. /\ UNCHANGED <<heard, reader, starter, stopping>>
        /\ UNCHANGED child \/ \E d \in Clients : Kills(d)
    BY <1>1, <1>12 DEF StopKillsStarting, StopEndsClient, OpT
  <2>2. CASE UNCHANGED child
    BY <2>1, <2>2, SameBusy
  <2>3. ASSUME NEW d \in Clients, Kills(d)
        PROVE  Busy(c)
    <3>1. child' = child \/ (Runs(d) /\ child' = [child EXCEPT ![d] = "dead"])
      BY <1>1, <2>3 DEF Kills
    <3> QED BY <1>6, <2>1, <2>2, <3>1
  <2> QED BY <2>1, <2>2, <2>3
<1>13. CASE BackoffOver \/ AddBegins \/ (\E i \in Indexes : RemoveBegins(i) \/ Forget(i)) \/ StopBegins
            \/ Started \/ Asks \/ AddEnds \/ RemoveEnds \/ Stopped \/ UNCHANGED vars
  <2>1. UNCHANGED <<child, heard, reader, starter>> /\ (UNCHANGED stopping \/ stopping' = TRUE)
    BY <1>13 DEF BackoffOver, AddBegins, RemoveBegins, Forget, StopBegins, Stops, Started, Asks, AddEnds, RemoveEnds,
                Stopped, childVars, vars
  <2> QED BY <2>1, SameBusy
<1>14. CASE VersionRefused
  <2>1. /\ starter.pc = "hello" /\ child' = [child EXCEPT ![starter.cl] = "dead"]
        /\ starter' = [starter EXCEPT !.pc = "refused"] /\ UNCHANGED <<heard, reader, stopping>>
    BY <1>14 DEF VersionRefused
  <2>2. starter'.pc = "refused" /\ starter.cl \in Clients
    BY <1>1, <2>1, StarterFields DEF StarterPcs
  <2>3. CASE c # starter.cl
    <3>1. child'[c] = child[c]
      BY <1>1, <2>1, <2>3
    <3> QED BY <2>1, <2>2, <3>1, SameBusy
  <2>4. CASE c = starter.cl
    <3>1. child[c] # "none" /\ child'[c] = "dead"
      BY <1>1, <2>1, <2>4 DEF IInv, Marks
    <3>2. ~stopping /\ heard[c] /\ reader[c] = "reading"
      BY <2>1, <2>2, <3>1 DEF Busy, Owes, Runs
    <3>3. Runs(c) \/ child[c] = "dead"
      BY <1>1, <3>1 DEF Runs
    <3> QED BY <3>2, <3>3 DEF Busy, Owes
  <2> QED BY <2>3, <2>4
<1> QED BY <1>3, <1>4, <1>5, <1>7, <1>10, <1>11, <1>12, <1>13, <1>14 DEF Next, StarterRuns, OpGoesOn

\* What a step does to the busy clients and to the restarts that are planned: nothing,
\* the end of one, the start of the next, an add that finds nothing, a late add.
Keeps    == /\ Busies' \subseteq Busies /\ Planned' = Planned /\ UNCHANGED late
            /\ Unattended' => Unattended \/ \E c \in Busies : Busies' \subseteq Busies \ {c}
Ends     == /\ \E c \in Busies : Busies' \subseteq Busies \ {c}
            /\ Planned' <= Planned + 1 /\ UNCHANGED late
Begins   == /\ \E c \in Clients : Busies' \subseteq Busies \cup {c}
            /\ Planned' = Planned - 1 /\ UNCHANGED late /\ ~Unattended'
Recalls  == /\ Busies' \subseteq Busies /\ Planned' = Planned + 1 /\ UNCHANGED late
            /\ Unattended /\ ~Unattended'
AddsLate == Busies' \subseteq Busies /\ Planned' <= Planned + 1 /\ late' = late + 1

LEMMA Plans ==
    ASSUME IInv
    PROVE  /\ Planned \in Nat
           /\ UNCHANGED <<waiting, scheduled>> => Planned' = Planned
           /\ ScheduleRestart => /\ Planned' = Planned \/ (Planned' = Planned + 1 /\ ~scheduled)
                                 /\ ~stopping => Planned' > 0
           /\ \A n : GiveUpOrRestart(n) => Planned' <= Planned + 1
<1>1. waiting \in Nat /\ scheduled \in BOOLEAN /\ stopping \in BOOLEAN
  BY Counts DEF IInv, TypeOK
<1>2. ASSUME UNCHANGED <<waiting, scheduled>>
      PROVE  Planned' = Planned
  <2>1. (IF scheduled' THEN 1 ELSE 0) = (IF scheduled THEN 1 ELSE 0)
    BY <1>2
  <2> QED BY <1>2, <2>1 DEF Planned
<1>3. (IF scheduled THEN 1 ELSE 0) \in 0..1 /\ (IF scheduled' THEN 1 ELSE 0) \in 0..1
  OBVIOUS
<1>4. Planned \in Nat
  BY <1>1, <1>3 DEF Planned
<1>5. ASSUME ScheduleRestart
      PROVE  /\ Planned' = Planned \/ (Planned' = Planned + 1 /\ ~scheduled)
             /\ ~stopping => Planned' > 0
  <2>1. UNCHANGED waiting /\ scheduled' = (scheduled \/ ~stopping)
    BY <1>5 DEF ScheduleRestart
  <2>2. CASE scheduled
    <3>1. scheduled' = scheduled
      BY <1>1, <2>1, <2>2
    <3>2. (IF scheduled THEN 1 ELSE 0) = 1 /\ Planned' = Planned
      BY <1>2, <2>1, <2>2, <3>1
    <3> QED BY <1>1, <3>2 DEF Planned
  <2>3. CASE ~scheduled /\ ~stopping
    <3>1. scheduled'
      BY <2>1, <2>3
    <3>2. (IF scheduled THEN 1 ELSE 0) = 0 /\ (IF scheduled' THEN 1 ELSE 0) = 1
      BY <2>3, <3>1
    <3> QED BY <1>1, <2>1, <2>3, <3>2 DEF Planned
  <2>4. CASE ~scheduled /\ stopping
    <3>1. scheduled' = scheduled
      BY <1>1, <2>1, <2>4
    <3> QED BY <1>2, <2>1, <2>4, <3>1
  <2> QED BY <2>2, <2>3, <2>4
<1>6. ASSUME NEW n, GiveUpOrRestart(n)
      PROVE  Planned' <= Planned + 1
  <2>1. ScheduleRestart \/ UNCHANGED <<waiting, scheduled>>
    BY <1>6 DEF GiveUpOrRestart
  <2> QED BY <1>2, <1>4, <1>5, <2>1
<1> QED BY <1>2, <1>4, <1>5, <1>6

\* Nothing is planned and, unless the shard is attended to, the attempt under way goes
\* on, or its client is no longer busy.
LEMMA KeepsIf ==
    ASSUME IInv, [Next]_vars, ~TakeLock, UNCHANGED <<waiting, scheduled, late>>,
           \/ stopping' \/ client' # None
           \/ /\ UNCHANGED <<client, stopping>>
              /\ starter.pc \in Attempt =>
                    \/ starter'.pc \in Attempt /\ starter'.cl = starter.cl
                    \/ \A c \in Clients : c = starter.cl => ~Busy(c)'
    PROVE  Keeps
<1>1. Busies' \subseteq Busies
  BY StillBusy DEF Busies
<1>2. Planned' = Planned
  BY Plans
<1>3. ASSUME Unattended', ~Unattended
      PROVE  \E c \in Busies : Busies' \subseteq Busies \ {c}
  <2>1. ~stopping' /\ client' = None /\ Planned' = 0 /\ ~(starter'.pc \in Attempt /\ Busy(starter.cl)')
    BY <1>3 DEF Unattended
  <2>2. ~stopping /\ client = None /\ Planned = 0
    BY <1>2, <2>1
  <2>3. starter.pc \in Attempt /\ Busy(starter.cl)
    BY <1>3, <2>2 DEF Unattended
  <2>4. PICK c \in Clients : c = starter.cl
    BY <2>3 DEF IInv, Marks, Attempt
  <2>5. c \in Busies
    BY <2>3, <2>4 DEF Busies
  <2>6. ~Busy(c)'
    <3>1. CASE starter'.pc \in Attempt /\ starter'.cl = starter.cl
      BY <2>1, <2>4, <3>1 DEF Busy, Owes, Runs
    <3>2. CASE \A d \in Clients : d = starter.cl => ~Busy(d)'
      BY <2>4, <3>2
    <3> QED BY <2>1, <2>3, <3>1, <3>2
  <2> QED BY <1>1, <2>5, <2>6 DEF Busies
<1> QED BY <1>1, <1>2, <1>3 DEF Keeps

\* The end of a busy client is dealt with.
LEMMA EndsIf ==
    ASSUME IInv, [Next]_vars, ~TakeLock, UNCHANGED late,
           ScheduleRestart \/ \E n : GiveUpOrRestart(n),
           NEW c \in Clients, Owes(c), ~Busy(c)'
    PROVE  Ends
<1>1. Busies' \subseteq Busies
  BY StillBusy DEF Busies
<1>2. c \in Busies /\ Busies' \subseteq Busies \ {c}
  BY <1>1 DEF Busies, Busy
<1>3. Planned' <= Planned + 1
  BY Plans
<1> QED BY <1>2, <1>3 DEF Ends

LEMMA StarterSteps ==
    ASSUME IInv, StarterRuns, ~TakeLock
    PROVE  Keeps \/ Ends
<1>1. /\ starter.pc # "free" => starter.cl \in Clients
      /\ starter.pc = "spawn" => child[starter.cl] = "none"
      /\ starter.pc = "reap" => child[starter.cl] = "dead" /\ ~heard[starter.cl]
      /\ starter.pc = "refused" => child[starter.cl] = "dead"
      /\ starter \in StarterT /\ None \notin Clients
  BY Typed, Bounds DEF IInv, Marks
<1>2. [Next]_vars
  BY DEF Next
<1>3. CASE Spawn \/ HelloArrives \/ HelloFails \/ VersionRefused
  <2>1. PICK pc \in {"hello", "install", "reap", "refused"} :
            /\ starter' = [starter EXCEPT !.pc = pc]
            /\ UNCHANGED <<waiting, scheduled, late, client, stopping>>
    BY <1>3 DEF Spawn, HelloArrives, HelloFails, VersionRefused, flagVars, bounds
  <2>2. starter'.pc = pc /\ starter'.cl = starter.cl
    BY <1>1, <2>1, StarterFields DEF StarterPcs
  <2>3. starter'.pc \in Attempt
    BY <2>2 DEF Attempt
  <2> QED BY <1>2, <2>1, <2>2, <2>3, KeepsIf
<1>4. CASE Install
  <2>1. /\ UNCHANGED <<waiting, scheduled, late, stopping>> /\ starter.pc = "install"
        /\ ~stopping => client' = starter.cl
    BY <1>4 DEF Install, MayInstall, bounds
  <2>2. stopping' \/ client' # None
    BY <1>1, <2>1
  <2> QED BY <1>2, <2>1, <2>2, KeepsIf
<1>5. CASE SpawnFails \/ RefusedEnds
  <2>1. /\ UNCHANGED <<child, reader, heard, waiting, scheduled, late, client>> /\ starter' = Free
        /\ stopping' = TRUE \/ UNCHANGED stopping
        /\ starter.pc = "spawn" \/ (starter.pc = "refused" /\ reader[starter.cl] = "ended")
    BY <1>5 DEF SpawnFails, RefusedEnds, Raises, Stops, childVars, flagVars, bounds
  <2>2. ASSUME NEW c \in Clients, c = starter.cl PROVE ~Busy(c)'
    <3>1. child'[c] \in {"none", "dead"} /\ (child'[c] = "dead" => reader'[c] = "ended")
      BY <1>1, <2>1, <2>2
    <3> QED BY <2>1, <3>1, FreeIs DEF Busy, Owes, Runs
  <2> QED BY <1>2, <2>1, <2>2, KeepsIf
<1>6. CASE StartFailed
  <2>1. /\ starter.pc = "reap" /\ starter' = Free /\ UNCHANGED <<child, heard, stopping, late>>
        /\ IF stopping THEN UNCHANGED <<scheduled, waiting>> ELSE GiveUpOrRestart(failures + 1)
    BY <1>6 DEF StartFailed, childVars, bounds
  <2>2. CASE stopping
    BY <1>2, <2>1, <2>2, KeepsIf
  <2>3. CASE ~stopping
    <3>1. PICK c \in Clients : c = starter.cl
      BY <1>1, <2>1
    <3>2. Owes(c)
      BY <1>1, <2>1, <2>3, <3>1 DEF Owes
    <3>3. ~Busy(c)'
      BY <1>1, <2>1, <3>1, FreeIs DEF Busy, Owes, Runs
    <3> QED BY <1>2, <2>1, <2>3, <3>2, <3>3, EndsIf
  <2> QED BY <2>2, <2>3
<1>7. CASE Discarded \/ Announce \/ Replay \/ Replayed
  <2>1. /\ UNCHANGED <<waiting, scheduled, late, stopping, client>>
        /\ starter.pc \in {"discard", "announce", "replay", "asked"}
    BY <1>7 DEF Discarded, Announce, Replay, Replayed, flagVars, bounds
  <2>2. starter.pc \notin Attempt
    BY <2>1 DEF Attempt
  <2> QED BY <1>2, <2>1, <2>2, KeepsIf
<1> QED BY <1>3, <1>4, <1>5, <1>6, <1>7 DEF StarterRuns

LEMMA ChildSteps ==
    ASSUME IInv, NEW c \in Clients,
           ChildSaysHello(c) \/ ChildDies(c) \/ ChildAnswers(c) \/ ReaderEnds(c), ~TakeLock
    PROVE  Keeps \/ Ends
<1>1. /\ starter \in StarterT /\ reader \in [Clients -> {"none", "reading", "ended"}]
      /\ starter.pc = "spawn" => child[starter.cl] = "none"
  BY Typed DEF IInv, Marks
<1>2. [Next]_vars
  BY DEF Next
<1>3. ASSUME NEW got \in Answers
      PROVE  [starter EXCEPT !.got = got].pc = starter.pc /\ [starter EXCEPT !.got = got].cl = starter.cl
  BY <1>1 DEF StarterT
<1>4. starter'.pc = starter.pc /\ starter'.cl = starter.cl
  <2>1. UNCHANGED starter \/ \E got \in Answers : starter' = [starter EXCEPT !.got = got]
    BY DEF ChildSaysHello, ChildDies, ChildAnswers, ReaderEnds, Reply, Answers
  <2>2. ASSUME NEW got \in Answers, starter' = [starter EXCEPT !.got = got]
        PROVE  starter'.pc = starter.pc /\ starter'.cl = starter.cl
    BY <1>3, <2>2
  <2> QED BY <2>1, <2>2
<1>5. CASE ChildSaysHello(c) \/ ChildDies(c) \/ ChildAnswers(c)
  <2>1. UNCHANGED <<waiting, scheduled, late, stopping, client>>
    BY <1>5 DEF ChildSaysHello, ChildDies, ChildAnswers, flagVars, bounds
  <2> QED BY <1>2, <1>4, <2>1, KeepsIf
<1>6. CASE ReaderEnds(c)
  <2>1. /\ reader[c] = "reading" /\ child[c] = "dead" /\ reader' = [reader EXCEPT ![c] = "ended"]
        /\ UNCHANGED <<child, heard, stopping, late>>
    BY <1>6 DEF ReaderEnds, bounds
  <2>2. /\ stopping \/ ~heard[c] => UNCHANGED <<client, scheduled, waiting>>
        /\ ~stopping /\ heard[c] => ScheduleRestart \/ GiveUpOrRestart(failures + 1)
    BY <1>6 DEF ReaderEnds, ReportsExit
  <2>3. CASE stopping \/ ~heard[c]
    BY <1>2, <1>4, <2>1, <2>2, <2>3, KeepsIf
  <2>4. CASE ~stopping /\ heard[c]
    <3>1. Owes(c)
      BY <2>1, <2>4 DEF Owes
    <3>2. reader'[c] = "ended"
      BY <1>1, <2>1
    <3>3. starter.pc = "spawn" => starter.cl # c
      BY <1>1, <2>1
    <3>4. ~Busy(c)'
      BY <1>4, <2>1, <2>4, <3>2, <3>3 DEF Busy, Owes, Runs
    <3> QED BY <1>2, <2>1, <2>2, <2>4, <3>1, <3>4, EndsIf
  <2> QED BY <2>3, <2>4
<1> QED BY <1>5, <1>6

\* An add that finds no client schedules a restart; during an attempt it is late.
LEMMA AddSteps ==
    ASSUME IInv, AddBegins, ~TakeLock
    PROVE  Keeps \/ Recalls \/ AddsLate
<1>1. waiting \in Nat /\ (stopping <=> op.pc \in Ended) /\ late \in Nat
  BY Counts DEF IInv, Marks
<1>2. /\ op.pc = "idle" /\ UNCHANGED <<stopping, client, starter>>
      /\ late' = IF client = None /\ AttemptUnderWay THEN late + 1 ELSE late
      /\ client = None => ScheduleRestart
      /\ client # None => UNCHANGED <<scheduled, waiting>>
  BY DEF AddBegins
<1>3. ~stopping
  BY <1>1, <1>2 DEF Ended
<1>4. Busies' \subseteq Busies /\ [Next]_vars
  BY StillBusy DEF Busies, Next
<1>5. CASE client # None
  BY <1>2, <1>4, <1>5, KeepsIf
<1>6. CASE client = None /\ AttemptUnderWay
  <2>1. Planned' <= Planned + 1
    BY <1>2, <1>6, Plans
  <2> QED BY <1>2, <1>4, <1>6, <2>1 DEF AddsLate
<1>7. CASE client = None /\ ~AttemptUnderWay
  <2>1. Planned' = Planned \/ (Planned' = Planned + 1 /\ ~scheduled)
    BY <1>2, <1>7, Plans
  <2>2. ~Unattended' /\ UNCHANGED late
    <3>1. Planned' > 0
      BY <1>2, <1>3, <1>7, Plans
    <3> QED BY <1>2, <1>7, <3>1 DEF Unattended
  <2>3. CASE Planned' = Planned
    BY <1>4, <2>2, <2>3 DEF Keeps
  <2>4. CASE Planned' = Planned + 1 /\ ~scheduled
    <3>1. waiting = 0 /\ starter.pc = "free"
      BY <1>1, <1>7 DEF AttemptUnderWay
    <3>2. Planned = 0 /\ starter.pc \notin Attempt
      BY <2>4, <3>1 DEF Planned, Attempt
    <3>3. Unattended
      BY <1>3, <1>7, <3>2 DEF Unattended
    <3> QED BY <1>4, <2>2, <2>4, <3>3 DEF Recalls
  <2> QED BY <2>1, <2>3, <2>4
<1> QED BY <1>5, <1>6, <1>7

LEMMA LockSteps ==
    ASSUME IInv, TakeLock
    PROVE  Begins
<1>1. waiting \in Nat /\ spawned \in Nat
  BY Counts DEF IInv
<1>2. /\ waiting > 0 /\ waiting' = waiting - 1 /\ starter.pc = "free"
      /\ UNCHANGED <<child, heard, reader, stopping, scheduled, late>>
  BY DEF TakeLock, childVars, flagVars
<1>3. PICK n \in Clients : n = spawned + 1
  BY <1>2, Room
<1>4. Planned' = Planned - 1
  <2>1. (IF scheduled' THEN 1 ELSE 0) = (IF scheduled THEN 1 ELSE 0) /\ (IF scheduled THEN 1 ELSE 0) \in Nat
    BY <1>2
  <2> QED BY <1>1, <1>2, <2>1 DEF Planned
<1>5. CASE stopping
  <2>1. UNCHANGED starter
    BY <1>5 DEF TakeLock
  <2>2. Busies' \subseteq Busies
    BY <1>2, <2>1 DEF Busies, Busy, Owes, Runs
  <2>3. ~Unattended'
    BY <1>2, <1>5 DEF Unattended
  <2> QED BY <1>2, <1>3, <1>4, <2>2, <2>3 DEF Begins
<1>6. CASE ~stopping
  <2>1. starter' = [Free EXCEPT !.pc = "spawn", !.cl = spawned + 1]
    BY <1>6 DEF TakeLock
  <2>2. starter'.pc = "spawn" /\ starter'.cl = n
    BY <1>3, <2>1 DEF Free
  <2>3. ASSUME NEW c \in Clients, c # n, Busy(c)'
        PROVE  Busy(c)
    BY <1>2, <2>2, <2>3 DEF Busy, Owes, Runs
  <2>4. Busies' \subseteq Busies \cup {n}
    BY <2>3 DEF Busies
  <2>5. ~Unattended'
    BY <2>2 DEF Unattended, Attempt, Busy
  <2> QED BY <1>2, <1>3, <1>4, <2>4, <2>5 DEF Begins
<1> QED BY <1>5, <1>6

LEMMA OtherSteps ==
    ASSUME IInv, ~TakeLock,
           \/ BackoffOver \/ (\E i \in Indexes : RemoveBegins(i) \/ Forget(i))
           \/ StopBegins \/ OpGoesOn \/ UNCHANGED vars
    PROVE  Keeps
<1>1. waiting \in Nat /\ (stopping <=> op.pc \in Ended)
  BY Counts DEF IInv, Marks
<1>2. [Next]_vars
  BY DEF Next
<1>3. CASE BackoffOver
  <2>1. scheduled /\ ~scheduled' /\ waiting' = waiting + 1 /\ UNCHANGED late
    BY <1>3 DEF BackoffOver, bounds
  <2>2. (IF scheduled THEN 1 ELSE 0) = 1 /\ (IF scheduled' THEN 1 ELSE 0) = 0
    BY <2>1
  <2>3. Planned' = Planned /\ Planned' # 0
    BY <1>1, <2>1, <2>2 DEF Planned
  <2>4. Busies' \subseteq Busies
    BY <1>2, StillBusy DEF Busies
  <2> QED BY <2>1, <2>3, <2>4 DEF Keeps, Unattended
<1>4. CASE (\E i \in Indexes : RemoveBegins(i) \/ Forget(i)) \/ Started \/ Asks \/ AddEnds \/ RemoveEnds
           \/ UNCHANGED vars
  <2>1. UNCHANGED <<waiting, scheduled, late, stopping, client, starter>>
    BY <1>4 DEF RemoveBegins, Forget, Started, Asks, AddEnds, RemoveEnds, flagVars, bounds, vars
  <2> QED BY <1>2, <2>1, KeepsIf
<1>5. CASE StopBegins \/ StopKillsStarting \/ StopEndsClient \/ Stopped
  <2>1. /\ UNCHANGED <<waiting, scheduled, late>>
        /\ stopping' = TRUE \/ (UNCHANGED stopping /\ op.pc \in {"kill", "stop", "join"})
    BY <1>5 DEF StopBegins, Stops, StopKillsStarting, StopEndsClient, Stopped, flagVars, bounds
  <2>2. stopping'
    BY <1>1, <2>1 DEF Ended
  <2> QED BY <1>2, <2>1, <2>2, KeepsIf
<1> QED BY <1>3, <1>4, <1>5 DEF OpGoesOn

LEMMA FewStep ==
    ASSUME IInv, Few, [Next]_vars
    PROVE  Few'
<1>1. Keeps \/ Ends \/ Begins \/ Recalls \/ AddsLate
  BY StarterSteps, ChildSteps, AddSteps, LockSteps, OtherSteps DEF Next
<1>2. Planned \in Nat /\ late \in Nat
  BY Plans DEF IInv, Marks
<1>3. IsFiniteSet(Busies) /\ Cardinality(Busies) \in Nat
  <2>1. Busies \subseteq Clients /\ IsFiniteSet(Clients)
    BY Bounds DEF Busies
  <2>2. IsFiniteSet(Busies)
    BY <2>1, FS_Subset
  <2> QED BY <2>2, FS_CardinalityType
<1>4. ASSUME NEW S, IsFiniteSet(S), Busies' \subseteq S
      PROVE  Cardinality(Busies') \in Nat /\ Cardinality(Busies') <= Cardinality(S)
  <2>1. IsFiniteSet(Busies') /\ Cardinality(Busies') <= Cardinality(S)
    BY <1>4, FS_Subset
  <2> QED BY <2>1, FS_CardinalityType
<1>5. PICK n \in Nat, p \in Nat, l \in Nat : n = Cardinality(Busies) /\ p = Planned /\ l = late
  BY <1>2, <1>3
<1>6. n + p <= 1 + l /\ (Unattended => n <= l)
  BY <1>5 DEF Few
<1>7. Planned' \in Nat
  <2>1. waiting' \in Nat
    BY Classified DEF Numbers
  <2>2. (IF scheduled' THEN 1 ELSE 0) \in Nat
    OBVIOUS
  <2>3. \A i, j \in Nat : i + j \in Nat
    OBVIOUS
  <2> QED BY <2>1, <2>2, <2>3, Zenon DEF Planned
<1>8. PICK q \in Nat : q = Planned'
  BY <1>7
<1>9. ASSUME NEW m \in Nat, m = Cardinality(Busies'), NEW k, k = late', m + q <= 1 + k,
             Unattended' => m <= k
      PROVE  Few'
  <2>1. Cardinality(Busies') + Planned' <= 1 + late'
    BY <1>8, <1>9
  <2> QED BY <1>9, <2>1 DEF Few
<1>10. ASSUME NEW c \in Busies, Busies' \subseteq Busies \ {c}
       PROVE  n > 0 /\ Cardinality(Busies') \in Nat /\ Cardinality(Busies') <= n - 1
  <2>1. IsFiniteSet(Busies \ {c}) /\ Cardinality(Busies \ {c}) = n - 1
    BY <1>3, <1>5, <1>10, FS_RemoveElement
  <2>2. Cardinality(Busies \ {c}) \in Nat
    BY <2>1, FS_CardinalityType
  <2> QED BY <1>4, <1>5, <1>10, <2>1, <2>2
<1>11. ASSUME Busies' \subseteq Busies
       PROVE  Cardinality(Busies') \in Nat /\ Cardinality(Busies') <= n
  BY <1>3, <1>4, <1>5, <1>11
<1>12. CASE Keeps
  <2>1. PICK m \in Nat : m = Cardinality(Busies') /\ m <= n
    BY <1>11, <1>12 DEF Keeps
  <2>2. q = p /\ late' = l
    BY <1>5, <1>8, <1>12 DEF Keeps
  <2>3. Unattended' => m <= l
    <3>1. CASE Unattended
      BY <1>6, <2>1, <3>1
    <3>2. ASSUME NEW c \in Busies, Busies' \subseteq Busies \ {c}
          PROVE  m <= l
      <4>1. m <= n - 1
        BY <1>10, <2>1, <3>2
      <4> QED BY <1>6, <2>1, <4>1
    <3> QED BY <1>12, <3>1, <3>2 DEF Keeps
  <2>4. m + q <= 1 + l
    BY <1>6, <2>1, <2>2
  <2> QED BY <1>9, <2>1, <2>2, <2>3, <2>4
<1>13. CASE Ends
  <2>1. PICK c \in Busies : Busies' \subseteq Busies \ {c}
    BY <1>13 DEF Ends
  <2>2. PICK m \in Nat : m = Cardinality(Busies') /\ m <= n - 1 /\ n > 0
    BY <1>10, <2>1
  <2>3. q <= p + 1 /\ late' = l
    BY <1>5, <1>8, <1>13 DEF Ends
  <2>4. m + q <= 1 + l /\ m <= l
    BY <1>6, <2>2, <2>3
  <2> QED BY <1>9, <2>2, <2>3, <2>4
<1>14. CASE Begins
  <2>1. PICK c \in Clients : Busies' \subseteq Busies \cup {c}
    BY <1>14 DEF Begins
  <2>2. /\ IsFiniteSet(Busies \cup {c})
        /\ Cardinality(Busies \cup {c}) = n \/ Cardinality(Busies \cup {c}) = n + 1
    BY <1>3, <1>5, FS_AddElement
  <2>3. PICK m \in Nat : m = Cardinality(Busies') /\ m <= n + 1
    <3>1. PICK k \in Nat : k = Cardinality(Busies \cup {c}) /\ (k = n \/ k = n + 1)
      <4>1. n + 1 \in Nat
        OBVIOUS
      <4> QED BY <2>2, <4>1
    <3>2. PICK m \in Nat : m = Cardinality(Busies') /\ m <= k
      BY <1>4, <2>1, <2>2, <3>1
    <3>3. m <= n + 1
      BY <3>1, <3>2
    <3> QED BY <3>2, <3>3
  <2>4. q = p - 1 /\ late' = l /\ ~Unattended'
    BY <1>5, <1>8, <1>14 DEF Begins
  <2>5. m + q <= 1 + l
    BY <1>6, <2>3, <2>4
  <2> QED BY <1>9, <2>3, <2>4, <2>5
<1>15. CASE Recalls
  <2>1. PICK m \in Nat : m = Cardinality(Busies') /\ m <= n
    BY <1>11, <1>15 DEF Recalls
  <2>2. q = p + 1 /\ late' = l /\ Unattended /\ ~Unattended'
    BY <1>5, <1>8, <1>15 DEF Recalls
  <2>3. p = 0
    BY <1>5, <2>2 DEF Unattended
  <2>4. m + q <= 1 + l
    BY <1>6, <2>1, <2>2, <2>3
  <2> QED BY <1>9, <2>1, <2>2, <2>4
<1>16. CASE AddsLate
  <2>1. PICK m \in Nat : m = Cardinality(Busies') /\ m <= n
    BY <1>11, <1>16 DEF AddsLate
  <2>2. q <= p + 1 /\ late' = l + 1
    BY <1>5, <1>8, <1>16 DEF AddsLate
  <2>3. m + q <= 1 + (l + 1) /\ m <= l + 1
    BY <1>6, <2>1, <2>2
  <2> QED BY <1>9, <2>1, <2>2, <2>3
<1> QED BY <1>1, <1>12, <1>13, <1>14, <1>15, <1>16

LEMMA InitFew == Init => Few
<1> SUFFICES ASSUME Init PROVE Few
  OBVIOUS
<1>1. /\ waiting = 1 /\ ~scheduled /\ starter.pc = "free" /\ late = 0
      /\ \A c \in Clients : child[c] = "none"
  BY FreeIs DEF Init
<1>2. Busies = {}
  BY <1>1 DEF Busies, Busy, Owes, Runs
<1>3. Cardinality(Busies) = 0
  BY <1>2, FS_EmptySet
<1>4. Planned = 1
  BY <1>1 DEF Planned
<1> QED BY <1>1, <1>3, <1>4 DEF Few

\* Few clients that run, and one where no add was late.
LEMMA FewRun == IInv /\ Few => RuntimesBounded /\ (late = 0 => OneRuntime)
<1> SUFFICES ASSUME IInv, Few PROVE RuntimesBounded /\ (late = 0 => OneRuntime)
  OBVIOUS
<1> DEFINE R == {c \in Clients : Runs(c)}
<1>1. IsFiniteSet(Busies) /\ Cardinality(Busies) \in Nat
  <2>1. Busies \subseteq Clients /\ IsFiniteSet(Clients)
    BY Bounds DEF Busies
  <2>2. IsFiniteSet(Busies)
    BY <2>1, FS_Subset
  <2> QED BY <2>2, FS_CardinalityType
<1>2. Cardinality(Busies) <= 1 + late
  BY <1>1, Plans DEF Few, IInv, Marks
<1>3. IsFiniteSet(R) /\ Cardinality(R) \in Nat /\ Cardinality(R) <= 1 + late
  <2>1. R \subseteq Busies
    BY DEF Busies, Busy
  <2>2. IsFiniteSet(R) /\ Cardinality(R) <= Cardinality(Busies)
    BY <1>1, <2>1, FS_Subset
  <2>3. Cardinality(R) \in Nat
    BY <2>2, FS_CardinalityType
  <2> QED BY <1>1, <1>2, <2>2, <2>3 DEF IInv, Marks
<1>4. RuntimesBounded
  BY <1>3 DEF RuntimesBounded
<1>5. ASSUME late = 0, NEW c \in Clients, NEW d \in Clients, Runs(c), Runs(d), c # d
      PROVE  FALSE
  <2>1. c \in R /\ d \in R
    BY <1>5
  <2> HIDE DEF R
  <2>2. Cardinality(R \ {c}) = Cardinality(R) - 1 /\ IsFiniteSet(R \ {c})
    BY <1>3, <2>1, FS_RemoveElement
  <2>3. Cardinality((R \ {c}) \ {d}) = Cardinality(R) - 2 /\ IsFiniteSet((R \ {c}) \ {d})
    <3>1. d \in R \ {c}
      BY <1>5, <2>1
    <3>2. Cardinality((R \ {c}) \ {d}) = Cardinality(R \ {c}) - 1
      BY <2>2, <3>1, FS_RemoveElement
    <3>3. IsFiniteSet((R \ {c}) \ {d})
      BY <2>2, <3>1, FS_RemoveElement
    <3> QED BY <1>3, <2>2, <3>2, <3>3
  <2>4. Cardinality((R \ {c}) \ {d}) \in Nat
    BY <2>3, FS_CardinalityType
  <2> QED BY <1>3, <1>5, <2>3, <2>4
<1> QED BY <1>4, <1>5 DEF OneRuntime

\* Whatever dies and whenever streams are added, no more vb-runtimes run than one and
\* one for each add that came in during a start attempt while there was no client; as
\* long as there was no such add, one runs at a time (shard.py:144): between the death
\* of one and the spawn of the next lie the end of its reader or of its kill, one
\* restart, and _start_lock.
THEOREM RuntimesStayFew == Spec => [](RuntimesBounded /\ (late = 0 => OneRuntime))
BY InitIInv, InitFew, IInvStep, FewStep, FewRun, PTL DEF Spec
===============================================================================
