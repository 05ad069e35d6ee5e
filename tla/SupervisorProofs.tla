--------------------------- MODULE SupervisorProofs ---------------------------
(***************************************************************************)
(* The safety of Supervisor that does not depend on the order of replies:  *)
(* that no two processes share an index and none outlives the stop, that a *)
(* command is executed once for as long as its answer is kept, and what    *)
(* its variables can hold, for every set of commands, limit of the shards  *)
(* and bound.                                                              *)
(*                                                                         *)
(* The place of a handle in the list is its index (Placed): a restart      *)
(* takes the place of the handle it replaces, and only the newest place is *)
(* ever given up, by the thread that made it (Newest).  An instance that   *)
(* runs and is not listed is being reclaimed by the command thread         *)
(* (Unlisted), which makes no new one meanwhile.                           *)
(***************************************************************************)
EXTENDS Supervisor, SequenceTheorems, FiniteSetTheorems, WellFoundedInduction, TLAPS

---------------------------------------------------------------------------
(* Sequences.                                                              *)

\* RemoveAt moves what follows the removed position one place forward.
LEMMA RemoveAtIs ==
    ASSUME NEW S, NEW s \in Seq(S), NEW k \in 1..Len(s)
    PROVE  /\ RemoveAt(s, k) \in Seq(S)
           /\ Len(RemoveAt(s, k)) = Len(s) - 1
           /\ \A i \in 1..(Len(s) - 1) :
                 RemoveAt(s, k)[i] = IF i < k THEN s[i] ELSE s[i + 1]
<1> DEFINE a == SubSeq(s, 1, k - 1)
           b == SubSeq(s, k + 1, Len(s))
<1>1. Len(s) \in Nat /\ k \in Nat /\ \A i \in 1..Len(s) : s[i] \in S
  BY LenProperties, ElementOfSeq
<1>2. /\ a \in Seq(S) /\ Len(a) = k - 1
      /\ \A i \in 1..(k - 1) : a[i] = s[i]
  BY <1>1, SubSeqProperties
<1>3. /\ b \in Seq(S) /\ Len(b) = Len(s) - k
      /\ \A i \in 1..(Len(s) - k) : b[i] = s[k + i]
  BY <1>1, SubSeqProperties
<1>4. RemoveAt(s, k) = a \o b
  BY DEF RemoveAt
<1> HIDE DEF a, b
<1>5. /\ a \o b \in Seq(S) /\ Len(a \o b) = Len(a) + Len(b)
      /\ \A i \in 1..(Len(a) + Len(b)) :
            (a \o b)[i] = IF i <= Len(a) THEN a[i] ELSE b[i - Len(a)]
  BY <1>2, <1>3, ConcatProperties
<1>6. ASSUME NEW i \in 1..(Len(s) - 1)
      PROVE  (a \o b)[i] = IF i < k THEN s[i] ELSE s[i + 1]
  <2>1. CASE i < k
    BY <2>1, <1>1, <1>2, <1>3, <1>5
  <2>2. CASE ~(i < k)
    <3>1. /\ i - Len(a) \in 1..(Len(s) - k) /\ k + (i - Len(a)) = i + 1
          /\ i \in 1..(Len(a) + Len(b)) /\ ~(i <= Len(a))
      BY <2>2, <1>1, <1>2, <1>3
    <3>2. (a \o b)[i] = b[i - Len(a)]
      BY <3>1, <1>5
    <3>3. b[i - Len(a)] = s[i + 1]
      BY <3>1, <1>3
    <3> QED BY <2>2, <3>2, <3>3, Zenon
  <2> QED BY <2>1, <2>2, Zenon
<1> QED BY <1>1, <1>2, <1>3, <1>4, <1>5, <1>6

\* What RemoveAt does to the last element.
LEMMA RemoveLast ==
    ASSUME NEW S, NEW s \in Seq(S), s # <<>>
    PROVE  /\ RemoveAt(s, Len(s)) \in Seq(S) /\ Len(RemoveAt(s, Len(s))) = Len(s) - 1
           /\ \A i \in 1..(Len(s) - 1) : RemoveAt(s, Len(s))[i] = s[i]
<1>1. Len(s) \in 1..Len(s)
  BY EmptySeq, LenProperties
<1>2. \A i \in 1..(Len(s) - 1) : i < Len(s)
  BY LenProperties
<1> QED BY <1>1, <1>2, RemoveAtIs

\* The first match is the only one.
LEMMA OnlyMatch ==
    ASSUME NEW k \in Nat, NEW n \in Nat, k <= n, NEW I, I = {i \in 1..n : i = k}, k # 0
    PROVE  I # {} /\ Min(I) = k
<1>1. k \in I /\ \A i \in I : i = k
  OBVIOUS
<1> QED BY <1>1 DEF Min

LEMMA RemoveFirstIs ==
    ASSUME NEW S, NEW s \in Seq(S), NEW x,
           \A i \in 1..Len(s) : s[i] = x => i = Len(s)
    PROVE  RemoveFirst(s, x) = IF \E i \in 1..Len(s) : s[i] = x THEN RemoveAt(s, Len(s)) ELSE s
<1>1. CASE ~\E i \in 1..Len(s) : s[i] = x
  BY <1>1 DEF RemoveFirst
<1>2. CASE \E i \in 1..Len(s) : s[i] = x
  <2> DEFINE I == {i \in 1..Len(s) : s[i] = x}
  <2>1. Len(s) \in Nat /\ Len(s) # 0
    BY <1>2, LenProperties
  <2>2. I = {i \in 1..Len(s) : i = Len(s)}
    BY <1>2
  <2> HIDE DEF I
  <2>3. I # {} /\ Min(I) = Len(s)
    BY <2>1, <2>2, OnlyMatch
  <2>4. SelectInSeq(s, LAMBDA v : v = x) = Len(s)
    BY <2>3 DEF SelectInSeq, I
  <2> QED BY <1>2, <2>4 DEF RemoveFirst
<1> QED BY <1>1, <1>2

---------------------------------------------------------------------------

IsHandle(e) ==
    e = [index |-> e.index, proc |-> e.proc, hung |-> e.hung, open |-> e.open,
         alive |-> e.alive, heard |-> e.heard, started |-> e.started,
         restarting |-> e.restarting, restarts |-> e.restarts, restart |-> e.restart,
         streams |-> e.streams, running |-> e.running, inbox |-> e.inbox]

Shaped == h = [x \in Handles |-> h[x]] /\ \A x \in Handles : IsHandle(h[x])

\* A process that runs and was made by a restart.
Second(e) == e.proc \in Alive /\ e.restarts # 0 /\ ~e.restarting

Counted ==
    /\ spawned \in 0..MaxSpawns /\ shards \in Seq(1..spawned)
    /\ stop \in {"no", "set", "asked", "done"} /\ held \subseteq Handles
    /\ cmd = [pc |-> cmd.pc, req |-> cmd.req, x |-> cmd.x, new |-> cmd.new, tag |-> cmd.tag]
    /\ cmd.new \in BOOLEAN

Placed == \A i \in 1..Len(shards) : h[shards[i]].index = i - 1

Listing(x) == \E i \in 1..Len(shards) : shards[i] = x

Unlisted ==
    \A x \in Handles : h[x].proc \in Alive /\ ~Listing(x) =>
        cmd.pc = "reap" /\ cmd.x = x /\ h[x].index = Len(shards)

\* The command thread gives up only a shard it has made itself, the last of the list.
Newest ==
    /\ cmd.pc \in {"await", "discard", "reap"} => cmd.new
    /\ cmd.pc \in {"idle", "add", "remove", "threshold", "gone"} => ~cmd.new
    /\ cmd.new => /\ cmd.x \in 1..spawned /\ ~Second(h[cmd.x])
                  /\ Listing(cmd.x) => cmd.x = shards[Len(shards)]

Restarts ==
    /\ \A x \in Handles : h[x].restart = "backoff" => h[x].proc = "down"
    /\ \A x \in Handles : Second(h[x]) =>
          /\ stop \in {"no", "set"} => Listing(x)
          /\ stop = "asked" => x \in held
          /\ stop # "done"

IInv == Shaped /\ Counted /\ Placed /\ Unlisted /\ Newest /\ Restarts
-----------------------------------------------------------------------------
(* Handles                                                                 *)

\* A field of a handle changes.
LEMMA OneField ==
    ASSUME NEW e, IsHandle(e), NEW v
    PROVE  /\ IsHandle([e EXCEPT !.proc = v]) /\ IsHandle([e EXCEPT !.running = v])
           /\ IsHandle([e EXCEPT !.alive = v]) /\ IsHandle([e EXCEPT !.heard = v])
           /\ IsHandle([e EXCEPT !.started = v]) /\ IsHandle([e EXCEPT !.inbox = v])
           /\ IsHandle([e EXCEPT !.restarts = v]) /\ IsHandle([e EXCEPT !.restarting = v])
           /\ IsHandle([e EXCEPT !.restart = v]) /\ IsHandle([e EXCEPT !.open = v])
           /\ IsHandle([e EXCEPT !.streams = v]) /\ IsHandle([e EXCEPT !.hung = v])
           /\ IsHandle([e EXCEPT !.index = v])
<1> USE DEF IsHandle
<1>1. IsHandle([e EXCEPT !.proc = v]) OBVIOUS
<1>2. IsHandle([e EXCEPT !.running = v]) OBVIOUS
<1>3. IsHandle([e EXCEPT !.alive = v]) OBVIOUS
<1>4. IsHandle([e EXCEPT !.heard = v]) OBVIOUS
<1>5. IsHandle([e EXCEPT !.started = v]) OBVIOUS
<1>6. IsHandle([e EXCEPT !.inbox = v]) OBVIOUS
<1>7. IsHandle([e EXCEPT !.restarts = v]) OBVIOUS
<1>8. IsHandle([e EXCEPT !.restarting = v]) OBVIOUS
<1>9. IsHandle([e EXCEPT !.restart = v]) OBVIOUS
<1>10. IsHandle([e EXCEPT !.open = v]) OBVIOUS
<1>11. IsHandle([e EXCEPT !.streams = v]) OBVIOUS
<1>12. IsHandle([e EXCEPT !.hung = v]) OBVIOUS
<1>13. IsHandle([e EXCEPT !.index = v]) OBVIOUS
<1> HIDE DEF IsHandle
<1> QED BY <1>1, <1>2, <1>3, <1>4, <1>5, <1>6, <1>7, <1>8, <1>9, <1>10, <1>11, <1>12, <1>13

\* One handle changes.
LEMMA Touched ==
    ASSUME Shaped, NEW x \in Handles, NEW e, IsHandle(e), h' = [h EXCEPT ![x] = e]
    PROVE  Shaped' /\ h'[x] = e /\ \A y \in Handles : y # x => h'[y] = h[y]
BY DEF Shaped

\* What the rest of the supervisor may rely on when a handle goes on: it keeps its
\* index, and it neither comes back to life nor becomes the product of a restart.
Onward(e, f) ==
    /\ f.index = e.index
    /\ f.proc \in Alive => e.proc \in Alive
    /\ f.restart = "backoff" => f.proc = "down"
    /\ Second(f) => Second(e)

LEMMA OnwardKeeps ==
    ASSUME IInv, Shaped', UNCHANGED <<shards, spawned, cmd, stop, held>>,
           \A y \in Handles : h'[y] # h[y] => Onward(h[y], h'[y])
    PROVE  IInv'
<1>1. ASSUME NEW y \in Handles
      PROVE  Onward(h[y], h'[y])
  BY <1>1 DEF Onward, IInv, Restarts
<1>2. 1..spawned \subseteq Handles
  BY SupervisorAssumption DEF IInv, Counted, Handles, SupervisorAssumption
<1>3. \A i \in 1..Len(shards) : shards[i] \in Handles
  BY <1>2, ElementOfSeq DEF IInv, Counted
<1>4. Counted'
  BY DEF IInv, Counted
<1>5. Placed'
  BY <1>1, <1>3 DEF IInv, Placed, Onward
<1>6. \A x : Listing(x)' = Listing(x)
  BY DEF Listing
<1>7. Unlisted'
  BY <1>1, <1>6 DEF IInv, Unlisted, Onward
<1>8. Newest'
  BY <1>1, <1>2, <1>6 DEF IInv, Newest, Onward
<1>9. Restarts'
  BY <1>1, <1>6 DEF IInv, Restarts, Onward
<1> QED BY <1>4, <1>5, <1>7, <1>8, <1>9 DEF IInv
-----------------------------------------------------------------------------
(* Steps                                                                   *)

\* What the processes, their pipes and the watchdog do to a handle.
LEMMA HandleSteps ==
    ASSUME IInv, NEW x \in Handles,
           Process(x) \/ Lapse(x) \/ Examine(x) \/ Reclaim(x)
    PROVE  IInv'
<1> USE DEF IInv
<1>1. UNCHANGED <<shards, spawned, cmd, stop, held>>
  BY DEF Process, Started, Beat, Serve, Crash, Hang, Resume, Lapse, Examine, Reclaim,
         ProcessOnly, RestartOnly
<1>2. IsHandle(h[x]) /\ (h[x].restart = "backoff" => h[x].proc = "down")
  BY DEF Shaped, Restarts
<1>3. ASSUME NEW e, IsHandle(e), h' = [h EXCEPT ![x] = e], Onward(h[x], e)
      PROVE  IInv'
  <2>1. Shaped' /\ h'[x] = e /\ \A y \in Handles : y # x => h'[y] = h[y]
    BY <1>3, Touched
  <2>2. \A y \in Handles : h'[y] # h[y] => Onward(h[y], h'[y])
    BY <2>1, <1>3
  <2> QED BY <2>1, <2>2, <1>1, OnwardKeeps
<1>4. CASE Started(x)
  <2>1. h[x].proc = "starting"
    BY <1>4 DEF Started
  <2>2. CASE Distinct(h[x].streams)
    <3> DEFINE e == [h[x] EXCEPT !.proc = "up", !.running = ToSet(h[x].streams)]
    <3>1. h' = [h EXCEPT ![x] = e]
      BY <1>4, <2>2 DEF Started
    <3>2. IsHandle(e) /\ Onward(h[x], e)
      <4>1. IsHandle(e)
        BY <1>2, OneField
      <4>2. e.index = h[x].index /\ (e.proc \in Alive => h[x].proc \in Alive)
        BY <2>1, <1>2 DEF IsHandle, Alive
      <4>3. e.restart = "backoff" => e.proc = "down"
        BY <2>1, <1>2 DEF IsHandle
      <4>4. Second(e) => Second(h[x])
        BY <2>1, <1>2 DEF IsHandle, Second, Alive
      <4> QED BY <4>1, <4>2, <4>3, <4>4 DEF Onward
    <3> QED BY <3>1, <3>2, <1>3
  <2>3. CASE ~Distinct(h[x].streams)
    <3> DEFINE e == [h[x] EXCEPT !.proc = "down"]
    <3>1. h' = [h EXCEPT ![x] = e]
      BY <1>4, <2>3 DEF Started
    <3>2. IsHandle(e) /\ Onward(h[x], e)
      <4>1. IsHandle(e)
        BY <1>2, OneField
      <4>2. e.index = h[x].index /\ (e.proc \in Alive => h[x].proc \in Alive)
        BY <1>2 DEF IsHandle, Alive
      <4>3. e.restart = "backoff" => e.proc = "down"
        BY <1>2 DEF IsHandle
      <4>4. Second(e) => Second(h[x])
        BY <1>2 DEF IsHandle, Second, Alive
      <4> QED BY <4>1, <4>2, <4>3, <4>4 DEF Onward
    <3> QED BY <3>1, <3>2, <1>3
  <2> QED BY <2>2, <2>3
<1>5. CASE Beat(x)
  <2> DEFINE e == [h[x] EXCEPT !.heard = "fresh", !.alive = TRUE, !.started = TRUE]
  <2>1. h' = [h EXCEPT ![x] = e]
    BY <1>5 DEF Beat
  <2>2. IsHandle(e) /\ Onward(h[x], e)
    <3>1. IsHandle(e)
      BY <1>2, OneField
    <3>2. e.index = h[x].index /\ (e.proc \in Alive => h[x].proc \in Alive)
      BY <1>2 DEF IsHandle, Alive
    <3>3. e.restart = "backoff" => e.proc = "down"
      BY <1>2 DEF IsHandle
    <3>4. Second(e) => Second(h[x])
      BY <1>2 DEF IsHandle, Second, Alive
    <3> QED BY <3>1, <3>2, <3>3, <3>4 DEF Onward
  <2> QED BY <2>1, <2>2, <1>3
<1>6. CASE Serve(x)
  <2>1. CASE \E v : h' = [h EXCEPT ![x].running = v, ![x].inbox = Tail(@)]
    <3> PICK v : h' = [h EXCEPT ![x].running = v, ![x].inbox = Tail(@)]
      BY <2>1
    <3> DEFINE e == [h[x] EXCEPT !.running = v, !.inbox = Tail(@)]
    <3>1. h' = [h EXCEPT ![x] = e]
      OBVIOUS
    <3>2. IsHandle(e) /\ Onward(h[x], e)
      <4>1. IsHandle(e)
        BY <1>2, OneField
      <4>2. e.index = h[x].index /\ (e.proc \in Alive => h[x].proc \in Alive)
        BY <1>2 DEF IsHandle, Alive
      <4>3. e.restart = "backoff" => e.proc = "down"
        BY <1>2 DEF IsHandle
      <4>4. Second(e) => Second(h[x])
        BY <1>2 DEF IsHandle, Second, Alive
      <4> QED BY <4>1, <4>2, <4>3, <4>4 DEF Onward
    <3> QED BY <3>1, <3>2, <1>3
  <2>2. CASE h' = [h EXCEPT ![x].proc = "down", ![x].running = {}]
    <3> DEFINE e == [h[x] EXCEPT !.proc = "down", !.running = {}]
    <3>1. h' = [h EXCEPT ![x] = e]
      BY <2>2
    <3>2. IsHandle(e) /\ Onward(h[x], e)
      <4>1. IsHandle(e)
        BY <1>2, OneField
      <4>2. e.index = h[x].index /\ (e.proc \in Alive => h[x].proc \in Alive)
        BY <1>2 DEF IsHandle, Alive
      <4>3. e.restart = "backoff" => e.proc = "down"
        BY <1>2 DEF IsHandle
      <4>4. Second(e) => Second(h[x])
        BY <1>2 DEF IsHandle, Second, Alive
      <4> QED BY <4>1, <4>2, <4>3, <4>4 DEF Onward
    <3> QED BY <3>1, <3>2, <1>3
  <2> QED BY <1>6, <2>1, <2>2, Zenon DEF Serve
<1>7. CASE Crash(x)
  <2> DEFINE e == [h[x] EXCEPT !.proc = "down", !.running = {}]
  <2>1. h' = [h EXCEPT ![x] = e]
    BY <1>7 DEF Crash
  <2>2. IsHandle(e) /\ Onward(h[x], e)
    <3>1. IsHandle(e)
      BY <1>2, OneField
    <3>2. e.index = h[x].index /\ (e.proc \in Alive => h[x].proc \in Alive)
      BY <1>2 DEF IsHandle, Alive
    <3>3. e.restart = "backoff" => e.proc = "down"
      BY <1>2 DEF IsHandle
    <3>4. Second(e) => Second(h[x])
      BY <1>2 DEF IsHandle, Second, Alive
    <3> QED BY <3>1, <3>2, <3>3, <3>4 DEF Onward
  <2> QED BY <2>1, <2>2, <1>3
<1>8. CASE Hang(x) \/ Resume(x)
  <2> PICK b \in BOOLEAN : h' = [h EXCEPT ![x].hung = b]
    BY <1>8 DEF Hang, Resume
  <2> DEFINE e == [h[x] EXCEPT !.hung = b]
  <2>1. h' = [h EXCEPT ![x] = e]
    OBVIOUS
  <2>2. IsHandle(e) /\ Onward(h[x], e)
    <3>1. IsHandle(e)
      BY <1>2, OneField
    <3>2. e.index = h[x].index /\ (e.proc \in Alive => h[x].proc \in Alive)
      BY <1>2 DEF IsHandle, Alive
    <3>3. e.restart = "backoff" => e.proc = "down"
      BY <1>2 DEF IsHandle
    <3>4. Second(e) => Second(h[x])
      BY <1>2 DEF IsHandle, Second, Alive
    <3> QED BY <3>1, <3>2, <3>3, <3>4 DEF Onward
  <2> QED BY <2>1, <2>2, <1>3
<1>9. CASE Lapse(x)
  <2> DEFINE e == [h[x] EXCEPT !.heard = "late"]
  <2>1. h' = [h EXCEPT ![x] = e]
    BY <1>9 DEF Lapse
  <2>2. IsHandle(e) /\ Onward(h[x], e)
    <3>1. IsHandle(e)
      BY <1>2, OneField
    <3>2. e.index = h[x].index /\ (e.proc \in Alive => h[x].proc \in Alive)
      BY <1>2 DEF IsHandle, Alive
    <3>3. e.restart = "backoff" => e.proc = "down"
      BY <1>2 DEF IsHandle
    <3>4. Second(e) => Second(h[x])
      BY <1>2 DEF IsHandle, Second, Alive
    <3> QED BY <3>1, <3>2, <3>3, <3>4 DEF Onward
  <2> QED BY <2>1, <2>2, <1>3
<1>10. CASE Examine(x)
  <2> DEFINE e == [h[x] EXCEPT !.alive = FALSE, !.restarts = @ + 1, !.restarting = TRUE,
                               !.restart = "reclaim"]
  <2>1. h' = [h EXCEPT ![x] = e]
    BY <1>10 DEF Examine
  <2>2. IsHandle(e) /\ Onward(h[x], e)
    <3>1. IsHandle(e)
      <4> DEFINE f == [h[x] EXCEPT !.alive = FALSE, !.restarts = @ + 1]
      <4>1. IsHandle(f)
        BY <1>2, OneField
      <4>2. e = [f EXCEPT !.restarting = TRUE, !.restart = "reclaim"]
        BY <1>2 DEF IsHandle
      <4> HIDE DEF e, f
      <4> QED BY <4>1, <4>2, OneField
    <3>2. e.index = h[x].index /\ (e.proc \in Alive => h[x].proc \in Alive)
      BY <1>2 DEF IsHandle, Alive
    <3>3. e.restart = "backoff" => e.proc = "down"
      BY <1>2 DEF IsHandle
    <3>4. Second(e) => Second(h[x])
      BY <1>2 DEF IsHandle, Second, Alive
    <3> QED BY <3>1, <3>2, <3>3, <3>4 DEF Onward
  <2> QED BY <2>1, <2>2, <1>3
<1>11. CASE Reclaim(x)
  <2> DEFINE e == [Killed(h[x]) EXCEPT !.restart = "backoff"]
  <2>1. h' = [h EXCEPT ![x] = e]
    BY <1>11 DEF Reclaim
  <2>2. IsHandle(e) /\ Onward(h[x], e)
    <3>1. IsHandle(e)
      BY <1>2, OneField DEF Killed
    <3>2. e.index = h[x].index /\ (e.proc \in Alive => h[x].proc \in Alive)
      BY <1>2 DEF IsHandle, Alive, Killed
    <3>3. e.restart = "backoff" => e.proc = "down"
      BY <1>2 DEF IsHandle, Killed
    <3>4. Second(e) => Second(h[x])
      BY <1>2 DEF IsHandle, Second, Alive, Killed
    <3> QED BY <3>1, <3>2, <3>3, <3>4 DEF Onward
  <2> QED BY <2>1, <2>2, <1>3
<1> QED BY <1>4, <1>5, <1>6, <1>7, <1>8, <1>9, <1>10, <1>11 DEF Process

\* The command thread, as far as it leaves the list of the shards alone.
LEMMA CommandSteps ==
    ASSUME IInv,
           \/ Take \/ CmdLeaves \/ AwaitStarted \/ FindStream \/ SendOp \/ GetReply
           \/ Reap \/ CommitOp \/ Persist
    PROVE  IInv'
<1> USE DEF IInv
<1>1. UNCHANGED <<shards, spawned, stop, held>>
  BY DEF Take, CmdLeaves, AwaitStarted, FindStream, SendOp, GetReply, Reap, CommitOp, Persist,
         CmdOnly
<1>2. \A x : Listing(x)' = Listing(x)
  BY <1>1 DEF Listing
\* The handles, when the thread itself goes from one place to another.
<1>3. ASSUME Shaped', \A y \in Handles : h'[y] # h[y] => Onward(h[y], h'[y]),
             cmd' = [pc |-> cmd'.pc, req |-> cmd'.req, x |-> cmd'.x, new |-> cmd'.new,
                     tag |-> cmd'.tag], cmd'.new \in BOOLEAN,
             cmd.pc = "reap" => h'[cmd.x].proc = "down",
             cmd'.pc \in {"await", "discard"} => cmd'.new, cmd'.pc # "reap",
             cmd'.pc \in {"idle", "add", "remove", "threshold", "gone"} => ~cmd'.new,
             cmd'.new => cmd.new /\ cmd'.x = cmd.x
      PROVE  IInv'
  <2>1. ASSUME NEW y \in Handles
        PROVE  Onward(h[y], h'[y])
    BY <2>1, <1>3 DEF Onward, Restarts
  <2>2. 1..spawned \subseteq Handles
    BY SupervisorAssumption DEF Counted, Handles, SupervisorAssumption
  <2>3. \A i \in 1..Len(shards) : shards[i] \in Handles
    BY <2>2, ElementOfSeq DEF Counted
  <2>4. Counted'
    BY <1>1, <1>3 DEF Counted
  <2>5. Placed'
    BY <1>1, <2>1, <2>3 DEF Placed, Onward
  <2>6. Unlisted'
    BY <1>1, <1>2, <1>3, <2>1 DEF Unlisted, Onward, Alive
  <2>7. Newest'
    BY <1>1, <1>2, <1>3, <2>1, <2>2 DEF Newest, Onward
  <2>8. Restarts'
    BY <1>1, <1>2, <2>1 DEF Restarts, Onward
  <2> QED BY <1>3, <2>4, <2>5, <2>6, <2>7, <2>8
\* What moves the thread: the end of a command, or the next thing to do for it.
<1>4. ASSUME Shaped', \A y \in Handles : h'[y] # h[y] => Onward(h[y], h'[y]),
             \/ cmd.pc # "reap" /\ cmd' = cmd
             \/ (cmd.pc = "reap" => h'[cmd.x].proc = "down") /\ cmd' = Idle
             \/ \E r : \E pc \in {"gone", "add", "remove", "threshold"} :
                   cmd.pc = "idle" /\ cmd' = [cmd EXCEPT !.pc = pc, !.req = r]
             \/ cmd.pc # "reap" /\ \E pc \in {"send", "persist", "commit"} :
                                      cmd' = [cmd EXCEPT !.pc = pc]
             \/ cmd.pc # "reap" /\ \E x : ~cmd.new /\ cmd' = [cmd EXCEPT !.pc = "send", !.x = x]
             \/ cmd.pc # "reap" /\ cmd.new /\ cmd' = [cmd EXCEPT !.pc = "discard"]
             \/ cmd.pc # "reap" /\ \E tag : cmd' = [cmd EXCEPT !.pc = "reply", !.tag = tag]
      PROVE  IInv'
  BY <1>3, <1>4 DEF Counted, Idle, Newest
<1>5. UNCHANGED h => Shaped' /\ \A y \in Handles : h'[y] # h[y] => Onward(h[y], h'[y])
  BY DEF Shaped
<1>6. ASSUME NEW e, cmd.x \in Handles, IsHandle(e), Onward(h[cmd.x], e),
             h' = [h EXCEPT ![cmd.x] = e]
      PROVE  Shaped' /\ h'[cmd.x] = e /\ \A y \in Handles : h'[y] # h[y] => Onward(h[y], h'[y])
  <2>1. Shaped' /\ h'[cmd.x] = e /\ \A y \in Handles : y # cmd.x => h'[y] = h[y]
    BY <1>6, Touched
  <2> QED BY <2>1, <1>6
<1>7. CASE Take
  <2>1. \/ cmd' = cmd
        \/ \E r : \E pc \in {"add", "remove", "threshold"} : cmd' = [cmd EXCEPT !.pc = pc, !.req = r]
    BY <1>7 DEF Take, ValidParams
  <2>2. UNCHANGED h /\ cmd.pc = "idle"
    BY <1>7 DEF Take
  <2> QED BY <2>1, <2>2, <1>4, <1>5
<1>8. CASE CmdLeaves
  <2>1. UNCHANGED h /\ cmd.pc = "idle" /\ cmd' = [cmd EXCEPT !.pc = "gone", !.req = cmd.req]
    BY <1>8 DEF CmdLeaves, Counted
  <2> QED BY <2>1, <1>4, <1>5
<1>9. CASE AwaitStarted
  <2>1. /\ UNCHANGED h /\ cmd.pc = "await" /\ cmd.new
        /\ cmd' = [cmd EXCEPT !.pc = "send"] \/ cmd' = [cmd EXCEPT !.pc = "discard"]
    BY <1>9 DEF AwaitStarted, Goes, Newest
  <2> QED BY <2>1, <1>4, <1>5
<1>10. CASE FindStream
  <2>1. UNCHANGED h /\ cmd.pc \in {"remove", "threshold"} /\ ~cmd.new
    BY <1>10 DEF FindStream, Newest
  <2>2. cmd' = Idle \/ \E x : cmd' = [cmd EXCEPT !.pc = "send", !.x = x]
    BY <1>10 DEF FindStream, Ack
  <2> QED BY <2>1, <2>2, <1>4, <1>5
<1>11. Fails => cmd' = Idle \/ (cmd.new /\ cmd' = [cmd EXCEPT !.pc = "discard"])
  BY DEF Fails, Goes, Ack
<1>12. CASE SendOp
  <2>1. cmd.pc = "send"
    BY <1>12 DEF SendOp
  <2>2. CASE Fails /\ UNCHANGED h
    BY <2>1, <2>2, <1>4, <1>5, <1>11
  <2>3. CASE /\ \E m : h' = [h EXCEPT ![cmd.x].inbox = Append(@, m)]
             /\ \E tag : cmd' = [cmd EXCEPT !.pc = "reply", !.tag = tag]
    <3> PICK m : h' = [h EXCEPT ![cmd.x].inbox = Append(@, m)]
      BY <2>3
    <3>1. CASE cmd.x \in Handles
      <4> DEFINE e == [h[cmd.x] EXCEPT !.inbox = Append(@, m)]
      <4>1. h' = [h EXCEPT ![cmd.x] = e]
        OBVIOUS
      <4>2. IsHandle(h[cmd.x]) /\ (h[cmd.x].restart = "backoff" => h[cmd.x].proc = "down")
        BY <3>1 DEF Shaped, Restarts
      <4>3. IsHandle(e)
        BY <4>2, OneField
      <4>4. Onward(h[cmd.x], e)
        BY <4>2 DEF IsHandle, Onward, Second, Alive
      <4> HIDE DEF e
      <4> QED BY <2>1, <2>3, <3>1, <4>1, <4>3, <4>4, <1>4, <1>6
    <3>2. CASE cmd.x \notin Handles
      <4>1. UNCHANGED h
        BY <3>2 DEF Shaped
      <4> QED BY <2>1, <2>3, <4>1, <1>4, <1>5
    <3> QED BY <3>1, <3>2
  <2> QED BY <1>12, <2>2, <2>3, Zenon DEF SendOp
<1>13. CASE GetReply
  <2>1. UNCHANGED h /\ cmd.pc = "reply"
    BY <1>13 DEF GetReply
  <2>2. Fails \/ cmd' = [cmd EXCEPT !.pc = "commit"]
    BY <1>13 DEF GetReply, Goes
  <2> QED BY <2>1, <2>2, <1>4, <1>5, <1>11
<1>14. CASE Reap
  <2>1. cmd.x \in Handles
    BY <1>14, SupervisorAssumption
    DEF Reap, Newest, Counted, Handles, SupervisorAssumption
  <2> DEFINE e == Killed(h[cmd.x])
  <2>2. h' = [h EXCEPT ![cmd.x] = e] /\ cmd' = Idle
    BY <1>14 DEF Reap, Ack
  <2>3. IsHandle(h[cmd.x])
    BY <2>1 DEF Shaped
  <2>4. IsHandle(e)
    BY <2>3, OneField DEF Killed
  <2>5. e.proc = "down"
    BY <2>3 DEF IsHandle, Killed
  <2>6. Onward(h[cmd.x], e)
    BY <2>3 DEF IsHandle, Onward, Second, Alive, Killed
  <2> HIDE DEF e
  <2> QED BY <2>1, <2>2, <2>4, <2>5, <2>6, <1>4, <1>6
<1>15. CASE CommitOp
  <2>1. cmd.pc = "commit"
    BY <1>15 DEF CommitOp
  <2>2. cmd' = Idle \/ cmd' = [cmd EXCEPT !.pc = "persist"]
    BY <1>15 DEF CommitOp, Ack, Goes
  <2>3. CASE cmd.x \in Handles
    <3> DEFINE e == [h[cmd.x] EXCEPT !.streams = Committed(@, cmd.req)]
    <3>1. h' = [h EXCEPT ![cmd.x] = e]
      BY <1>15 DEF CommitOp
    <3>2. IsHandle(h[cmd.x]) /\ (h[cmd.x].restart = "backoff" => h[cmd.x].proc = "down")
      BY <2>3 DEF Shaped, Restarts
    <3>3. IsHandle(e)
      BY <3>2, OneField
    <3>4. Onward(h[cmd.x], e)
      BY <3>2 DEF IsHandle, Onward, Second, Alive
    <3> HIDE DEF e
    <3> QED BY <2>1, <2>2, <2>3, <3>1, <3>3, <3>4, <1>4, <1>6
  <2>4. CASE cmd.x \notin Handles
    <3>1. UNCHANGED h
      BY <1>15, <2>4 DEF CommitOp, Shaped
    <3> QED BY <2>1, <2>2, <3>1, <1>4, <1>5
  <2> QED BY <2>3, <2>4
<1>16. CASE Persist
  <2>1. UNCHANGED h /\ cmd.pc = "persist" /\ cmd' = Idle
    BY <1>16 DEF Persist, Ack
  <2> QED BY <2>1, <1>4, <1>5
<1> QED BY <1>7, <1>8, <1>9, <1>10, <1>12, <1>13, <1>14, <1>15, <1>16

LEMMA ListedHandles ==
    ASSUME IInv
    PROVE  /\ 1..spawned \subseteq Handles /\ spawned \in Nat /\ Len(shards) \in Nat
           /\ \A i \in 1..Len(shards) : shards[i] \in 1..spawned
           /\ \A i, j \in 1..Len(shards) : shards[i] = shards[j] => i = j
<1>1. 1..spawned \subseteq Handles /\ spawned \in Nat
  BY SupervisorAssumption DEF IInv, Counted, Handles, SupervisorAssumption
<1>2. Len(shards) \in Nat /\ \A i \in 1..Len(shards) : shards[i] \in 1..spawned
  BY LenProperties, ElementOfSeq DEF IInv, Counted
<1>3. ASSUME NEW i \in 1..Len(shards), NEW j \in 1..Len(shards), shards[i] = shards[j]
      PROVE  i = j
  <2>1. h[shards[i]].index = i - 1 /\ h[shards[j]].index = j - 1
    BY DEF IInv, Placed
  <2>2. i - 1 = j - 1
    BY <2>1, <1>3
  <2> QED BY <2>2
<1> QED BY <1>1, <1>2, <1>3

\* A new handle takes the next number.
LEMMA FreshHandle ==
    ASSUME NEW index, NEW streams, NEW restarts
    PROVE  /\ IsHandle(Fresh(index, streams, restarts))
           /\ Fresh(index, streams, restarts).index = index
           /\ Fresh(index, streams, restarts).proc = "starting"
           /\ Fresh(index, streams, restarts).restart = "no"
           /\ Fresh(index, streams, restarts).restarts = restarts
<1> DEFINE e == [Nobody EXCEPT !.index = index]
           f == [e EXCEPT !.proc = "starting", !.open = TRUE]
           g == [f EXCEPT !.restarts = restarts, !.streams = streams]
<1>1. IsHandle(e) /\ e.index = index /\ e.restart = "no"
  <2>1. IsHandle(Nobody)
    BY DEF Nobody, IsHandle
  <2>2. Nobody.restart = "no"
    BY DEF Nobody
  <2>3. IsHandle(e)
    BY <2>1, OneField
  <2>4. e.index = index /\ e.restart = "no"
    BY <2>1, <2>2 DEF IsHandle
  <2> QED BY <2>3, <2>4
<1>2. Fresh(index, streams, restarts) = g
  BY DEF Fresh, Nobody
<1> HIDE DEF e
<1>3. IsHandle(f) /\ f.index = index /\ f.restart = "no" /\ f.proc = "starting"
  <2>1. IsHandle(f)
    BY <1>1, OneField
  <2> QED BY <2>1, <1>1 DEF IsHandle
<1> HIDE DEF f
<1>4. IsHandle(g)
  BY <1>3, OneField
<1>5. g.index = index /\ g.restart = "no" /\ g.proc = "starting" /\ g.restarts = restarts
  BY <1>3 DEF IsHandle
<1> QED BY <1>2, <1>4, <1>5

\* A shard is added at the end of the list; or the one that was is given up.
LEMMA ListSteps ==
    ASSUME IInv, AddStream \/ Unlist
    PROVE  IInv'
<1> USE DEF IInv
<1>1. CASE AddStream
  <2>1. cmd.pc = "add" /\ ~cmd.new /\ UNCHANGED <<stop, held>>
    BY <1>1 DEF AddStream, Newest, CmdOnly
  <2>2. CASE /\ UNCHANGED <<h, shards, spawned>>
             /\ cmd' = Idle \/ \E x : cmd' = [cmd EXCEPT !.pc = "send", !.x = x]
    <3>1. Shaped' /\ Counted' /\ ~cmd'.new /\ cmd'.pc \in {"idle", "send"}
      BY <2>1, <2>2 DEF Shaped, Counted, Idle
    <3>2. \A x : Listing(x)' = Listing(x)
      BY <2>2 DEF Listing
    <3>3. Placed' /\ Newest'
      BY <2>2, <3>1 DEF Placed, Newest
    <3>4. Unlisted'
      BY <2>1, <2>2, <3>2 DEF Unlisted
    <3>5. Restarts'
      BY <2>1, <2>2, <3>2 DEF Restarts
    <3> QED BY <3>1, <3>3, <3>4, <3>5
  <2>3. CASE /\ spawned < MaxSpawns /\ spawned' = spawned + 1
             /\ h' = [h EXCEPT ![spawned + 1] = Fresh(Len(shards), <<>>, 0)]
             /\ shards' = Append(shards, spawned + 1)
             /\ cmd' = [cmd EXCEPT !.pc = "await", !.x = spawned + 1, !.new = TRUE]
    <3> DEFINE e == Fresh(Len(shards), <<>>, 0)
               n == Len(shards)
               new == spawned + 1
    <3>1. /\ 1..spawned \subseteq Handles /\ spawned \in Nat /\ n \in Nat /\ new \in Handles
          /\ \A i \in 1..n : shards[i] \in 1..spawned
      BY <2>3, ListedHandles, SupervisorAssumption DEF Handles, SupervisorAssumption
    <3>2. IsHandle(e) /\ e.index = n /\ e.restarts = 0 /\ e.restart = "no"
      BY FreshHandle
    <3> HIDE DEF e
    <3>3. Shaped' /\ h'[new] = e /\ \A y \in Handles : y # new => h'[y] = h[y]
      BY <2>3, <3>1, <3>2, Touched DEF e
    <3>4. shards \in Seq(1..new)
      BY <3>1, SeqMonotonic DEF Counted
    <3>5. /\ shards' \in Seq(1..new) /\ Len(shards') = n + 1 /\ shards'[n + 1] = new
          /\ \A i \in 1..n : shards'[i] = shards[i]
      BY <2>3, <3>1, <3>4, AppendProperties
    <3>6. Counted'
      <4>1. /\ spawned' \in 0..MaxSpawns /\ shards' \in Seq(1..spawned')
            /\ stop' \in {"no", "set", "asked", "done"} /\ held' \subseteq Handles
        BY <2>1, <2>3, <3>1, <3>5, SupervisorAssumption DEF Counted, SupervisorAssumption
      <4>2. cmd' = [pc |-> cmd'.pc, req |-> cmd'.req, x |-> cmd'.x, new |-> cmd'.new,
                    tag |-> cmd'.tag] /\ cmd'.new
        BY <2>3 DEF Counted
      <4> QED BY <4>1, <4>2 DEF Counted
    <3> HIDE DEF n, new
    <3>7. ASSUME NEW x \in Handles
          PROVE  Listing(x)' <=> Listing(x) \/ x = new
      <4>1. Listing(x) => Listing(x)'
        BY <3>1, <3>5 DEF Listing, n
      <4>2. Listing(x)' => Listing(x) \/ x = new
        BY <3>1, <3>5 DEF Listing, n
      <4>3. x = new => Listing(x)'
        BY <3>1, <3>5 DEF Listing
      <4> QED BY <4>1, <4>2, <4>3
    <3>8. Placed'
      <4>1. ASSUME NEW i \in 1..(n + 1)
            PROVE  h'[shards'[i]].index = i - 1
        <5>1. CASE i = n + 1
          BY <5>1, <3>1, <3>2, <3>3, <3>5
        <5>2. CASE i # n + 1
          <6>1. i \in 1..n
            BY <5>2, <3>1
          <6>2. shards'[i] = shards[i] /\ shards[i] \in Handles /\ shards[i] # new
            BY <6>1, <3>1, <3>5 DEF new
          <6>3. h[shards[i]].index = i - 1
            BY <6>1 DEF Placed, n
          <6> QED BY <6>2, <6>3, <3>3
        <5> QED BY <5>1, <5>2
      <4> QED BY <4>1, <3>5 DEF Placed
    <3>9. Unlisted'
      BY <2>1, <3>3, <3>7 DEF Unlisted
    <3>10. Newest'
      <4>1. cmd'.pc = "await" /\ cmd'.new /\ cmd'.x = new /\ spawned' = new
        BY <2>3 DEF Counted, new
      <4>2. ~Second(h'[new])
        BY <3>2, <3>3 DEF Second
      <4>3. new \in 1..new /\ shards'[Len(shards')] = new
        BY <3>1, <3>5 DEF new
      <4> QED BY <4>1, <4>2, <4>3 DEF Newest
    <3>11. Restarts'
      <4>1. ~Second(h'[new]) /\ h'[new].restart # "backoff"
        BY <3>2, <3>3 DEF Second
      <4> QED BY <4>1, <2>1, <3>3, <3>7 DEF Restarts
    <3> QED BY <3>3, <3>6, <3>8, <3>9, <3>10, <3>11
  <2> QED BY <1>1, <2>2, <2>3, Zenon DEF AddStream, Ack
<1>2. CASE Unlist
  <2> DEFINE n == Len(shards)
  <2>1. /\ cmd.pc = "discard" /\ cmd' = [cmd EXCEPT !.pc = "reap"]
        /\ UNCHANGED <<h, spawned, stop, held>> /\ shards' = RemoveFirst(shards, cmd.x)
    BY <1>2 DEF Unlist, Goes, CmdOnly
  <2>2. /\ cmd.new /\ cmd.x \in 1..spawned /\ ~Second(h[cmd.x])
        /\ Listing(cmd.x) => cmd.x = shards[n]
    BY <2>1 DEF Newest
  <2>3. /\ 1..spawned \subseteq Handles /\ spawned \in Nat /\ n \in Nat
        /\ \A i \in 1..n : shards[i] \in 1..spawned
        /\ \A i, j \in 1..n : shards[i] = shards[j] => i = j
    BY ListedHandles
  <2>4. Shaped' /\ cmd'.pc = "reap" /\ cmd'.new /\ cmd'.x = cmd.x /\ cmd'.new \in BOOLEAN
    BY <2>1, <2>2 DEF Shaped, Counted
  <2>5. CASE ~Listing(cmd.x)
    <3>1. shards' = shards
      BY <2>1, <2>5 DEF RemoveFirst, Listing
    <3>2. \A x : Listing(x)' = Listing(x)
      BY <3>1 DEF Listing
    <3>3. Counted' /\ Placed'
      BY <2>1, <2>2, <3>1 DEF Counted, Placed
    <3>4. Unlisted'
      BY <2>1, <3>2 DEF Unlisted
    <3>5. Newest'
      BY <2>1, <2>2, <2>4, <3>1, <3>2 DEF Newest
    <3>6. Restarts'
      BY <2>1, <3>2 DEF Restarts
    <3> QED BY <2>4, <3>3, <3>4, <3>5, <3>6
  <2>6. CASE Listing(cmd.x)
    <3>1. n # 0 /\ cmd.x = shards[n] /\ shards # <<>>
      BY <2>2, <2>3, <2>6 DEF Listing
    <3>2. \A i \in 1..n : shards[i] = cmd.x => i = n
      BY <2>3, <3>1
    <3>3. shards \in Seq(1..spawned)
      BY DEF Counted
    <3>4. shards' = RemoveAt(shards, n)
      BY <2>1, <2>6, <3>2, <3>3, RemoveFirstIs DEF Listing
    <3>5. /\ shards' \in Seq(1..spawned) /\ Len(shards') = n - 1
          /\ \A i \in 1..(n - 1) : shards'[i] = shards[i]
      BY <3>1, <3>3, <3>4, RemoveLast
    <3> HIDE DEF n
    <3>6. ASSUME NEW x \in Handles
          PROVE  Listing(x)' <=> Listing(x) /\ x # cmd.x
      <4>1. ASSUME NEW i \in 1..n, i # n PROVE i \in 1..(n - 1)
        BY <4>1, <2>3
      <4>2. Listing(x) /\ x # cmd.x => Listing(x)'
        BY <4>1, <3>1, <3>5 DEF Listing, n
      <4>3. Listing(x)' => Listing(x) /\ x # cmd.x
        BY <2>3, <3>2, <3>5 DEF Listing, n
      <4> QED BY <4>2, <4>3
    <3>7. Counted'
      BY <2>1, <2>2, <3>5 DEF Counted
    <3>8. Placed'
      BY <2>1, <2>3, <3>5 DEF Placed, n
    <3>9. h[cmd.x].index = n - 1
      BY <2>3, <3>1 DEF Placed, n
    <3>10. Unlisted'
      BY <2>1, <2>4, <3>5, <3>6, <3>9 DEF Unlisted
    <3>11. Newest'
      <4>1. ~Listing(cmd.x)'
        BY <2>2, <2>3, <2>4, <3>6
      <4> QED BY <4>1, <2>1, <2>2, <2>4 DEF Newest
    <3>12. Restarts'
      BY <2>1, <2>2, <3>6 DEF Restarts
    <3> QED BY <2>4, <3>7, <3>8, <3>10, <3>11, <3>12
  <2> QED BY <2>5, <2>6
<1> QED BY <1>1, <1>2

\* A new instance takes the place of one that is down, or the restart is dropped.
LEMMA RestartSteps ==
    ASSUME IInv, NEW x \in Handles, Restart(x)
    PROVE  IInv'
<1> USE DEF IInv
<1>1. h[x].restart = "backoff" /\ UNCHANGED <<cmd, stop, held>> /\ h[x].proc = "down"
  BY DEF Restart, RestartOnly, Restarts
<1>2. IsHandle(h[x])
  BY DEF Shaped
<1> DEFINE old == [h[x] EXCEPT !.restart = "no"]
<1>3. IsHandle(old)
  BY <1>2, OneField
<1>4. /\ old.index = h[x].index /\ old.proc = "down" /\ old.restart = "no"
      /\ old.restarts = h[x].restarts /\ old.restarting = h[x].restarting
  BY <1>1, <1>2 DEF IsHandle
<1>5. Onward(h[x], old) /\ ~Second(old)
  BY <1>4 DEF Onward, Second, Alive
<1>6. CASE Superseded(x)
  <2>1. h' = [h EXCEPT ![x] = old] /\ UNCHANGED <<shards, spawned>>
    BY <1>6 DEF Restart
  <2> HIDE DEF old
  <2>2. Shaped' /\ h'[x] = old /\ \A y \in Handles : y # x => h'[y] = h[y]
    BY <2>1, <1>3, Touched
  <2>3. \A y \in Handles : h'[y] # h[y] => Onward(h[y], h'[y])
    BY <2>2, <1>5
  <2> QED BY <2>1, <2>2, <2>3, <1>1, OnwardKeeps
<1>7. CASE ~Superseded(x)
  <2> DEFINE n == Len(shards)
             new == spawned + 1
             e == Fresh(h[x].index, h[x].streams, h[x].restarts)
  <2>1. /\ spawned < MaxSpawns /\ spawned' = new
        /\ h' = [h EXCEPT ![x].restart = "no", ![new] = e]
        /\ shards' = [i \in DOMAIN shards |-> IF shards[i] = x THEN new ELSE shards[i]]
    BY <1>7 DEF Restart
  <2>2. stop = "no" /\ \E i \in 1..n : shards[i] = x
    BY <1>7, LenProperties DEF Superseded, ToSet, Counted
  <2>3. /\ 1..spawned \subseteq Handles /\ spawned \in Nat /\ n \in Nat /\ new \in Handles
        /\ \A i \in 1..n : shards[i] \in 1..spawned
        /\ \A i, j \in 1..n : shards[i] = shards[j] => i = j
    BY <2>1, ListedHandles, SupervisorAssumption DEF Handles, SupervisorAssumption
  <2>4. /\ IsHandle(e) /\ e.index = h[x].index /\ e.restart = "no" /\ e.proc = "starting"
        /\ e.restarts = h[x].restarts
    BY FreshHandle
  <2> HIDE DEF e
  <2>5. x # new /\ x \in 1..spawned /\ \A i \in 1..n : shards[i] # new
    BY <2>2, <2>3
  <2>6. Shaped' /\ h'[x] = old /\ h'[new] = e
        /\ \A y \in Handles : y # x /\ y # new => h'[y] = h[y]
    <3> DEFINE g == [h EXCEPT ![x] = old]
    <3>1. h' = [g EXCEPT ![new] = e]
      BY <2>1, <2>3, <2>5 DEF Shaped
    <3>2. /\ g = [y \in Handles |-> g[y]] /\ g[x] = old
          /\ \A y \in Handles : y # x => g[y] = h[y]
      BY DEF Shaped
    <3>3. \A y \in Handles : IsHandle(g[y])
      BY <3>2, <1>3 DEF Shaped
    <3> HIDE DEF g, old
    <3>4. /\ h' = [y \in Handles |-> h'[y]] /\ h'[new] = e
          /\ \A y \in Handles : y # new => h'[y] = g[y]
      BY <3>1, <3>2, <2>3
    <3>5. \A y \in Handles : IsHandle(h'[y])
      BY <3>3, <3>4, <2>4
    <3> QED BY <3>2, <3>4, <3>5, <2>5 DEF Shaped
  <2> HIDE DEF old
  <2>7. /\ shards' \in Seq(1..new) /\ Len(shards') = n
        /\ \A i \in 1..n : shards'[i] = IF shards[i] = x THEN new ELSE shards[i]
    <3>1. DOMAIN shards = 1..n
      BY LenProperties DEF Counted
    <3>2. shards' \in [1..n -> 1..new]
      BY <2>1, <2>3, <3>1
    <3>3. shards' \in Seq(1..new) /\ Len(shards') = n
      BY <3>2, <2>3, SeqDef, LenProperties
    <3> QED BY <3>1, <3>3, <2>1
  <2>8. Counted'
    BY <1>1, <2>1, <2>3, <2>7, SupervisorAssumption DEF Counted, SupervisorAssumption
  <2>9. ASSUME NEW y \in Handles
        PROVE  Listing(y)' <=> (Listing(y) /\ y # x) \/ y = new
    <3> HIDE DEF n, new
    <3>1. Listing(y) /\ y # x => Listing(y)'
      BY <2>7 DEF Listing, n
    <3>2. Listing(y)' => (Listing(y) /\ y # x) \/ y = new
      BY <2>7, <2>5 DEF Listing, n
    <3>3. y = new => Listing(y)'
      BY <2>2, <2>7 DEF Listing
    <3> QED BY <3>1, <3>2, <3>3
  <2> HIDE DEF n, new
  <2>10. Placed'
    <3>1. ASSUME NEW i \in 1..n
          PROVE  h'[shards'[i]].index = i - 1
      <4>1. h[shards[i]].index = i - 1 /\ shards[i] \in Handles /\ shards[i] # new
        BY <2>3, <2>5 DEF Placed, n
      <4>2. CASE shards[i] = x
        BY <4>1, <4>2, <2>4, <2>6, <2>7
      <4>3. CASE shards[i] # x
        BY <4>1, <4>3, <2>6, <2>7
      <4> QED BY <4>2, <4>3
    <3> QED BY <3>1, <2>7 DEF Placed
  <2>11. Unlisted'
    <3>1. ASSUME NEW y \in Handles, h'[y].proc \in Alive, ~Listing(y)'
          PROVE  cmd'.pc = "reap" /\ cmd'.x = y /\ h'[y].index = Len(shards')
      <4>1. y # new /\ y # x
        BY <3>1, <2>6, <2>9, <1>4 DEF Alive
      <4>2. h'[y] = h[y] /\ ~Listing(y)
        BY <4>1, <3>1, <2>6, <2>9
      <4> QED BY <4>2, <3>1, <2>7, <1>1 DEF Unlisted, n
    <3> QED BY <3>1 DEF Unlisted
  <2>12. Newest'
    <3>1. CASE ~cmd.new
      BY <3>1, <1>1 DEF Newest
    <3>2. CASE cmd.new
      <4>1. /\ cmd.x \in 1..spawned /\ cmd.x \in Handles /\ cmd.x # new
            /\ ~Second(h[cmd.x]) /\ (Listing(cmd.x) => cmd.x = shards[n])
        BY <3>2, <2>3 DEF Newest, n, new
      <4>2. ~Second(h'[cmd.x]) /\ cmd.x \in 1..new
        BY <4>1, <2>3, <2>6, <1>5 DEF new
      <4>3. Listing(cmd.x)' => cmd.x = shards'[n]
        <5>1. SUFFICES ASSUME Listing(cmd.x)' PROVE cmd.x = shards'[n]
          OBVIOUS
        <5>2. Listing(cmd.x) /\ cmd.x # x
          BY <5>1, <4>1, <2>9, <1>1
        <5>3. n \in 1..n
          BY <5>2, <2>3 DEF Listing, n
        <5> QED BY <5>2, <5>3, <4>1, <2>7
      <4> QED BY <3>2, <4>2, <4>3, <1>1, <2>1, <2>7 DEF Newest
    <3> QED BY <3>1, <3>2
  <2>13. Restarts'
    <3>1. ASSUME NEW y \in Handles
          PROVE  /\ h'[y].restart = "backoff" => h'[y].proc = "down"
                 /\ Second(h'[y]) => Listing(y)'
      <4>1. CASE y = x
        BY <4>1, <2>6, <1>4, <1>5
      <4>2. CASE y = new
        BY <4>2, <2>4, <2>6, <2>9
      <4>3. CASE y # x /\ y # new
        BY <4>3, <2>2, <2>6, <2>9 DEF Restarts
      <4> QED BY <4>1, <4>2, <4>3
    <3> QED BY <3>1, <2>2, <1>1 DEF Restarts
  <2> QED BY <2>6, <2>8, <2>10, <2>11, <2>12, <2>13
<1> QED BY <1>6, <1>7

\* stop() sets the flag, asks the shards it finds, and reclaims those.
LEMMA StopSteps ==
    ASSUME IInv, Stop
    PROVE  IInv'
<1> USE DEF IInv
<1>1. UNCHANGED <<shards, spawned, cmd>>
  BY DEF Stop, StopSet, StopAsk, StopReap, StopOnly
<1>2. \A y : Listing(y)' = Listing(y)
  BY <1>1 DEF Listing
<1>3. \A i \in 1..Len(shards) : shards[i] \in Handles
  BY ListedHandles
<1>4. \A y \in Handles : Listing(y) <=> y \in ToSet(shards)
  BY LenProperties DEF Listing, ToSet, Counted
<1>5. ToSet(shards) \subseteq Handles
  BY <1>3, LenProperties DEF ToSet, Counted
<1>6. ASSUME Shaped', \A y \in Handles : Onward(h[y], h'[y]), Counted', Restarts'
      PROVE  IInv'
  <2>1. Placed'
    BY <1>1, <1>3, <1>6 DEF Placed, Onward
  <2>2. Unlisted'
    BY <1>1, <1>2, <1>6 DEF Unlisted, Onward
  <2>3. Newest'
    BY <1>1, <1>2, <1>6, ListedHandles DEF Newest, Onward
  <2> QED BY <1>6, <2>1, <2>2, <2>3
<1>7. CASE StopSet
  <2>1. stop = "no" /\ stop' = "set" /\ UNCHANGED <<h, held>>
    BY <1>7 DEF StopSet
  <2>2. Shaped' /\ \A y \in Handles : Onward(h[y], h'[y])
    BY <2>1 DEF Shaped, Onward, Restarts
  <2>3. Counted' /\ Restarts'
    BY <2>1, <1>1, <1>2 DEF Counted, Restarts
  <2> QED BY <2>2, <2>3, <1>6
<1>8. CASE StopAsk
  <2> DEFINE e(y) == IF y \in held' /\ h[y].open /\ h[y].proc \in Alive
                     THEN [h[y] EXCEPT !.inbox = Append(@, [op |-> "stop"])] ELSE h[y]
  <2>1. /\ stop = "set" /\ stop' = "asked" /\ held' = ToSet(shards)
        /\ h' = [y \in Handles |-> e(y)]
    BY <1>8 DEF StopAsk
  <2>2. ASSUME NEW y \in Handles
        PROVE  IsHandle(e(y)) /\ Onward(h[y], e(y)) /\ (Second(e(y)) => Second(h[y]))
               /\ (e(y).restart = "backoff" => e(y).proc = "down")
    <3> DEFINE f == [h[y] EXCEPT !.inbox = Append(@, [op |-> "stop"])]
    <3>1. IsHandle(h[y]) /\ (h[y].restart = "backoff" => h[y].proc = "down")
      BY DEF Shaped, Restarts
    <3>2. IsHandle(f)
      BY <3>1, OneField
    <3>3. Onward(h[y], f) /\ (Second(f) => Second(h[y]))
          /\ (f.restart = "backoff" => f.proc = "down")
      BY <3>1 DEF IsHandle, Onward, Second, Alive
    <3>4. Onward(h[y], h[y])
      BY <3>1 DEF Onward
    <3>5. e(y) = f \/ e(y) = h[y]
      OBVIOUS
    <3> HIDE DEF e, f
    <3> QED BY <3>1, <3>2, <3>3, <3>4, <3>5
  <2> HIDE DEF e
  <2>3. Shaped' /\ \A y \in Handles : h'[y] = e(y)
    BY <2>1, <2>2 DEF Shaped
  <2>4. Counted'
    BY <2>1, <1>1, <1>5 DEF Counted
  <2>5. Restarts'
    BY <2>1, <2>2, <2>3, <1>4 DEF Restarts
  <2> QED BY <2>2, <2>3, <2>4, <2>5, <1>6
<1>9. CASE StopReap
  <2>1. /\ stop = "asked" /\ stop' = "done" /\ UNCHANGED held
        /\ h' = [y \in Handles |-> IF y \in held THEN Killed(h[y]) ELSE h[y]]
    BY <1>9 DEF StopReap
  <2>2. ASSUME NEW y \in Handles
        PROVE  IsHandle(h'[y]) /\ Onward(h[y], h'[y]) /\ ~Second(h'[y])
    <3> DEFINE f == Killed(h[y])
    <3>1. IsHandle(h[y]) /\ Onward(h[y], h[y])
      BY DEF Shaped, Restarts, Onward
    <3>2. IsHandle(f)
      BY <3>1, OneField DEF Killed
    <3>3. f.index = h[y].index /\ f.proc = "down"
      BY <3>1 DEF IsHandle, Killed
    <3>4. h'[y] = IF y \in held THEN f ELSE h[y]
      BY <2>1
    <3>5. y \notin held => ~Second(h[y])
      BY <2>1 DEF Restarts
    <3> HIDE DEF f
    <3> QED BY <3>1, <3>2, <3>3, <3>4, <3>5 DEF Onward, Second, Alive
  <2>3. Shaped'
    BY <2>1, <2>2 DEF Shaped
  <2>4. Counted'
    BY <2>1, <1>1 DEF Counted
  <2>5. Restarts'
    BY <2>2 DEF Restarts, Onward
  <2> QED BY <2>2, <2>3, <2>4, <2>5, <1>6
<1> QED BY <1>7, <1>8, <1>9 DEF Stop
-----------------------------------------------------------------------------
(* The store of answers                                                    *)

\* The commands taken from the queue, and the names of those answered.
Log == Seq([rid : RequestIds, run : BOOLEAN])
IsKept(s, rid) == \E p \in 1..Len(s) : s[p].rid = rid

\* The other commands that were taken after the i-th.
Since(l, i) == {l[k].rid : k \in (i + 1)..Len(l)} \ {l[i].rid}
Outlived(l, i) == Cardinality(Since(l, i)) >= SeenSize

\* Every answer is kept once, in the order in which the commands were last seen; what was
\* taken is kept, or is the command in hand, or was outlived.
Store(l, s, inHand) ==
    /\ l \in Log /\ s \in Seq(Answers) /\ Len(s) <= SeenSize
    /\ \A p, q \in 1..Len(s) : s[p].rid = s[q].rid => p = q
    /\ \A p, q \in 1..Len(s) : p < q =>
          \A i \in 1..Len(l) : l[i].rid = s[p].rid =>
              \E k \in (i + 1)..Len(l) : l[k].rid = s[q].rid
    /\ \A i \in 1..Len(l) : l[i].rid \in inHand \/ IsKept(s, l[i].rid) \/ Outlived(l, i)

Once(l) ==
    \A j \in 1..Len(l) : \A i \in 1..(j - 1) :
        l[i].rid = l[j].rid /\ l[j].run
            => Cardinality({l[k].rid : k \in (i + 1)..(j - 1)} \ {l[j].rid}) >= SeenSize

\* The log goes on.
LEMMA LogGrows ==
    ASSUME NEW l \in Log, NEW e \in [rid : RequestIds, run : BOOLEAN]
    PROVE  /\ Append(l, e) \in Log /\ Len(Append(l, e)) = Len(l) + 1 /\ Len(l) \in Nat
           /\ Append(l, e)[Len(l) + 1] = e
           /\ \A i \in 1..Len(l) : Append(l, e)[i] = l[i]
BY AppendProperties, LenProperties DEF Log

\* The commands since another are a finite set.
LEMMA SinceFinite ==
    ASSUME NEW l \in Log, NEW i \in 1..Len(l)
    PROVE  IsFiniteSet(Since(l, i)) /\ Cardinality(Since(l, i)) \in Nat
<1> DEFINE K == (i + 1)..Len(l)
           T == {l[k].rid : k \in K}
           f == [k \in K |-> l[k].rid]
<1>1. Len(l) \in Nat
  BY LenProperties DEF Log
<1>2. IsFiniteSet(K)
  BY <1>1, FS_Interval
<1>3. f \in Surjection(K, T)
  BY DEF Surjection
<1>4. Since(l, i) \in SUBSET T
  BY DEF Since
<1> HIDE DEF T, f, K
<1>5. IsFiniteSet(T)
  BY <1>2, <1>3, FS_Surjection
<1> QED BY <1>4, <1>5, FS_Subset, FS_CardinalityType

LEMMA OutlivedStays ==
    ASSUME NEW l \in Log, NEW e \in [rid : RequestIds, run : BOOLEAN],
           NEW i \in 1..Len(l), Outlived(l, i), SeenSize \in Nat
    PROVE  Outlived(Append(l, e), i)
<1> DEFINE m == Append(l, e)
<1>1. /\ m \in Log /\ Len(m) = Len(l) + 1 /\ Len(l) \in Nat
      /\ \A k \in 1..Len(l) : m[k] = l[k]
  BY LogGrows
<1> HIDE DEF m
<1>2. i \in 1..Len(m) /\ (i + 1)..Len(l) \subseteq (i + 1)..Len(m) /\ (i + 1)..Len(l) \subseteq 1..Len(l)
  BY <1>1
<1>3. Since(l, i) \in SUBSET Since(m, i)
  BY <1>1, <1>2 DEF Since
<1>4. IsFiniteSet(Since(m, i)) /\ Cardinality(Since(m, i)) \in Nat /\ Cardinality(Since(l, i)) \in Nat
  BY <1>1, <1>2, SinceFinite
<1>5. Cardinality(Since(l, i)) <= Cardinality(Since(m, i))
  BY <1>3, <1>4, FS_Subset
<1> QED BY <1>4, <1>5 DEF Outlived, m

\* A command whose answer is not kept is taken from the queue: it runs for the first time,
\* or was outlived.
LEMMA TakenNew ==
    ASSUME NEW l, NEW s, Store(l, s, {}), Once(l), SeenSize \in Nat \ {0},
           NEW e \in [rid : RequestIds, run : BOOLEAN], ~IsKept(s, e.rid)
    PROVE  Store(Append(l, e), s, {e.rid}) /\ Once(Append(l, e))
<1> DEFINE m == Append(l, e)
           n == Len(l)
<1>1. /\ m \in Log /\ Len(m) = n + 1 /\ n \in Nat /\ m[n + 1] = e
      /\ \A k \in 1..n : m[k] = l[k]
  BY LogGrows DEF Store
<1>2. s \in Seq(Answers) /\ Len(s) \in Nat /\ l \in Log
  BY LenProperties DEF Store
<1> HIDE DEF m
<1>3. ASSUME NEW p \in 1..Len(s), NEW q \in 1..Len(s), p < q,
             NEW i \in 1..Len(m), m[i].rid = s[p].rid
      PROVE  \E k \in (i + 1)..Len(m) : m[k].rid = s[q].rid
  <2>1. i # n + 1
    BY <1>1, <1>3 DEF IsKept
  <2>2. i \in 1..n /\ l[i].rid = s[p].rid
    BY <1>1, <1>3, <2>1
  <2>3. PICK k \in (i + 1)..n : l[k].rid = s[q].rid
    BY <1>3, <2>2 DEF Store
  <2>4. k \in 1..n /\ k \in (i + 1)..Len(m)
    BY <1>1, <2>2
  <2> QED BY <2>3, <2>4, <1>1
<1>4. ASSUME NEW i \in 1..Len(m), m[i].rid # e.rid
      PROVE  IsKept(s, m[i].rid) \/ Outlived(m, i)
  <2>1. i \in 1..n /\ l[i] = m[i]
    BY <1>1, <1>4
  <2>2. IsKept(s, l[i].rid) \/ Outlived(l, i)
    BY <2>1 DEF Store
  <2> QED BY <2>1, <2>2, <1>2, OutlivedStays DEF m
<1>5. Store(m, s, {e.rid})
  BY <1>1, <1>2, <1>3, <1>4 DEF Store
<1>6. ASSUME NEW j \in 1..Len(m), NEW i \in 1..(j - 1), m[i].rid = m[j].rid, m[j].run
      PROVE  Cardinality({m[k].rid : k \in (i + 1)..(j - 1)} \ {m[j].rid}) >= SeenSize
  <2>1. CASE j \in 1..n
    <3>1. i \in 1..n /\ (i + 1)..(j - 1) \subseteq 1..n
      BY <2>1, <1>1
    <3>2. {m[k].rid : k \in (i + 1)..(j - 1)} = {l[k].rid : k \in (i + 1)..(j - 1)}
      BY <3>1, <1>1
    <3>3. m[i] = l[i] /\ m[j] = l[j]
      BY <2>1, <3>1, <1>1
    <3>4. Cardinality({l[k].rid : k \in (i + 1)..(j - 1)} \ {l[j].rid}) >= SeenSize
      BY <2>1, <3>3, <1>6 DEF Once
    <3> QED BY <3>2, <3>3, <3>4
  <2>2. CASE j = n + 1
    <3>1. i \in 1..n /\ j - 1 = n /\ (i + 1)..n \subseteq 1..n
      BY <2>2, <1>1
    <3>2. m[j] = e /\ l[i].rid = e.rid
      BY <2>2, <3>1, <1>1, <1>6
    <3>3. Outlived(l, i)
      BY <3>1, <3>2 DEF Store
    <3>4. {m[k].rid : k \in (i + 1)..n} = {l[k].rid : k \in (i + 1)..n}
      BY <3>1, <1>1
    <3>5. {m[k].rid : k \in (i + 1)..(j - 1)} \ {m[j].rid} = Since(l, i)
      BY <3>1, <3>2, <3>4 DEF Since
    <3> QED BY <3>3, <3>5 DEF Outlived
  <2> QED BY <2>1, <2>2, <1>1
<1> QED BY <1>1, <1>5, <1>6 DEF Once, m

\* A command whose answer is kept is taken: it is the last to be forgotten.
LEMMA RefreshIs ==
    ASSUME NEW s \in Seq(Answers), NEW r, IsKept(s, r.rid),
           \A p, q \in 1..Len(s) : s[p].rid = s[q].rid => p = q
    PROVE  \E k \in 1..Len(s) : s[k].rid = r.rid /\ Refresh(s, r) = Append(RemoveAt(s, k), s[k])
<1>1. Len(s) \in Nat /\ DOMAIN s = 1..Len(s)
  BY LenProperties
<1>2. PICK k \in 1..Len(s) : s[k].rid = r.rid
  BY DEF IsKept
<1> DEFINE I == {i \in 1..Len(s) : s[i].rid = r.rid}
<1>3. I = {i \in 1..Len(s) : i = k}
  BY <1>2
<1>4. Stored(s, r) = s[k]
  <2>1. \A i \in DOMAIN s : s[i].rid = r.rid <=> i = k
    BY <1>1, <1>2
  <2>2. k \in DOMAIN s
    BY <1>1
  <2>3. (CHOOSE i \in DOMAIN s : s[i].rid = r.rid) = k
    BY <2>1, <2>2
  <2> QED BY <2>3 DEF Stored
<1> HIDE DEF I
<1>5. k \in Nat /\ k # 0 /\ k <= Len(s)
  BY <1>1
<1>6. I # {} /\ Min(I) = k
  BY <1>1, <1>3, <1>5, OnlyMatch
<1>7. SelectInSeq(s, LAMBDA v : v.rid = r.rid) = k
  BY <1>6 DEF SelectInSeq, I
<1>8. RemoveFirstMatch(s, LAMBDA v : v.rid = r.rid) = RemoveAt(s, k)
  BY <1>2, <1>7 DEF RemoveFirstMatch
<1> QED BY <1>2, <1>4, <1>8 DEF Refresh

LEMMA TakenAgain ==
    ASSUME NEW l, NEW s, Store(l, s, {}), Once(l), SeenSize \in Nat \ {0}, NEW r,
           NEW e \in [rid : RequestIds, run : BOOLEAN], IsKept(s, e.rid), ~e.run, r.rid = e.rid
    PROVE  Store(Append(l, e), Refresh(s, r), {}) /\ Once(Append(l, e))
<1> DEFINE m == Append(l, e)
           n == Len(l)
           z == Len(s)
           t == Refresh(s, r)
<1>1. /\ m \in Log /\ Len(m) = n + 1 /\ n \in Nat /\ m[n + 1] = e
      /\ \A i \in 1..n : m[i] = l[i]
  BY LogGrows DEF Store
<1>2. s \in Seq(Answers) /\ z \in Nat /\ l \in Log /\ \A p, q \in 1..z : s[p].rid = s[q].rid => p = q
  BY LenProperties DEF Store
<1>3. PICK k \in 1..z : s[k].rid = r.rid /\ t = Append(RemoveAt(s, k), s[k])
  BY <1>2, RefreshIs
<1> HIDE DEF m, t
<1>4. /\ RemoveAt(s, k) \in Seq(Answers) /\ Len(RemoveAt(s, k)) = z - 1
      /\ \A p \in 1..(z - 1) : RemoveAt(s, k)[p] = IF p < k THEN s[p] ELSE s[p + 1]
  BY <1>2, RemoveAtIs
<1>5. s[k] \in Answers /\ z - 1 \in Nat /\ k \in Nat
  BY <1>2, ElementOfSeq
<1>6. /\ t \in Seq(Answers) /\ Len(t) = z /\ t[z] = s[k]
      /\ \A p \in 1..(z - 1) : t[p] = IF p < k THEN s[p] ELSE s[p + 1]
  BY <1>2, <1>3, <1>4, <1>5, AppendProperties
\* Where an answer was before.
<1> DEFINE was(p) == IF p = z THEN k ELSE IF p < k THEN p ELSE p + 1
<1>7. ASSUME NEW p \in 1..z
      PROVE  was(p) \in 1..z /\ t[p] = s[was(p)]
  <2>1. CASE p = z
    BY <2>1, <1>6
  <2>2. CASE p # z
    BY <2>2, <1>2, <1>5, <1>6
  <2> QED BY <2>1, <2>2
<1>8. ASSUME NEW p \in 1..z, NEW q \in 1..z
      PROVE  /\ was(p) = was(q) => p = q
             /\ p < q /\ q # z => was(p) < was(q)
             /\ p # z => was(p) # k
  BY <1>2, <1>5
<1> HIDE DEF was
<1>9. ASSUME NEW p \in 1..z, NEW q \in 1..z, t[p].rid = t[q].rid
      PROVE  p = q
  <2>1. was(p) \in 1..z /\ was(q) \in 1..z /\ s[was(p)].rid = s[was(q)].rid
    BY <1>7, <1>9
  <2>2. was(p) = was(q)
    BY <2>1, <1>2
  <2> QED BY <2>2, <1>8
<1>10. ASSUME NEW p \in 1..z, NEW q \in 1..z, p < q, NEW i \in 1..Len(m), m[i].rid = t[p].rid
      PROVE  \E j \in (i + 1)..Len(m) : m[j].rid = t[q].rid
  <2>1. p # z /\ was(p) \in 1..z /\ was(p) # k /\ t[p] = s[was(p)]
    BY <1>2, <1>7, <1>8, <1>10
  <2>2. t[p].rid # e.rid
    BY <2>1, <1>2, <1>3
  <2>3. i \in 1..n /\ l[i].rid = s[was(p)].rid
    BY <1>1, <1>10, <2>1, <2>2
  <2>4. CASE q = z
    <3>1. m[n + 1].rid = t[q].rid /\ n + 1 \in (i + 1)..Len(m)
      BY <1>1, <1>3, <1>6, <2>3, <2>4
    <3> QED BY <3>1
  <2>5. CASE q # z
    <3>1. was(q) \in 1..z /\ t[q] = s[was(q)] /\ was(p) < was(q)
      BY <2>5, <1>7, <1>8, <1>10
    <3>2. PICK j \in (i + 1)..n : l[j].rid = s[was(q)].rid
      BY <2>1, <2>3, <3>1 DEF Store
    <3>3. j \in 1..n /\ j \in (i + 1)..Len(m)
      BY <1>1, <2>3
    <3> QED BY <3>1, <3>2, <3>3, <1>1
  <2> QED BY <2>4, <2>5
<1>11. ASSUME NEW rid, IsKept(s, rid)
       PROVE  IsKept(t, rid)
  <2>1. PICK p \in 1..z : s[p].rid = rid
    BY <1>11 DEF IsKept
  <2>2. CASE p = k
    BY <2>1, <2>2, <1>2, <1>6 DEF IsKept
  <2>3. CASE p < k
    <3>1. p \in 1..(z - 1) /\ p \in 1..z /\ t[p] = s[p]
      BY <2>3, <1>2, <1>5, <1>6
    <3> QED BY <2>1, <3>1, <1>6 DEF IsKept
  <2>4. CASE p > k
    <3>1. p - 1 \in 1..(z - 1) /\ p - 1 \in 1..z /\ ~(p - 1 < k) /\ (p - 1) + 1 = p
      BY <2>4, <1>2, <1>5
    <3>2. t[p - 1] = s[p]
      BY <3>1, <1>6
    <3> QED BY <2>1, <3>1, <3>2, <1>6 DEF IsKept
  <2> QED BY <2>2, <2>3, <2>4, <1>2
<1>12. ASSUME NEW i \in 1..Len(m)
       PROVE  IsKept(t, m[i].rid) \/ Outlived(m, i)
  <2>1. CASE i = n + 1
    BY <2>1, <1>1, <1>11
  <2>2. CASE i # n + 1
    <3>1. i \in 1..n /\ l[i] = m[i]
      BY <2>2, <1>1
    <3>2. IsKept(s, l[i].rid) \/ Outlived(l, i)
      BY <3>1 DEF Store
    <3> QED BY <3>1, <3>2, <1>2, <1>11, OutlivedStays DEF m
  <2> QED BY <2>1, <2>2
<1>13. Store(m, t, {})
  <2>1. z <= SeenSize
    BY DEF Store
  <2> QED BY <2>1, <1>1, <1>6, <1>9, <1>10, <1>12 DEF Store
<1>14. ASSUME NEW j \in 1..Len(m), NEW i \in 1..(j - 1), m[i].rid = m[j].rid, m[j].run
       PROVE  Cardinality({m[x].rid : x \in (i + 1)..(j - 1)} \ {m[j].rid}) >= SeenSize
  <2>1. j \in 1..n
    BY <1>1, <1>14
  <2>2. i \in 1..n /\ (i + 1)..(j - 1) \subseteq 1..n
    BY <2>1, <1>1
  <2>3. {m[x].rid : x \in (i + 1)..(j - 1)} = {l[x].rid : x \in (i + 1)..(j - 1)}
    BY <2>2, <1>1
  <2>4. m[i] = l[i] /\ m[j] = l[j]
    BY <2>1, <2>2, <1>1
  <2>5. Cardinality({l[x].rid : x \in (i + 1)..(j - 1)} \ {l[j].rid}) >= SeenSize
    BY <2>1, <2>4, <1>14 DEF Once
  <2> QED BY <2>3, <2>4, <2>5
<1> QED BY <1>1, <1>13, <1>14 DEF Once, m, t

\* The command in hand is answered; the answer that is dropped for it was outlived.
LEMMA Answered ==
    ASSUME NEW l, NEW s, NEW a \in Answers, Store(l, s, {a.rid}), SeenSize \in Nat \ {0},
           ~IsKept(s, a.rid), Len(l) # 0, l[Len(l)].rid = a.rid
    PROVE  Store(l, Remember(s, a), {})
<1> DEFINE t == Append(s, a)
           n == Len(l)
           z == Len(s)
<1>1. l \in Log /\ n \in Nat /\ s \in Seq(Answers) /\ z \in Nat /\ z <= SeenSize
  BY LenProperties DEF Store, Log
<1>2. t \in Seq(Answers) /\ Len(t) = z + 1 /\ t[z + 1] = a /\ \A p \in 1..z : t[p] = s[p]
  BY <1>1, AppendProperties
<1> HIDE DEF t
<1>3. ASSUME NEW p \in 1..(z + 1), NEW q \in 1..(z + 1), t[p].rid = t[q].rid
      PROVE  p = q
  <2>1. p = z + 1 <=> q = z + 1
    BY <1>1, <1>2, <1>3 DEF IsKept
  <2>2. CASE p = z + 1
    BY <2>1, <2>2
  <2>3. CASE p # z + 1
    <3>1. p \in 1..z /\ q \in 1..z
      BY <2>1, <2>3, <1>1
    <3> QED BY <3>1, <1>2, <1>3 DEF Store
  <2> QED BY <2>2, <2>3
<1>4. ASSUME NEW p \in 1..(z + 1), NEW q \in 1..(z + 1), p < q,
             NEW i \in 1..n, l[i].rid = t[p].rid
      PROVE  \E k \in (i + 1)..n : l[k].rid = t[q].rid
  <2>1. p \in 1..z /\ l[i].rid = s[p].rid
    BY <1>1, <1>2, <1>4
  <2>2. CASE q = z + 1
    <3>1. i # n
      BY <2>1, <1>1 DEF IsKept
    <3>2. n \in (i + 1)..n
      BY <3>1, <1>1
    <3> QED BY <2>2, <3>2, <1>2
  <2>3. CASE q # z + 1
    <3>1. q \in 1..z /\ t[q] = s[q]
      BY <2>3, <1>1, <1>2
    <3> QED BY <2>1, <3>1, <1>4 DEF Store
  <2> QED BY <2>2, <2>3
<1>5. ASSUME NEW i \in 1..n
      PROVE  IsKept(t, l[i].rid) \/ Outlived(l, i)
  <2>1. l[i].rid = a.rid \/ IsKept(s, l[i].rid) \/ Outlived(l, i)
    BY DEF Store
  <2>2. IsKept(t, a.rid)
    BY <1>1, <1>2 DEF IsKept
  <2>3. IsKept(s, l[i].rid) => IsKept(t, l[i].rid)
    BY <1>1, <1>2 DEF IsKept
  <2> QED BY <2>1, <2>2, <2>3
<1>6. CASE ~(Len(t) > SeenSize)
  <2>1. Remember(s, a) = t
    BY <1>6 DEF Remember, t
  <2>2. Len(t) <= SeenSize
    BY <1>6, <1>1, <1>2
  <2> QED BY <2>1, <2>2, <1>1, <1>2, <1>3, <1>4, <1>5 DEF Store
<1>7. CASE Len(t) > SeenSize
  <2> DEFINE u == Tail(t)
  <2>1. Remember(s, a) = u /\ z = SeenSize
    BY <1>1, <1>2, <1>7 DEF Remember, t
  <2>2. t # <<>>
    BY <1>1, <1>2, EmptySeq
  <2>3. u \in Seq(Answers) /\ Len(u) = z /\ \A p \in 1..z : u[p] = t[p + 1]
    BY <1>1, <1>2, <2>2, HeadTailProperties
  <2> HIDE DEF u
  <2>4. \A p \in 1..z : p + 1 \in 1..(z + 1)
    BY <1>1
  <2>5. ASSUME NEW p \in 1..z, NEW q \in 1..z, u[p].rid = u[q].rid
        PROVE  p = q
    <3>1. p + 1 = q + 1
      BY <2>3, <2>4, <2>5, <1>3
    <3> QED BY <3>1, <1>1
  <2>6. ASSUME NEW p \in 1..z, NEW q \in 1..z, p < q, NEW i \in 1..n, l[i].rid = u[p].rid
        PROVE  \E k \in (i + 1)..n : l[k].rid = u[q].rid
    <3>1. p + 1 < q + 1 /\ u[p] = t[p + 1] /\ u[q] = t[q + 1]
      BY <1>1, <2>3, <2>6
    <3> QED BY <3>1, <2>4, <2>6, <1>4
  <2>7. ASSUME NEW i \in 1..n
        PROVE  IsKept(u, l[i].rid) \/ Outlived(l, i)
    <3>1. CASE Outlived(l, i)
      BY <3>1
    <3>2. CASE IsKept(t, l[i].rid)
      <4>1. PICK p \in 1..(z + 1) : t[p].rid = l[i].rid
        BY <1>2, <3>2 DEF IsKept
      <4>2. CASE p # 1
        <5>1. p - 1 \in 1..z /\ (p - 1) + 1 = p
          BY <4>2, <1>1
        <5>2. u[p - 1] = t[p]
          BY <5>1, <2>3
        <5> QED BY <4>1, <5>1, <5>2, <2>3 DEF IsKept
      <4>3. CASE p = 1
        <5> DEFINE f == [q \in 1..z |-> u[q].rid]
        <5>1. ASSUME NEW q \in 1..z
              PROVE  u[q].rid \in Since(l, i)
          <6>1. u[q] = t[q + 1] /\ 1 \in 1..(z + 1) /\ q + 1 \in 1..(z + 1) /\ 1 < q + 1
            BY <1>1, <2>3
          <6>2. \E k \in (i + 1)..n : l[k].rid = t[q + 1].rid
            BY <6>1, <4>1, <4>3, <1>4
          <6>3. t[q + 1].rid # t[1].rid
            BY <6>1, <1>3
          <6> QED BY <6>1, <6>2, <6>3, <4>1, <4>3 DEF Since
        <5>2. f \in Injection(1..z, Since(l, i))
          BY <5>1, <2>5 DEF Injection, IsInjective
        <5>3. IsFiniteSet(Since(l, i)) /\ Cardinality(Since(l, i)) \in Nat
          BY <1>1, SinceFinite
        <5>4. Cardinality(1..z) = z
          <6>1. 1 \in Int /\ z \in Int
            BY <1>1
          <6>2. Cardinality(1..z) = IF 1 > z THEN 0 ELSE z - 1 + 1
            BY <6>1, FS_Interval
          <6> QED BY <6>2, <1>1
        <5> HIDE DEF f
        <5>5. Cardinality(1..z) <= Cardinality(Since(l, i))
          BY <5>2, <5>3, FS_Injection
        <5> QED BY <5>3, <5>4, <5>5, <2>1 DEF Outlived
      <4> QED BY <4>2, <4>3
    <3> QED BY <3>1, <3>2, <1>5
  <2>8. Store(l, u, {})
    <3>1. Len(u) <= SeenSize
      BY <2>1, <2>3
    <3> QED BY <3>1, <2>3, <2>5, <2>6, <2>7, <1>1 DEF Store
  <2> QED BY <2>1, <2>8
<1> QED BY <1>6, <1>7

\* The command thread has at most one command in hand, the last one taken.
Busy == cmd.pc \notin {"idle", "gone"}
InHand == IF Busy THEN {cmd.req.rid} ELSE {}

Answering ==
    /\ queue \in Seq(Requests) /\ Store(handled, seen, InHand) /\ Once(handled)
    /\ Busy => /\ cmd.req \in Requests /\ ~IsKept(seen, cmd.req.rid)
               /\ Len(handled) # 0 /\ handled[Len(handled)].rid = cmd.req.rid

LEMMA AnsweringStarts == Init => Answering
<1> SUFFICES ASSUME Init PROVE Answering
  OBVIOUS
<1>1. queue = <<>> /\ handled = <<>> /\ seen = <<>> /\ cmd.pc = "idle"
  BY DEF Init
<1>2. \A S : <<>> \in Seq(S) /\ Len(<<>>) = 0
  BY EmptySeq
<1>3. 1..0 = {}
  OBVIOUS
<1>4. Store(<<>>, <<>>, {}) /\ Once(<<>>)
  BY <1>2, <1>3, PlaneAssumption DEF Store, Once, Log, PlaneAssumption
<1> QED BY <1>1, <1>2, <1>4 DEF Answering, Busy, InHand

LEMMA AnsweringSteps ==
    ASSUME IInv, Answering, [Next]_vars
    PROVE  Answering'
<1> USE PlaneAssumption DEF PlaneAssumption
<1>1. cmd = [pc |-> cmd.pc, req |-> cmd.req, x |-> cmd.x, new |-> cmd.new, tag |-> cmd.tag]
  BY DEF IInv, Counted
<1>2. queue \in Seq(Requests) /\ Store(handled, seen, InHand) /\ Once(handled)
  BY DEF Answering
<1>3. ASSUME queue' \in Seq(Requests), UNCHANGED <<handled, seen>>,
             cmd'.req = cmd.req, Busy' <=> Busy
      PROVE  Answering'
  BY <1>3 DEF Answering, InHand
<1>4. UNCHANGED <<queue, handled, seen, cmd>> => Answering'
  BY <1>2, <1>3 DEF Busy
\* The command in hand is answered.
<1>5. ASSUME NEW ok \in BOOLEAN, Ack(ok), Busy, UNCHANGED <<queue, handled>>
      PROVE  Answering'
  <2> DEFINE a == [rid |-> cmd.req.rid, ok |-> ok]
  <2>1. seen' = Remember(seen, a) /\ cmd' = Idle
    BY <1>5 DEF Ack
  <2>2. ~Busy'
    BY <1>1, <2>1 DEF Busy, Idle
  <2>3. a \in Answers /\ a.rid = cmd.req.rid
    BY <1>5 DEF Answering, Answers, RequestIds
  <2>4. /\ Store(handled, seen, {a.rid}) /\ ~IsKept(seen, a.rid)
        /\ Len(handled) # 0 /\ handled[Len(handled)].rid = a.rid
    BY <1>5, <2>3 DEF Answering, InHand
  <2> HIDE DEF a
  <2>5. Store(handled, Remember(seen, a), {})
    BY <2>3, <2>4, Answered
  <2> QED BY <1>2, <1>5, <2>1, <2>2, <2>5 DEF Answering, InHand
\* The command goes on.
<1>6. ASSUME Busy, UNCHANGED <<queue, handled, seen>>, cmd'.req = cmd.req,
             cmd'.pc \in {"send", "await", "reply", "commit", "persist", "discard", "reap"}
      PROVE  Answering'
  BY <1>2, <1>3, <1>6 DEF Busy
<1>7. CASE Take
  <2> DEFINE r == Head(queue)
             e == [rid |-> r.rid, run |-> ~Known(seen, r)]
  <2>1. /\ cmd.pc = "idle" /\ queue # <<>> /\ queue' = Tail(queue)
        /\ handled' = Append(handled, e)
    BY <1>7 DEF Take
  <2>2. r \in Requests /\ queue' \in Seq(Requests)
    BY <1>2, <2>1, HeadTailProperties
  <2>3. e \in [rid : RequestIds, run : BOOLEAN] /\ e.rid = r.rid /\ e.run = ~Known(seen, r)
    BY <2>2 DEF RequestIds
  <2>4. Store(handled, seen, {}) /\ ~Busy
    BY <1>2, <2>1 DEF InHand, Busy
  <2>5. Known(seen, r) <=> IsKept(seen, r.rid)
    BY <2>4, LenProperties DEF Store, Known, IsKept
  <2>6. /\ Len(handled') # 0 /\ handled'[Len(handled')].rid = r.rid
        /\ handled' \in Log
    <3> HIDE DEF e, r
    <3>1. handled \in Log
      BY <2>4 DEF Store
    <3>2. /\ handled' \in Log /\ Len(handled') = Len(handled) + 1 /\ Len(handled) \in Nat
          /\ handled'[Len(handled) + 1] = e
      BY <2>1, <2>3, <3>1, LogGrows
    <3> QED BY <2>3, <3>2
  <2>7. CASE Known(seen, r)
    <3>1. seen' = Refresh(seen, r) /\ UNCHANGED cmd
      BY <1>7, <2>7 DEF Take
    <3> HIDE DEF e, r
    <3>2. Store(handled', seen', {}) /\ Once(handled')
      BY <1>2, <2>1, <2>3, <2>4, <2>5, <2>7, <3>1, TakenAgain
    <3>3. ~Busy'
      BY <2>4, <3>1 DEF Busy
    <3> QED BY <2>2, <3>2, <3>3 DEF Answering, InHand
  <2>8. CASE ~Known(seen, r)
    <3>1. Store(handled', seen, {r.rid}) /\ Once(handled')
      <4> HIDE DEF e, r
      <4> QED BY <1>2, <2>1, <2>3, <2>4, <2>5, <2>8, TakenNew
    <3>2. CASE ~ValidParams(r)
      <4> DEFINE a == [rid |-> r.rid, ok |-> FALSE]
      <4>1. seen' = Remember(seen, a) /\ UNCHANGED cmd
        BY <1>7, <2>8, <3>2 DEF Take
      <4>2. a \in Answers /\ a.rid = r.rid
        BY <2>2 DEF Answers, RequestIds
      <4> HIDE DEF a, e, r
      <4>3. Store(handled', seen', {})
        BY <2>5, <2>6, <2>8, <3>1, <4>1, <4>2, Answered
      <4>4. ~Busy'
        BY <2>4, <4>1 DEF Busy
      <4> QED BY <2>2, <3>1, <4>3, <4>4 DEF Answering, InHand
    <3>3. CASE ValidParams(r)
      <4>1. cmd' = [cmd EXCEPT !.pc = r.op, !.req = r] /\ UNCHANGED seen
        BY <1>7, <2>8, <3>3 DEF Take
      <4>2. r.op \in {"add", "threshold", "remove"}
        BY <3>3 DEF ValidParams
      <4> HIDE DEF e, r
      <4>3. Busy' /\ cmd'.req = r
        BY <1>1, <4>1, <4>2 DEF Busy
      <4> QED BY <2>2, <2>5, <2>6, <2>8, <3>1, <4>1, <4>3 DEF Answering, InHand
    <3> QED BY <3>2, <3>3
  <2> QED BY <2>7, <2>8
<1>8. CASE CmdLeaves
  <2>1. /\ UNCHANGED <<queue, handled, seen>> /\ cmd.pc = "idle"
        /\ cmd' = [cmd EXCEPT !.pc = "gone"]
    BY <1>8 DEF CmdLeaves, CmdOnly
  <2>2. cmd'.req = cmd.req /\ ~Busy /\ ~Busy'
    BY <1>1, <2>1 DEF Busy
  <2> QED BY <1>2, <1>3, <2>1, <2>2
<1>9. Fails /\ Busy /\ UNCHANGED <<queue, handled>> => Answering'
  <2>1. Fails => (Goes("discard") /\ UNCHANGED seen) \/ Ack(FALSE)
    BY DEF Fails
  <2>2. Goes("discard") => cmd'.req = cmd.req /\ cmd'.pc = "discard"
    BY <1>1 DEF Goes
  <2> QED BY <2>1, <2>2, <1>5, <1>6
<1>10. CASE AddStream
  <2>1. Busy /\ UNCHANGED <<queue, handled>>
    BY <1>10 DEF AddStream, Busy, CmdOnly
  <2>2. \/ Ack(FALSE)
        \/ UNCHANGED seen /\ \E x : cmd' = [cmd EXCEPT !.pc = "send", !.x = x]
        \/ UNCHANGED seen /\ \E x : cmd' = [cmd EXCEPT !.pc = "await", !.x = x, !.new = TRUE]
    BY <1>10 DEF AddStream
  <2>3. Ack(FALSE) \/ (UNCHANGED seen /\ cmd'.req = cmd.req /\ cmd'.pc \in {"send", "await"})
    BY <1>1, <2>2
  <2> QED BY <2>1, <2>3, <1>5, <1>6
<1>11. CASE AwaitStarted
  <2>1. Busy /\ UNCHANGED <<queue, handled, seen>> /\ (Goes("send") \/ Goes("discard"))
    BY <1>11 DEF AwaitStarted, Busy, CmdOnly
  <2>2. cmd'.req = cmd.req /\ cmd'.pc \in {"send", "discard"}
    BY <1>1, <2>1 DEF Goes
  <2> QED BY <2>1, <2>2, <1>6
<1>12. CASE FindStream
  <2>1. Busy /\ UNCHANGED <<queue, handled>>
    BY <1>12 DEF FindStream, Busy, CmdOnly
  <2>2. Ack(FALSE) \/ (UNCHANGED seen /\ \E x : cmd' = [cmd EXCEPT !.pc = "send", !.x = x])
    BY <1>12 DEF FindStream
  <2>3. Ack(FALSE) \/ (UNCHANGED seen /\ cmd'.req = cmd.req /\ cmd'.pc = "send")
    BY <1>1, <2>2
  <2> QED BY <2>1, <2>3, <1>5, <1>6
<1>13. CASE SendOp
  <2>1. Busy /\ UNCHANGED <<queue, handled>>
    BY <1>13 DEF SendOp, Busy, CmdOnly
  <2>2. Fails \/ (UNCHANGED seen /\ \E tag : cmd' = [cmd EXCEPT !.pc = "reply", !.tag = tag])
    BY <1>13 DEF SendOp
  <2>3. Fails \/ (UNCHANGED seen /\ cmd'.req = cmd.req /\ cmd'.pc = "reply")
    BY <1>1, <2>2
  <2> QED BY <2>1, <2>3, <1>6, <1>9
<1>14. CASE GetReply
  <2>1. Busy /\ UNCHANGED <<queue, handled>>
    BY <1>14 DEF GetReply, Busy, CmdOnly
  <2>2. Fails \/ (Goes("commit") /\ UNCHANGED seen)
    BY <1>14 DEF GetReply
  <2>3. Goes("commit") => cmd'.req = cmd.req /\ cmd'.pc = "commit"
    BY <1>1 DEF Goes
  <2> QED BY <2>1, <2>2, <2>3, <1>6, <1>9
<1>15. CASE Unlist
  <2>1. Busy /\ UNCHANGED <<queue, handled, seen>> /\ Goes("reap")
    BY <1>15 DEF Unlist, Busy, CmdOnly
  <2>2. cmd'.req = cmd.req /\ cmd'.pc = "reap"
    BY <1>1, <2>1 DEF Goes
  <2> QED BY <2>1, <2>2, <1>6
<1>16. CASE Reap
  <2>1. Busy /\ UNCHANGED <<queue, handled>> /\ Ack(FALSE)
    BY <1>16 DEF Reap, Busy, CmdOnly
  <2> QED BY <2>1, <1>5
<1>17. CASE CommitOp
  <2>1. Busy /\ UNCHANGED <<queue, handled>>
    BY <1>17 DEF CommitOp, Busy, CmdOnly
  <2>2. Ack(TRUE) \/ (Goes("persist") /\ UNCHANGED seen)
    BY <1>17 DEF CommitOp
  <2>3. Goes("persist") => cmd'.req = cmd.req /\ cmd'.pc = "persist"
    BY <1>1 DEF Goes
  <2> QED BY <2>1, <2>2, <2>3, <1>5, <1>6
<1>18. CASE Persist
  <2>1. Busy /\ UNCHANGED <<queue, handled>> /\ (Ack(TRUE) \/ Ack(FALSE))
    BY <1>18 DEF Persist, Busy
  <2> QED BY <2>1, <1>5
<1>19. ASSUME NEW x \in Handles,
              Process(x) \/ Lapse(x) \/ Examine(x) \/ Reclaim(x) \/ Restart(x)
       PROVE  Answering'
  BY <1>4, <1>19 DEF Process, Started, Beat, Serve, Crash, Hang, Resume, Lapse, Examine,
                     Reclaim, Restart, ProcessOnly, RestartOnly
<1>20. ASSUME NEW r \in Requests, NEW usable \in BOOLEAN, OnControlMessage(r, usable)
       PROVE  Answering'
  <2>1. UNCHANGED <<handled, seen, cmd>> /\ queue' = Admit(queue, r, usable)
    BY <1>20 DEF OnControlMessage
  <2>2. queue' \in Seq(Requests)
    BY <1>2, <2>1, AppendProperties DEF Admit
  <2> QED BY <1>3, <2>1, <2>2 DEF Busy
<1>21. CASE Stop
  BY <1>4, <1>21 DEF Stop, StopSet, StopAsk, StopReap, StopOnly
<1>22. CASE UNCHANGED vars
  BY <1>4, <1>22 DEF vars
<1>23. CASE Command
  BY <1>7, <1>8, <1>10, <1>11, <1>12, <1>13, <1>14, <1>15, <1>16, <1>17, <1>18, <1>23
  DEF Command
<1> QED BY <1>19, <1>20, <1>21, <1>22, <1>23 DEF Next
-----------------------------------------------------------------------------
(* The processes                                                           *)

\* start() makes at least one shard.
LEMMA ShardCount ==
    ASSUME NEW n \in Nat, PerWorker \in Nat, Workers \in Nat
    PROVE  ShardCountFor(n) \in Nat
<1>1. ASSUME NEW a \in Nat, NEW b \in Nat
      PROVE  Max({a, b}) \in {a, b} /\ Min({a, b}) \in {a, b}
  <2>1. (\A y \in {a, b} : a >= y) \/ (\A y \in {a, b} : b >= y)
    OBVIOUS
  <2>2. (\A y \in {a, b} : a <= y) \/ (\A y \in {a, b} : b <= y)
    OBVIOUS
  <2> QED BY <2>1, <2>2 DEF Max, Min
<1> DEFINE needed == IF PerWorker = 0 THEN 1
                     ELSE Max({1, (n + PerWorker - 1) \div PerWorker})
<1>2. needed \in Nat
  <2>1. PerWorker # 0 => (n + PerWorker - 1) \div PerWorker \in Nat
    OBVIOUS
  <2> QED BY <2>1, <1>1
<1>3. ShardCountFor(n) = IF Workers = 0 THEN needed ELSE Min({needed, Workers})
  BY DEF ShardCountFor
<1> HIDE DEF needed
<1> QED BY <1>1, <1>2, <1>3

LEMMA InitHolds == Init => IInv
<1> SUFFICES ASSUME Init PROVE IInv
  OBVIOUS
<1> DEFINE count == ShardCountFor(Len(Initial))
           first(x) == Fresh(x - 1, Dealt(count, x), 0)
<1>1. count \in Nat /\ count <= MaxSpawns
  BY ShardCount, LenProperties, StartAssumption, SupervisorAssumption
  DEF StartAssumption, SupervisorAssumption
<1>2. /\ h = [x \in Handles |-> IF x <= count THEN first(x) ELSE Nobody]
      /\ shards = [i \in 1..count |-> i] /\ spawned = count
      /\ cmd = [pc |-> "idle", req |-> [rid |-> 0], x |-> NoHandle, new |-> FALSE, tag |-> 0]
      /\ stop = "no" /\ held = {}
  BY DEF Init
<1>3. ASSUME NEW x
      PROVE  IsHandle(first(x)) /\ first(x).index = x - 1 /\ first(x).restarts = 0
             /\ first(x).restart = "no"
  BY FreshHandle
<1>4. IsHandle(Nobody) /\ Nobody.proc = "none" /\ Nobody.restarts = 0 /\ Nobody.restart = "no"
  BY DEF IsHandle, Nobody
<1> HIDE DEF count, first
<1>5. shards \in Seq(1..count) /\ Len(shards) = count /\ \A i \in 1..count : shards[i] = i
  BY <1>1, <1>2, SeqDef
<1>6. Shaped
  BY <1>2, <1>3, <1>4 DEF Shaped
<1>7. Counted
  BY <1>1, <1>2, <1>5 DEF Counted
<1>8. \A x \in Handles : x <= count => Listing(x)
  BY <1>1, <1>5 DEF Listing, Handles
<1>9. Placed
  BY <1>1, <1>2, <1>3, <1>5, SupervisorAssumption DEF Placed, Handles, SupervisorAssumption
<1>10. Unlisted
  BY <1>2, <1>4, <1>8 DEF Unlisted, Alive
<1>11. Newest
  BY <1>2 DEF Newest
<1>12. Restarts
  BY <1>2, <1>3, <1>4 DEF Restarts, Second
<1> QED BY <1>6, <1>7, <1>9, <1>10, <1>11, <1>12 DEF IInv

LEMMA NextKeeps == IInv /\ [Next]_vars => IInv'
<1> SUFFICES ASSUME IInv, [Next]_vars PROVE IInv'
  OBVIOUS
<1>1. ASSUME UNCHANGED <<h, shards, spawned, cmd, stop, held>>
      PROVE  IInv'
  BY <1>1, OnwardKeeps DEF IInv, Shaped
<1>2. ASSUME NEW x \in Handles,
             Process(x) \/ Lapse(x) \/ Examine(x) \/ Reclaim(x) \/ Restart(x)
      PROVE  IInv'
  BY <1>2, HandleSteps, RestartSteps
<1>3. ASSUME NEW r \in Requests, NEW usable \in BOOLEAN, OnControlMessage(r, usable)
      PROVE  IInv'
  BY <1>1, <1>3 DEF OnControlMessage
<1>4. CASE Command
  BY <1>4, CommandSteps, ListSteps DEF Command
<1>5. CASE Stop
  BY <1>5, StopSteps
<1>6. CASE UNCHANGED vars
  BY <1>1, <1>6 DEF vars
<1> QED BY <1>2, <1>3, <1>4, <1>5, <1>6 DEF Next

THEOREM Handling == Spec => []IInv
BY InitHolds, NextKeeps, PTL DEF Spec

\* Two processes never share an index, and so neither the MQTT session nor the directory
\* it names; and none that a restart made survives stop() (_reclaim_shard before
\* _spawn_shard, _restart_shard under _mu, _discard_shard).
THEOREM RestartsAreSound == Spec => []RestartsSound
<1>1. IInv => OneProcessPerIndex
  <2> SUFFICES ASSUME IInv, NEW x \in Handles, NEW y \in Handles,
                      h[x].proc \in Alive, h[y].proc \in Alive, h[x].index = h[y].index
               PROVE  x = y
    BY DEF OneProcessPerIndex
  <2>1. Len(shards) \in Nat
    BY ListedHandles
  <2>2. ASSUME NEW z \in Handles, Listing(z)
        PROVE  \E i \in 1..Len(shards) : shards[i] = z /\ h[z].index = i - 1
    BY <2>2 DEF Listing, IInv, Placed
  <2>3. ASSUME NEW z \in Handles, ~Listing(z), h[z].proc \in Alive
        PROVE  cmd.x = z /\ h[z].index = Len(shards)
    BY <2>3 DEF IInv, Unlisted
  <2>4. CASE Listing(x) /\ Listing(y)
    <3>1. PICK i \in 1..Len(shards) : shards[i] = x /\ h[x].index = i - 1
      BY <2>2, <2>4
    <3>2. PICK j \in 1..Len(shards) : shards[j] = y /\ h[y].index = j - 1
      BY <2>2, <2>4
    <3>3. i = j
      <4>1. i - 1 = j - 1
        BY <3>1, <3>2
      <4> QED BY <4>1
    <3> QED BY <3>1, <3>2, <3>3
  <2>5. CASE ~Listing(x) /\ ~Listing(y)
    BY <2>3, <2>5
  <2>6. CASE Listing(x) /\ ~Listing(y)
    <3>1. PICK i \in 1..Len(shards) : h[x].index = i - 1
      BY <2>2, <2>6
    <3>2. i - 1 = Len(shards)
      BY <2>3, <2>6, <3>1
    <3> QED BY <2>1, <3>2
  <2>7. CASE ~Listing(x) /\ Listing(y)
    <3>1. PICK i \in 1..Len(shards) : h[y].index = i - 1
      BY <2>2, <2>7
    <3>2. i - 1 = Len(shards)
      BY <2>3, <2>7, <3>1
    <3> QED BY <2>1, <3>2
  <2> QED BY <2>4, <2>5, <2>6, <2>7
<1>2. IInv => StopIsFinal
  BY DEF IInv, Restarts, StopIsFinal, Second
<1> QED BY <1>1, <1>2, Handling, PTL DEF RestartsSound

\* A command is executed a second time only after so many others that its answer had to be
\* forgotten, however often it is repeated and redelivered (ControlPlane.handle).
THEOREM CommandsOnce == Spec => []ExecutedOnce
<1>1. Answering => ExecutedOnce
  BY LenProperties DEF Answering, Store, Log, Once, ExecutedOnce
<1>2. IInv /\ Answering /\ [Next]_vars => Answering'
  BY AnsweringSteps
<1> QED BY <1>1, <1>2, AnsweringStarts, Handling, PTL DEF Spec
-----------------------------------------------------------------------------
(* Types                                                                     *)

\* A handle whose fields are what the code puts there.
Typed(e) ==
    /\ e.index \in Nat /\ e.proc \in {"none", "starting", "up", "down"}
    /\ e.hung \in BOOLEAN /\ e.open \in BOOLEAN /\ e.alive \in BOOLEAN
    /\ e.started \in BOOLEAN /\ e.restarting \in BOOLEAN
    /\ e.heard \in {"never", "fresh", "late"} /\ e.restarts \in Nat
    /\ e.restart \in {"no", "reclaim", "backoff"}
    /\ e.streams \in Seq(Streams) /\ e.running \subseteq Streams
    /\ e.inbox \in Seq(Messages)
    /\ e.proc # "up" => e.running = {}

\* Every command that was taken or waits was delivered, so that a tag is never above the
\* bound; and the one in hand is one that a shard understands.
Types ==
    /\ \A x \in Handles : Typed(h[x])
    /\ delivered \in 0..MaxDeliveries /\ Len(handled) + Len(queue) <= delivered
    /\ Len(queue) <= QueueMax
    /\ cmd.pc \in {"idle", "gone", "add", "remove", "threshold", "await", "send", "reply",
                   "discard", "reap", "commit", "persist"}
    /\ Busy => cmd.req.op \in {"add", "remove", "threshold"}
    /\ DOMAIN pending \subseteq Tags /\ file \in Seq(Seq(Streams))

\* A handle that is made has the streams it is given and runs none yet.
LEMMA FreshTyped ==
    ASSUME NEW index \in Nat, NEW streams \in Seq(Streams), NEW restarts \in Nat
    PROVE  Typed(Nobody) /\ Typed(Fresh(index, streams, restarts))
<1>1. <<>> \in Seq(Streams) /\ <<>> \in Seq(Messages)
  BY EmptySeq
<1>2. Typed(Nobody)
  BY <1>1 DEF Nobody, Typed
<1> DEFINE f == Fresh(index, streams, restarts)
<1>3. /\ f.index = index /\ f.proc = "starting" /\ f.hung = FALSE /\ f.open = TRUE
      /\ f.alive = FALSE /\ f.heard = "never" /\ f.started = FALSE /\ f.restarting = FALSE
      /\ f.restarts = restarts /\ f.restart = "no" /\ f.streams = streams
      /\ f.running = {} /\ f.inbox = <<>>
  BY DEF Fresh, Nobody
<1> HIDE DEF f
<1>4. Typed(f)
  BY <1>1, <1>3 DEF Typed
<1> QED BY <1>2, <1>4 DEF f

\* One handle changes.
LEMMA TouchedTyped ==
    ASSUME Shaped, Types, NEW x \in Handles, NEW e, Typed(e), h' = [h EXCEPT ![x] = e]
    PROVE  \A y \in Handles : Typed(h'[y])
<1>1. ASSUME NEW y \in Handles PROVE h'[y] = IF y = x THEN e ELSE h[y]
  BY DEF Shaped
<1> QED BY <1>1 DEF Types
-----------------------------------------------------------------------------
(* Parts of a sequence                                                       *)

LEMMA LeastOf ==
    ASSUME NEW T \in SUBSET Nat, T # {}
    PROVE  \E x \in T : \A y \in T : x <= y
<1> DEFINE R == OpToRel(<, Nat)
<1>1. IsWellFoundedOn(R, Nat)
  BY NatLessThanWellFounded, Zenon
<1>2. \A x, y \in Nat : x < y => <<x, y>> \in R
  BY DEF OpToRel
<1> HIDE DEF R
<1>3. PICK x \in T : \A y \in T : ~ (<<y, x>> \in R)
  BY <1>1, WFMin
<1>4. ASSUME NEW y \in T PROVE x <= y
  <2>1. x \in Nat /\ y \in Nat /\ ~(y < x)
    BY <1>2, <1>3
  <2> QED BY <2>1
<1> QED BY <1>4

LEMMA GreatestOf ==
    ASSUME NEW N \in Nat, NEW T \in SUBSET (1..N), T # {}
    PROVE  \E x \in T : \A y \in T : y <= x
<1> DEFINE D == {N - y : y \in T}
<1>1. D \in SUBSET Nat /\ D # {}
  <2>1. \A y \in T : y \in 1..N
    OBVIOUS
  <2>2. \A y \in 1..N : N - y \in Nat
    OBVIOUS
  <2>3. D \subseteq Nat
    BY <2>1, <2>2
  <2>4. PICK y \in T : TRUE
    OBVIOUS
  <2>5. N - y \in D
    OBVIOUS
  <2> QED BY <2>3, <2>5
<1>2. PICK d \in D : \A e \in D : d <= e
  BY <1>1, LeastOf
<1>3. PICK x \in T : d = N - x
  OBVIOUS
<1>4. ASSUME NEW y \in T PROVE y <= x
  <2>1. N - y \in D
    OBVIOUS
  <2>2. N - x <= N - y
    BY <1>2, <1>3, <2>1
  <2> QED BY <2>2
<1> QED BY <1>4

\* A set of numbers can be listed in increasing order.
Lists(up, S) ==
    /\ up \in [1..Cardinality(S) -> S]
    /\ \A i, j \in 1..Cardinality(S) : i < j => up[i] < up[j]

LEMMA CanBeListed ==
    ASSUME NEW N \in Nat, NEW S \in SUBSET (1..N)
    PROVE  \E up : Lists(up, S)
<1> DEFINE Bad == {c \in Nat : \E T \in SUBSET (1..N) : Cardinality(T) = c /\ ~\E up : Lists(up, T)}
<1>1. ASSUME NEW T \in SUBSET (1..N)
      PROVE  IsFiniteSet(T) /\ Cardinality(T) \in Nat
  <2>1. IsFiniteSet(1..N)
    BY FS_Interval
  <2> QED BY <2>1, FS_Subset, FS_CardinalityType
<1>2. SUFFICES ASSUME Bad # {} PROVE FALSE
  BY <1>1
<1>3. PICK c \in Bad : \A d \in Bad : c <= d
  <2>1. Bad \in SUBSET Nat
    OBVIOUS
  <2> QED BY <2>1, <1>2, LeastOf
<1>4. PICK T \in SUBSET (1..N) : Cardinality(T) = c /\ ~\E up : Lists(up, T)
  OBVIOUS
<1>5. T # {}
  <2>1. SUFFICES ASSUME T = {} PROVE FALSE
    OBVIOUS
  <2>2. Cardinality(T) = 0
    BY <2>1, FS_EmptySet
  <2>3. Lists([i \in 1..0 |-> i], T)
    BY <2>1, <2>2 DEF Lists
  <2> QED BY <2>3, <1>4
<1>6. PICK x \in T : \A y \in T : y <= x
  BY <1>5, GreatestOf
<1> DEFINE U == T \ {x}
<1>7. U \in SUBSET (1..N) /\ Cardinality(U) = c - 1 /\ c \in Nat /\ c - 1 \in Nat /\ Cardinality(T) = c
  <2>1. U \in SUBSET (1..N)
    OBVIOUS
  <2>2. Cardinality(U) = Cardinality(T) - 1
    BY <1>1, FS_RemoveElement
  <2> QED BY <2>1, <2>2, <1>1, <1>4
<1>8. PICK up : Lists(up, U)
  <2>1. ~(c - 1 \in Bad)
    BY <1>3, <1>7
  <2> QED BY <2>1, <1>7
<1> DEFINE new == [i \in 1..c |-> IF i = c THEN x ELSE up[i]]
<1>9. \A i \in 1..(c - 1) : up[i] \in T /\ up[i] < x
  <2>1. ASSUME NEW i \in 1..(c - 1) PROVE up[i] \in U
    BY <1>7, <1>8 DEF Lists
  <2>2. \A y \in U : y \in T /\ y < x
    BY <1>6
  <2> QED BY <2>1, <2>2
<1>10. new \in [1..c -> T]
  BY <1>7, <1>9
<1>11. ASSUME NEW i \in 1..c, NEW j \in 1..c, i < j PROVE new[i] < new[j]
  <2>1. i \in 1..(c - 1) /\ i # c
    BY <1>7, <1>11
  <2>2. CASE j = c
    BY <2>1, <2>2, <1>9
  <2>3. CASE j # c
    <3>1. j \in 1..(c - 1)
      BY <1>7, <2>3
    <3>2. up[i] < up[j]
      BY <1>7, <1>8, <1>11, <2>1, <3>1 DEF Lists
    <3> QED BY <2>1, <2>3, <3>2
  <2> QED BY <2>2, <2>3
<1>12. Lists(new, T)
  BY <1>7, <1>10, <1>11 DEF Lists
<1> QED BY <1>12, <1>4

LEMMA AscendingIs ==
    ASSUME NEW N \in Nat, NEW S \in SUBSET (1..N)
    PROVE  Cardinality(S) \in Nat /\ Ascending(S) \in [1..Cardinality(S) -> S]
<1>1. Cardinality(S) \in Nat
  <2>1. IsFiniteSet(1..N)
    BY FS_Interval
  <2> QED BY <2>1, FS_Subset, FS_CardinalityType
<1>2. PICK some : Lists(some, S)
  BY CanBeListed
<1>3. \E l \in [1..Cardinality(S) -> S] : \A i, j \in DOMAIN l : i < j => l[i] < l[j]
  BY <1>2 DEF Lists
<1> QED BY <1>1, <1>3 DEF Ascending

\* A function on 1..n is a sequence.
LEMMA FunctionIsSequence ==
    ASSUME NEW S, NEW n \in Nat, NEW f \in [1..n -> S]
    PROVE  f \in Seq(S) /\ Len(f) = n
BY SeqDef, LenProperties

\* What a confirmed command makes of the streams of a handle.
LEMMA CommittedTyped ==
    ASSUME NEW s \in Seq(Streams), NEW r \in Requests
    PROVE  Committed(s, r) \in Seq(Streams)
<1> DEFINE one == [id |-> r.sid, thr |-> r.thr]
           kept == {i \in DOMAIN s : s[i].id # r.sid}
           part == [k \in 1..Cardinality(kept) |-> s[Ascending(kept)[k]]]
           other == [i \in DOMAIN s |-> IF s[i].id = r.sid THEN one ELSE s[i]]
<1>1. one \in Streams
  BY PlaneAssumption DEF Streams, StreamIds, PlaneAssumption
<1>2. Len(s) \in Nat /\ DOMAIN s = 1..Len(s) /\ \A i \in 1..Len(s) : s[i] \in Streams
  BY LenProperties, ElementOfSeq
<1>3. kept \in SUBSET (1..Len(s))
  BY <1>2
<1> HIDE DEF one, kept
<1>4. Append(s, one) \in Seq(Streams)
  BY <1>1, AppendProperties
<1>5. Cardinality(kept) \in Nat /\ Ascending(kept) \in [1..Cardinality(kept) -> kept]
  BY <1>2, <1>3, AscendingIs
<1>6. part \in Seq(Streams)
  <2>1. \A k \in 1..Cardinality(kept) : s[Ascending(kept)[k]] \in Streams
    BY <1>2, <1>3, <1>5
  <2>2. part \in [1..Cardinality(kept) -> Streams]
    BY <2>1
  <2> HIDE DEF part
  <2> QED BY <2>2, <1>5, FunctionIsSequence
<1>7. other \in Seq(Streams)
  <2>1. other \in [1..Len(s) -> Streams]
    BY <1>1, <1>2
  <2> HIDE DEF other
  <2> QED BY <2>1, <1>2, FunctionIsSequence
<1>8. Committed(s, r) \in {Append(s, one), part, other}
  <2>1. part = Without(s, r.sid)
    BY DEF Without, kept
  <2>2. CASE r.op = "add"
    BY <2>2 DEF Committed, one
  <2>3. CASE r.op = "remove"
    BY <2>1, <2>3 DEF Committed
  <2>4. CASE r.op # "add" /\ r.op # "remove"
    BY <2>4 DEF Committed, one
  <2> QED BY <2>2, <2>3, <2>4
<1> HIDE DEF part, other
<1> QED BY <1>4, <1>6, <1>7, <1>8

\* The share of a shard in the configured streams.
LEMMA DealtTyped ==
    ASSUME NEW count \in Nat \ {0}, NEW i \in 1..count
    PROVE  Dealt(count, i) \in Seq(Streams)
<1> DEFINE n == Len(Initial)
           q == (n - i) \div count
<1>1. n \in Nat /\ \A j \in 1..n : Initial[j] \in Streams
  BY StartAssumption, LenProperties, ElementOfSeq DEF StartAssumption
<1>2. q \in Int /\ count * q <= n - i /\ n - i < count * q + count
  <2> DEFINE a == n - i
  <2>1. a \in Int
    BY <1>1
  <2> HIDE DEF a
  <2>2. a \div count \in Int /\ count * (a \div count) <= a
        /\ a < count * (a \div count) + count
    BY <2>1
  <2> QED BY <2>2 DEF a
<1> HIDE DEF n, q
<1>3. q + 1 \in Nat
  <2>1. SUFFICES ASSUME q + 1 < 0 PROVE FALSE
    BY <1>2
  <2>2. count * q <= count * (0 - 2)
    BY <1>2, <2>1
  <2> QED BY <1>1, <1>2, <2>2
<1>4. ASSUME NEW k \in 1..(q + 1)
      PROVE  i + (k - 1) * count \in 1..n
  <2> DEFINE m == (k - 1) * count
  <2>1. m \in Nat /\ m <= count * q
    BY <1>2, <1>3
  <2> HIDE DEF m
  <2>2. count * q \in Int
    BY <1>2
  <2>3. i + m \in 1..n
    BY <1>1, <1>2, <2>1, <2>2
  <2> QED BY <2>3 DEF m
<1>5. Dealt(count, i) \in [1..(q + 1) -> Streams]
  BY <1>1, <1>4 DEF Dealt, n, q
<1> QED BY <1>3, <1>5, FunctionIsSequence
-----------------------------------------------------------------------------
(* Steps keep the types                                                      *)

\* What the runtime behind a shard does for a request leaves streams behind, never anything
\* else.
LEMMA VerdictTyped ==
    ASSUME NEW x \in Handles, Typed(h[x]), NEW m \in Messages, m.op # "stop"
    PROVE  /\ m.tag \in Tags
           /\ Served(x, m).running \subseteq Streams
           /\ \A away \in BOOLEAN : Failed(x, m, away).running \subseteq Streams
<1>1. m.sid \in StreamIds /\ m.thr \in Thresholds /\ m.tag \in Tags
  BY DEF Messages
<1> DEFINE s == [id |-> m.sid, thr |-> m.thr]
           others == {t \in h[x].running : t.id # m.sid}
<1>2. s \in Streams
  BY <1>1 DEF Streams
<1>3. h[x].running \subseteq Streams /\ others \subseteq Streams
  BY DEF Typed
<1>4. /\ h[x].running \subseteq Streams /\ others \union {s} \subseteq Streams
      /\ h[x].running \union {s} \subseteq Streams
  BY <1>2, <1>3
<1>5. Served(x, m).running \in {h[x].running, others, others \union {s}}
  <2>1. CASE (m.sid \in Running(x)) = (m.op = "add")
    BY <2>1 DEF Served
  <2>2. CASE (m.sid \in Running(x)) # (m.op = "add") /\ m.op = "remove"
    BY <2>2 DEF Served
  <2>3. CASE (m.sid \in Running(x)) # (m.op = "add") /\ m.op # "remove"
    BY <2>3 DEF Served
  <2> QED BY <2>1, <2>2, <2>3
<1>6. ASSUME NEW away \in BOOLEAN
      PROVE  Failed(x, m, away).running \in {h[x].running, h[x].running \union {s}}
  BY DEF Failed
<1> HIDE DEF s, others
<1> QED BY <1>1, <1>3, <1>4, <1>5, <1>6

\* The processes, their pipes and the watchdog.
LEMMA HandleTypes ==
    ASSUME IInv, Types, NEW x \in Handles,
           Process(x) \/ Lapse(x) \/ Examine(x) \/ Reclaim(x)
    PROVE  /\ \A y \in Handles : Typed(h'[y])
           /\ UNCHANGED <<queue, cmd, file, handled, delivered>> /\ DOMAIN pending' \subseteq Tags
<1>1. Shaped /\ IsHandle(h[x]) /\ Typed(h[x]) /\ DOMAIN pending \subseteq Tags
  BY DEF IInv, Shaped, Types
<1>2. UNCHANGED <<queue, cmd, file, handled, delivered>>
  BY DEF Process, Started, Beat, Serve, Crash, Hang, Resume, Lapse, Examine, Reclaim, ProcessOnly,
         RestartOnly, Fault, book
<1>3. ASSUME \/ Started(x) \/ Beat(x) \/ Crash(x) \/ Hang(x) \/ Resume(x)
             \/ Lapse(x) \/ Examine(x) \/ Reclaim(x)
      PROVE  UNCHANGED pending
  BY <1>3 DEF Started, Beat, Crash, Hang, Resume, Lapse, Examine, Reclaim, RestartOnly
<1>4. ASSUME NEW e, Typed(e), h' = [h EXCEPT ![x] = e]
      PROVE  \A y \in Handles : Typed(h'[y])
  BY <1>1, <1>4, TouchedTyped
<1>5. CASE Started(x)
  <2> DEFINE e == [h[x] EXCEPT !.proc = "up", !.running = ToSet(h[x].streams)]
             f == [h[x] EXCEPT !.proc = "down"]
  <2>1. h[x].proc = "starting"
    BY <1>5 DEF Started
  <2>2. ToSet(h[x].streams) \subseteq Streams
    <3>1. h[x].streams \in Seq(Streams)
      BY <1>1 DEF Typed
    <3> QED BY <3>1, LenProperties, ElementOfSeq DEF ToSet
  <2>3. h' = [h EXCEPT ![x] = e] \/ h' = [h EXCEPT ![x] = f]
    BY <1>5 DEF Started
  <2>4. Typed(e)
    <3> DEFINE r == ToSet(h[x].streams)
    <3>1. r \subseteq Streams
      BY <2>2
    <3> HIDE DEF r
    <3>2. Typed([h[x] EXCEPT !.proc = "up", !.running = r])
      BY <1>1, <3>1 DEF IsHandle, Typed
    <3> QED BY <3>2 DEF r
  <2>5. Typed(f)
    BY <1>1, <2>1 DEF IsHandle, Typed
  <2> HIDE DEF e, f
  <2> QED BY <1>2, <1>1, <1>3, <1>4, <1>5, <2>3, <2>4, <2>5
<1>6. CASE Beat(x)
  <2> DEFINE e == [h[x] EXCEPT !.heard = "fresh", !.alive = TRUE, !.started = TRUE]
  <2>1. h' = [h EXCEPT ![x] = e]
    BY <1>6 DEF Beat
  <2>2. Typed(e)
    BY <1>1 DEF IsHandle, Typed
  <2> HIDE DEF e
  <2> QED BY <1>2, <1>1, <1>3, <1>4, <1>6, <2>1, <2>2
<1>7. CASE Serve(x)
  <2> DEFINE m == Head(h[x].inbox)
             f == [h[x] EXCEPT !.proc = "down", !.running = {}]
  <2>1. h[x].proc = "up" /\ h[x].inbox # <<>>
    BY <1>7 DEF Serve, Up
  <2>2. m \in Messages /\ Tail(h[x].inbox) \in Seq(Messages)
    <3>1. h[x].inbox \in Seq(Messages)
      BY <1>1 DEF Typed
    <3> QED BY <2>1, <3>1, HeadTailProperties
  <2>3. ASSUME NEW v, v \subseteq Streams,
               h' = [h EXCEPT ![x].running = v, ![x].inbox = Tail(@)]
        PROVE  \A y \in Handles : Typed(h'[y])
    <3> DEFINE t == Tail(h[x].inbox)
               e == [h[x] EXCEPT !.running = v, !.inbox = t]
    <3>1. h' = [h EXCEPT ![x] = e]
      BY <2>3
    <3>2. t \in Seq(Messages)
      BY <2>2
    <3> HIDE DEF t
    <3>3. Typed(e)
      BY <1>1, <2>1, <2>3, <3>2 DEF IsHandle, Typed
    <3> HIDE DEF e
    <3> QED BY <1>4, <3>1, <3>3
  <2>4. CASE m.op = "stop"
    <3>1. h' = [h EXCEPT ![x] = f] /\ UNCHANGED pending
      BY <1>7, <2>4 DEF Serve
    <3>2. Typed(f)
      BY <1>1 DEF IsHandle, Typed
    <3> HIDE DEF f
    <3> QED BY <1>1, <1>2, <1>4, <3>1, <3>2
  <2>5. CASE m.op # "stop"
    <3>1. PICK v : /\ h' = [h EXCEPT ![x].running = v.running, ![x].inbox = Tail(@)]
                   /\ pending' = IF h[x].open THEN Replied(m.tag, v.ok) ELSE pending
                   /\ v = Served(x, m) \/ \E away \in BOOLEAN : v = Failed(x, m, away)
      BY <1>7, <2>5, Zenon DEF Serve
    <3> HIDE DEF m
    <3>2. m.tag \in Tags /\ v.running \subseteq Streams
      BY <1>1, <2>2, <2>5, <3>1, VerdictTyped
    <3>3. DOMAIN pending' \subseteq Tags
      BY <1>1, <3>1, <3>2 DEF Replied
    <3> QED BY <1>2, <2>3, <3>1, <3>2, <3>3
  <2> QED BY <2>4, <2>5
<1>8. CASE Crash(x)
  <2> DEFINE e == [h[x] EXCEPT !.proc = "down", !.running = {}]
  <2>1. h' = [h EXCEPT ![x] = e]
    BY <1>8 DEF Crash
  <2>2. Typed(e)
    BY <1>1 DEF IsHandle, Typed
  <2> HIDE DEF e
  <2> QED BY <1>2, <1>1, <1>3, <1>4, <1>8, <2>1, <2>2
<1>9. CASE Hang(x) \/ Resume(x)
  <2> PICK b \in BOOLEAN : h' = [h EXCEPT ![x].hung = b]
    BY <1>9 DEF Hang, Resume
  <2> DEFINE e == [h[x] EXCEPT !.hung = b]
  <2>1. h' = [h EXCEPT ![x] = e]
    OBVIOUS
  <2>2. Typed(e)
    BY <1>1 DEF IsHandle, Typed
  <2> HIDE DEF e
  <2> QED BY <1>2, <1>1, <1>3, <1>4, <1>9, <2>1, <2>2
<1>10. CASE Lapse(x)
  <2> DEFINE e == [h[x] EXCEPT !.heard = "late"]
  <2>1. h' = [h EXCEPT ![x] = e]
    BY <1>10 DEF Lapse
  <2>2. Typed(e)
    BY <1>1 DEF IsHandle, Typed
  <2> HIDE DEF e
  <2> QED BY <1>2, <1>1, <1>3, <1>4, <1>10, <2>1, <2>2
<1>11. CASE Examine(x)
  <2> DEFINE e == [h[x] EXCEPT !.alive = FALSE, !.restarts = @ + 1, !.restarting = TRUE,
                               !.restart = "reclaim"]
  <2>1. h' = [h EXCEPT ![x] = e]
    BY <1>11 DEF Examine
  <2>2. Typed(e)
    BY <1>1 DEF IsHandle, Typed
  <2> HIDE DEF e
  <2> QED BY <1>2, <1>1, <1>3, <1>4, <1>11, <2>1, <2>2
<1>12. CASE Reclaim(x)
  <2> DEFINE e == [Killed(h[x]) EXCEPT !.restart = "backoff"]
  <2>1. h' = [h EXCEPT ![x] = e]
    BY <1>12 DEF Reclaim
  <2>2. Typed(e)
    BY <1>1 DEF IsHandle, Typed, Killed
  <2> HIDE DEF e
  <2> QED BY <1>2, <1>1, <1>3, <1>4, <1>12, <2>1, <2>2
<1> QED BY <1>5, <1>6, <1>7, <1>8, <1>9, <1>10, <1>11, <1>12 DEF Process

\* The command thread.
LEMMA CommandTypes ==
    ASSUME IInv, Answering, Types, Command
    PROVE  Types'
<1>1. cmd = [pc |-> cmd.pc, req |-> cmd.req, x |-> cmd.x, new |-> cmd.new, tag |-> cmd.tag]
      /\ Shaped
  BY DEF IInv, Counted
<1>2. /\ queue \in Seq(Requests) /\ handled \in Log
      /\ Len(queue) \in Nat /\ Len(handled) \in Nat
      /\ Busy => cmd.req \in Requests
  BY LenProperties DEF Answering, Store, Log
<1>3. \A y \in Handles : Typed(h[y])
  BY DEF Types
<1> DEFINE Places == {"idle", "gone", "add", "remove", "threshold", "await", "send", "reply",
                      "discard", "reap", "commit", "persist"}
\* What most steps leave as it is.
<1>4. ASSUME UNCHANGED <<queue, handled, delivered>>, DOMAIN pending' \subseteq DOMAIN pending,
             \A y \in Handles : Typed(h'[y]), file' \in Seq(Seq(Streams)),
             Busy, cmd'.req = cmd.req, cmd'.pc \in Places
      PROVE  Types'
  BY <1>4 DEF Types, Busy
<1>5. UNCHANGED h => \A y \in Handles : Typed(h'[y])
  BY <1>3
<1>6. UNCHANGED file => file' \in Seq(Seq(Streams))
  BY DEF Types
<1>7. UNCHANGED pending => DOMAIN pending' \subseteq DOMAIN pending
  OBVIOUS
<1>8. ASSUME NEW e, Typed(e), h' = [h EXCEPT ![cmd.x] = e]
      PROVE  \A y \in Handles : Typed(h'[y])
  <2>1. CASE cmd.x \in Handles
    BY <1>1, <1>8, <2>1, TouchedTyped
  <2>2. CASE cmd.x \notin Handles
    <3>1. h' = h
      BY <1>1, <1>8, <2>2 DEF Shaped
    <3> QED BY <3>1, <1>3
  <2> QED BY <2>1, <2>2
\* The places the thread goes to.
<1>9. ASSUME NEW pc \in Places, Goes(pc)
      PROVE  cmd'.pc \in Places /\ cmd'.req = cmd.req
  BY <1>1, <1>9 DEF Goes
<1>10. ASSUME NEW ok, Ack(ok)
       PROVE  cmd'.pc \in Places /\ cmd'.req = cmd.req
  BY <1>1, <1>10 DEF Ack, Idle
<1>11. Fails => cmd'.pc \in Places /\ cmd'.req = cmd.req
  BY <1>9, <1>10 DEF Fails
<1>12. CASE Take
  <2> DEFINE r == Head(queue)
             e == [rid |-> r.rid, run |-> ~Known(seen, r)]
  <2>1. /\ cmd.pc = "idle" /\ queue # <<>> /\ queue' = Tail(queue)
        /\ handled' = Append(handled, e) /\ UNCHANGED <<h, pending, file, delivered>>
    BY <1>12 DEF Take
  <2>2. r \in Requests /\ Len(queue') = Len(queue) - 1 /\ Len(queue) # 0
    BY <1>2, <2>1, HeadTailProperties, EmptySeq
  <2>3. e \in [rid : RequestIds, run : BOOLEAN]
    BY <2>2 DEF RequestIds, Known
  <2> HIDE DEF e
  <2>4. Len(handled') = Len(handled) + 1
    BY <1>2, <2>1, <2>3, LogGrows
  <2>5. cmd' = cmd \/ (cmd' = [cmd EXCEPT !.pc = r.op, !.req = r] /\ ValidParams(r))
    <3>1. CASE Known(seen, r)
      <4>1. UNCHANGED cmd
        BY <1>12, <3>1 DEF Take
      <4> QED BY <4>1
    <3>2. CASE ~Known(seen, r) /\ ~ValidParams(r)
      <4>1. UNCHANGED cmd
        BY <1>12, <3>2 DEF Take
      <4> QED BY <4>1
    <3>3. CASE ~Known(seen, r) /\ ValidParams(r)
      <4>1. cmd' = [cmd EXCEPT !.pc = r.op, !.req = r]
        BY <1>12, <3>3 DEF Take
      <4> QED BY <3>3, <4>1
    <3> QED BY <3>1, <3>2, <3>3
  <2> HIDE DEF r
  <2>6. cmd'.pc \in Places /\ (Busy' => cmd'.req.op \in {"add", "remove", "threshold"})
    <3>1. ValidParams(r) => r.op \in {"add", "remove", "threshold"}
      BY DEF ValidParams
    <3>2. CASE cmd' = cmd
      BY <2>1, <3>2 DEF Busy
    <3>3. CASE cmd' = [cmd EXCEPT !.pc = r.op, !.req = r] /\ ValidParams(r)
      BY <1>1, <3>1, <3>3
    <3> QED BY <2>5, <3>2, <3>3
  <2>7. /\ delivered' \in 0..MaxDeliveries /\ Len(handled') + Len(queue') <= delivered'
        /\ Len(queue') <= QueueMax
    BY <1>2, <2>1, <2>2, <2>4, SupervisorAssumption, PlaneAssumption
    DEF Types, SupervisorAssumption, PlaneAssumption
  <2> QED BY <1>3, <2>1, <2>6, <2>7 DEF Types
<1>13. CASE CmdLeaves
  <2>1. cmd'.pc = "gone"
    BY <1>1, <1>13 DEF CmdLeaves
  <2>2. UNCHANGED <<h, pending, file, handled, queue, delivered>>
    BY <1>13 DEF CmdLeaves, CmdOnly
  <2> QED BY <1>3, <2>1, <2>2 DEF Types, Busy
<1>14. CASE AddStream
  <2>1. /\ cmd.pc = "add" /\ UNCHANGED <<queue, handled, delivered, pending, file>>
    BY <1>14, Zenon DEF AddStream, CmdOnly
  <2>2. \/ (\E ok : Ack(ok)) /\ UNCHANGED h
        \/ cmd' = [cmd EXCEPT !.pc = "send", !.x = Pick] /\ UNCHANGED h
        \/ /\ h' = [h EXCEPT ![spawned + 1] = Fresh(Len(shards), <<>>, 0)]
           /\ cmd' = [cmd EXCEPT !.pc = "await", !.x = spawned + 1, !.new = TRUE]
           /\ spawned < MaxSpawns
    BY <1>14, Zenon DEF AddStream
  <2>3. CASE (\E ok : Ack(ok)) /\ UNCHANGED h
    <3>1. cmd'.pc \in Places /\ cmd'.req = cmd.req
      BY <2>3, <1>10
    <3> QED BY <1>4, <1>5, <1>6, <1>7, <2>1, <2>3, <3>1 DEF Busy
  <2>4. CASE cmd' = [cmd EXCEPT !.pc = "send", !.x = Pick] /\ UNCHANGED h
    <3>1. cmd'.pc \in Places /\ cmd'.req = cmd.req
      BY <2>4, <1>1
    <3> QED BY <1>4, <1>5, <1>6, <1>7, <2>1, <2>4, <3>1 DEF Busy
  <2>5. CASE /\ h' = [h EXCEPT ![spawned + 1] = Fresh(Len(shards), <<>>, 0)]
             /\ cmd' = [cmd EXCEPT !.pc = "await", !.x = spawned + 1, !.new = TRUE]
             /\ spawned < MaxSpawns
    <3>1. cmd'.pc \in Places /\ cmd'.req = cmd.req
      BY <2>5, <1>1
    <3>2. Len(shards) \in Nat /\ spawned + 1 \in Handles
      BY <2>5, ListedHandles, SupervisorAssumption DEF Handles, SupervisorAssumption
    <3>3. Typed(Fresh(Len(shards), <<>>, 0))
      <4>1. <<>> \in Seq(Streams) /\ 0 \in Nat
        BY EmptySeq
      <4> QED BY <3>2, <4>1, FreshTyped
    <3>4. \A y \in Handles : Typed(h'[y])
      BY <1>1, <2>5, <3>2, <3>3, TouchedTyped
    <3> QED BY <1>4, <1>6, <1>7, <2>1, <3>1, <3>4 DEF Busy
  <2> QED BY <2>2, <2>3, <2>4, <2>5
<1>15. CASE AwaitStarted
  <2>1. cmd.pc = "await" /\ UNCHANGED <<h, queue, handled, delivered, pending, file>>
    BY <1>15 DEF AwaitStarted, CmdOnly
  <2>2. Goes("send") \/ Goes("discard")
    BY <1>15 DEF AwaitStarted
  <2>3. cmd'.pc \in Places /\ cmd'.req = cmd.req
    BY <1>1, <2>2 DEF Goes
  <2> QED BY <1>4, <1>5, <1>6, <1>7, <2>1, <2>3 DEF Busy
<1>16. CASE FindStream
  <2>1. /\ cmd.pc \in {"remove", "threshold"}
        /\ UNCHANGED <<h, queue, handled, delivered, pending, file>>
    BY <1>16 DEF FindStream, CmdOnly
  <2>2. Ack(FALSE) \/ (UNCHANGED seen /\ \E x : cmd' = [cmd EXCEPT !.pc = "send", !.x = x])
    BY <1>16, Zenon DEF FindStream
  <2>3. cmd'.pc \in Places /\ cmd'.req = cmd.req
    <3>1. CASE Ack(FALSE)
      BY <1>10, <3>1
    <3>2. ASSUME NEW x, cmd' = [cmd EXCEPT !.pc = "send", !.x = x]
          PROVE  cmd'.pc \in Places /\ cmd'.req = cmd.req
      BY <1>1, <3>2
    <3> QED BY <2>2, <3>1, <3>2, Zenon
  <2> QED BY <1>4, <1>5, <1>6, <1>7, <2>1, <2>3 DEF Busy
<1>17. CASE SendOp
  <2> DEFINE m == [op |-> cmd.req.op, sid |-> cmd.req.sid, thr |-> cmd.req.thr,
                   tag |-> Len(handled)]
  <2>1. cmd.pc = "send" /\ Busy /\ UNCHANGED <<queue, handled, delivered, pending, file>>
    BY <1>17 DEF SendOp, CmdOnly, Busy
  <2>2. CASE Fails /\ UNCHANGED h
    BY <1>4, <1>5, <1>6, <1>7, <1>11, <2>1, <2>2
  <2>3. CASE /\ h' = [h EXCEPT ![cmd.x].inbox = Append(@, m)]
             /\ cmd' = [cmd EXCEPT !.pc = "reply", !.tag = Len(handled)]
    <3>1. cmd'.pc \in Places /\ cmd'.req = cmd.req
      BY <1>1, <2>3
    <3>2. m \in Messages
      <4>1. cmd.req.sid \in StreamIds /\ cmd.req.thr \in Thresholds
        BY <1>2, <2>1, PlaneAssumption DEF StreamIds, PlaneAssumption
      <4>2. Len(handled) \in Tags
        BY <1>2, SupervisorAssumption DEF Types, Tags, SupervisorAssumption
      <4>3. cmd.req.op \in {"add", "remove", "threshold"}
        BY <2>1 DEF Types
      <4> QED BY <4>1, <4>2, <4>3 DEF Messages
    <3> HIDE DEF m
    <3>3. CASE cmd.x \in Handles
      <4> DEFINE box == Append(h[cmd.x].inbox, m)
                 e == [h[cmd.x] EXCEPT !.inbox = box]
      <4>1. IsHandle(h[cmd.x]) /\ Typed(h[cmd.x])
        BY <1>1, <1>3, <3>3 DEF Shaped
      <4>2. box \in Seq(Messages)
        <5>1. h[cmd.x].inbox \in Seq(Messages)
          BY <4>1 DEF Typed
        <5> QED BY <3>2, <5>1, AppendProperties
      <4>3. h' = [h EXCEPT ![cmd.x] = e]
        BY <2>3
      <4> HIDE DEF box
      <4>4. Typed(e)
        BY <4>1, <4>2 DEF IsHandle, Typed
      <4> HIDE DEF e
      <4>5. \A y \in Handles : Typed(h'[y])
        BY <1>8, <4>3, <4>4
      <4> QED BY <1>4, <1>6, <1>7, <2>1, <3>1, <4>5
    <3>4. CASE cmd.x \notin Handles
      <4>1. h' = h
        BY <1>1, <2>3, <3>4 DEF Shaped
      <4> QED BY <1>4, <1>5, <1>6, <1>7, <2>1, <3>1, <4>1
    <3> QED BY <3>3, <3>4
  <2> QED BY <1>17, <2>2, <2>3, Zenon DEF SendOp
<1>18. CASE GetReply
  <2>1. cmd.pc = "reply" /\ Busy /\ UNCHANGED <<h, queue, handled, delivered, file>>
    BY <1>18 DEF GetReply, CmdOnly, Busy
  <2>2. DOMAIN pending' \subseteq DOMAIN pending
    <3>1. \/ UNCHANGED pending
          \/ pending' = RestrictDomain(pending, LAMBDA t : t # cmd.tag)
      BY <1>18 DEF GetReply
    <3> QED BY <3>1 DEF RestrictDomain, Restrict
  <2>3. Goes("commit") \/ Fails
    BY <1>18 DEF GetReply
  <2>4. cmd'.pc \in Places /\ cmd'.req = cmd.req
    BY <1>9, <1>11, <2>3
  <2> QED BY <1>4, <1>5, <1>6, <2>1, <2>2, <2>4
<1>19. CASE Unlist
  <2>1. /\ cmd.pc = "discard" /\ Goes("reap")
        /\ UNCHANGED <<h, queue, handled, delivered, pending, file>>
    BY <1>19 DEF Unlist, CmdOnly
  <2>2. cmd'.pc \in Places /\ cmd'.req = cmd.req
    BY <1>9, <2>1
  <2> QED BY <1>4, <1>5, <1>6, <1>7, <2>1, <2>2 DEF Busy
<1>20. CASE Reap
  <2>1. /\ cmd.pc = "reap" /\ Ack(FALSE)
        /\ h' = [h EXCEPT ![cmd.x] = Killed(h[cmd.x])]
        /\ UNCHANGED <<queue, handled, delivered, pending, file>>
    BY <1>20 DEF Reap, CmdOnly
  <2>2. cmd'.pc \in Places /\ cmd'.req = cmd.req
    BY <1>10, <2>1
  <2>3. cmd.x \in Handles
    BY <2>1, SupervisorAssumption
    DEF IInv, Newest, Counted, Handles, SupervisorAssumption
  <2>4. Typed(Killed(h[cmd.x]))
    <3>1. IsHandle(h[cmd.x]) /\ Typed(h[cmd.x])
      BY <1>1, <1>3, <2>3 DEF Shaped
    <3> QED BY <3>1 DEF IsHandle, Typed, Killed
  <2>5. \A y \in Handles : Typed(h'[y])
    BY <1>8, <2>1, <2>4
  <2> QED BY <1>4, <1>6, <1>7, <2>1, <2>2, <2>5 DEF Busy
<1>21. CASE CommitOp
  <2>1. /\ cmd.pc = "commit" /\ Busy /\ UNCHANGED <<queue, handled, delivered, pending, file>>
        /\ h' = [h EXCEPT ![cmd.x].streams = Committed(@, cmd.req)]
    BY <1>21 DEF CommitOp, CmdOnly, Busy
  <2>2. Ack(TRUE) \/ Goes("persist")
    BY <1>21 DEF CommitOp
  <2>3. cmd'.pc \in Places /\ cmd'.req = cmd.req
    BY <1>9, <1>10, <2>2
  <2>4. CASE cmd.x \in Handles
    <3> DEFINE s == Committed(h[cmd.x].streams, cmd.req)
               e == [h[cmd.x] EXCEPT !.streams = s]
    <3>1. IsHandle(h[cmd.x]) /\ Typed(h[cmd.x])
      BY <1>1, <1>3, <2>4 DEF Shaped
    <3>2. s \in Seq(Streams)
      <4>1. h[cmd.x].streams \in Seq(Streams) /\ cmd.req \in Requests
        BY <1>2, <2>1, <3>1 DEF Typed
      <4> QED BY <4>1, CommittedTyped
    <3>3. h' = [h EXCEPT ![cmd.x] = e]
      BY <2>1
    <3> HIDE DEF s
    <3>4. Typed(e)
      BY <3>1, <3>2 DEF IsHandle, Typed
    <3> HIDE DEF e
    <3>5. \A y \in Handles : Typed(h'[y])
      BY <1>8, <3>3, <3>4
    <3> QED BY <1>4, <1>6, <1>7, <2>1, <2>3, <3>5
  <2>5. CASE cmd.x \notin Handles
    <3>1. h' = h
      BY <1>1, <2>1, <2>5 DEF Shaped
    <3> QED BY <1>4, <1>5, <1>6, <1>7, <2>1, <2>3, <3>1
  <2> QED BY <2>4, <2>5
<1>22. CASE Persist
  <2>1. /\ cmd.pc = "persist" /\ UNCHANGED <<h, queue, handled, delivered, pending>>
    BY <1>22 DEF Persist, Fault
  <2>2. (file' = Listed \/ UNCHANGED file) /\ \E ok : Ack(ok)
    BY <1>22 DEF Persist
  <2>3. cmd'.pc \in Places /\ cmd'.req = cmd.req
    BY <1>10, <2>2
  <2>4. Listed \in Seq(Seq(Streams))
    <3>1. /\ Len(shards) \in Nat /\ DOMAIN shards = 1..Len(shards)
          /\ \A i \in 1..Len(shards) : shards[i] \in Handles
      BY ListedHandles, LenProperties DEF IInv, Counted
    <3>2. Listed \in [1..Len(shards) -> Seq(Streams)]
      BY <1>3, <3>1 DEF Listed, Typed
    <3> QED BY <3>1, <3>2, FunctionIsSequence
  <2>5. file' \in Seq(Seq(Streams))
    BY <1>6, <2>2, <2>4
  <2> QED BY <1>4, <1>5, <1>7, <2>1, <2>3, <2>5 DEF Busy
<1> QED BY <1>12, <1>13, <1>14, <1>15, <1>16, <1>17, <1>18, <1>19, <1>20, <1>21, <1>22 DEF Command

\* A new instance takes over the streams of the one it replaces.
LEMMA RestartTypes ==
    ASSUME IInv, Types, NEW x \in Handles, Restart(x)
    PROVE  Types'
<1>1. /\ Shaped /\ IsHandle(h[x]) /\ \A y \in Handles : Typed(h[y])
      /\ UNCHANGED <<queue, cmd, pending, file, handled, delivered>>
  BY DEF IInv, Shaped, Types, Restart, RestartOnly
<1>2. (\A y \in Handles : Typed(h'[y])) => Types'
  BY <1>1 DEF Types, Busy
<1> DEFINE old == [h[x] EXCEPT !.restart = "no"]
           e == Fresh(h[x].index, h[x].streams, h[x].restarts)
<1>3. Typed(old)
  BY <1>1 DEF IsHandle, Typed
<1>4. Typed(e)
  <2>1. h[x].index \in Nat /\ h[x].streams \in Seq(Streams) /\ h[x].restarts \in Nat
    BY <1>1 DEF Typed
  <2> QED BY <2>1, FreshTyped
<1>5. \/ h' = [h EXCEPT ![x] = old]
      \/ h' = [h EXCEPT ![x] = old, ![spawned + 1] = e]
  <2>1. CASE Superseded(x)
    BY <2>1 DEF Restart
  <2>2. CASE ~Superseded(x)
    BY <2>2 DEF Restart
  <2> QED BY <2>1, <2>2
<1> HIDE DEF old, e
<1>6. CASE h' = [h EXCEPT ![x] = old]
  BY <1>1, <1>2, <1>3, <1>6, TouchedTyped
<1>7. CASE h' = [h EXCEPT ![x] = old, ![spawned + 1] = e]
  <2>1. ASSUME NEW y \in Handles
        PROVE  h'[y] \in {h[y], old, e}
    BY <1>1, <1>7 DEF Shaped
  <2> QED BY <1>1, <1>2, <1>3, <1>4, <2>1
<1> QED BY <1>5, <1>6, <1>7

\* stop() asks the shards and reclaims them.
LEMMA StopTypes ==
    ASSUME IInv, Types, Stop
    PROVE  Types'
<1>1. /\ \A y \in Handles : IsHandle(h[y]) /\ Typed(h[y])
      /\ UNCHANGED <<queue, cmd, pending, file, handled, delivered>>
  BY DEF IInv, Shaped, Types, Stop, StopSet, StopAsk, StopReap, StopOnly
<1>2. (\A y \in Handles : Typed(h'[y])) => Types'
  BY <1>1 DEF Types, Busy
<1>3. CASE StopSet
  BY <1>1, <1>2, <1>3 DEF StopSet
<1>4. CASE StopAsk
  <2> SUFFICES ASSUME NEW y \in Handles PROVE Typed(h'[y])
    BY <1>2
  <2> DEFINE box == Append(h[y].inbox, [op |-> "stop"])
             e == [h[y] EXCEPT !.inbox = box]
  <2>1. h'[y] \in {h[y], e}
    BY <1>4 DEF StopAsk
  <2>2. box \in Seq(Messages)
    <3>1. h[y].inbox \in Seq(Messages) /\ [op |-> "stop"] \in Messages
      BY <1>1 DEF Typed, Messages
    <3> QED BY <3>1, AppendProperties
  <2> HIDE DEF box
  <2>3. Typed(e)
    <3>1. IsHandle(h[y]) /\ Typed(h[y])
      BY <1>1
    <3> QED BY <2>2, <3>1 DEF IsHandle, Typed
  <2> HIDE DEF e
  <2> QED BY <1>1, <2>1, <2>3
<1>5. CASE StopReap
  <2> SUFFICES ASSUME NEW y \in Handles PROVE Typed(h'[y])
    BY <1>2
  <2>1. h'[y] \in {h[y], Killed(h[y])}
    BY <1>5 DEF StopReap
  <2>2. Typed(Killed(h[y]))
    <3>1. IsHandle(h[y]) /\ Typed(h[y])
      BY <1>1
    <3> QED BY <3>1 DEF IsHandle, Typed, Killed
  <2> QED BY <1>1, <2>1, <2>2
<1> QED BY <1>3, <1>4, <1>5 DEF Stop

LEMMA TypesStart == Init => Types
<1> SUFFICES ASSUME Init PROVE Types
  OBVIOUS
<1> DEFINE count == ShardCountFor(Len(Initial))
           first(x) == Fresh(x - 1, Dealt(count, x), 0)
<1>1. count \in Nat
  BY ShardCount, LenProperties, StartAssumption, SupervisorAssumption
  DEF StartAssumption, SupervisorAssumption
<1>2. /\ h = [x \in Handles |-> IF x <= count THEN first(x) ELSE Nobody]
      /\ queue = <<>> /\ pending = <<>> /\ handled = <<>> /\ delivered = 0
      /\ cmd.pc = "idle" /\ file = <<Initial>>
  BY DEF Init
<1>3. ASSUME NEW x \in Handles
      PROVE  Typed(h[x])
  <2>1. CASE x <= count
    <3>1. x \in 1..count /\ count \in Nat \ {0} /\ x - 1 \in Nat
      BY <1>1, <2>1, SupervisorAssumption DEF Handles, SupervisorAssumption
    <3> HIDE DEF count
    <3>2. Dealt(count, x) \in Seq(Streams)
      BY <3>1, DealtTyped
    <3>3. Typed(first(x))
      BY <3>1, <3>2, FreshTyped
    <3> QED BY <1>2, <2>1, <3>3
  <2>2. CASE ~(x <= count)
    <3>1. <<>> \in Seq(Streams) /\ 0 \in Nat
      BY EmptySeq
    <3>2. Typed(Nobody)
      BY <3>1, FreshTyped
    <3> QED BY <1>2, <2>2, <3>2
  <2> QED BY <2>1, <2>2
<1>4. DOMAIN pending = {}
  BY <1>2
<1>5. file \in Seq(Seq(Streams))
  BY <1>2, StartAssumption DEF StartAssumption
<1>6. Len(queue) = 0 /\ Len(handled) = 0
  BY <1>2, EmptySeq
<1>7. /\ delivered \in 0..MaxDeliveries /\ Len(handled) + Len(queue) <= delivered
      /\ Len(queue) <= QueueMax
  BY <1>2, <1>6, SupervisorAssumption, PlaneAssumption
  DEF SupervisorAssumption, PlaneAssumption
<1> QED BY <1>2, <1>3, <1>4, <1>5, <1>7 DEF Types, Busy

LEMMA TypesSteps ==
    ASSUME IInv, Answering, Types, [Next]_vars
    PROVE  Types'
<1>1. ASSUME UNCHANGED <<queue, cmd, file, handled, delivered>>, DOMAIN pending' \subseteq Tags,
             \A y \in Handles : Typed(h'[y])
      PROVE  Types'
  BY <1>1 DEF Types, Busy
<1>2. ASSUME NEW x \in Handles, Process(x) \/ Lapse(x) \/ Examine(x) \/ Reclaim(x)
      PROVE  Types'
  BY <1>1, <1>2, HandleTypes
<1>3. ASSUME NEW x \in Handles, Restart(x)
      PROVE  Types'
  BY <1>3, RestartTypes
<1>4. ASSUME NEW r \in Requests, NEW usable \in BOOLEAN, OnControlMessage(r, usable)
      PROVE  Types'
  <2>1. /\ delivered < MaxDeliveries /\ delivered' = delivered + 1
        /\ queue' = queue \/ (Len(queue) < QueueMax /\ queue' = Append(queue, r))
        /\ UNCHANGED <<h, cmd, pending, file, handled>>
    BY <1>4 DEF OnControlMessage, Admit
  <2>2. queue \in Seq(Requests) /\ Len(queue) \in Nat /\ Len(handled) \in Nat
    BY LenProperties DEF Answering, Store, Log
  <2>3. Len(queue') = Len(queue) \/ (Len(queue) < QueueMax /\ Len(queue') = Len(queue) + 1)
    BY <2>1, <2>2, AppendProperties
  <2>4. /\ delivered' \in 0..MaxDeliveries /\ Len(handled) + Len(queue') <= delivered'
        /\ Len(queue') <= QueueMax
    BY <2>1, <2>2, <2>3, SupervisorAssumption, PlaneAssumption
    DEF Types, SupervisorAssumption, PlaneAssumption
  <2> QED BY <2>1, <2>4 DEF Types, Busy
<1>5. CASE Command
  BY <1>5, CommandTypes
<1>6. CASE Stop
  BY <1>6, StopTypes
<1>7. CASE UNCHANGED vars
  BY <1>7 DEF Types, Busy, vars
<1> QED BY <1>2, <1>3, <1>4, <1>5, <1>6, <1>7 DEF Next

\* Handles, pipes, the queue, the store, the replies and the file hold what the code puts
\* there: a reply names a command that was taken, a shard is asked only for what it
\* understands, and one that is not up runs nothing (_ShardHandle, _send_op, _persist_streams).
THEOREM TypeCorrect == Spec => []TypeOK
<1>1. IInv /\ Answering /\ Types => TypeOK
  <2> SUFFICES ASSUME IInv, Answering, Types PROVE TypeOK
    OBVIOUS
  <2>1. ASSUME NEW x \in Handles
        PROVE  LET e == h[x]
               IN  /\ e.index \in Nat /\ e.proc \in {"none", "starting", "up", "down"}
                   /\ {e.hung, e.open, e.alive, e.started, e.restarting} \subseteq BOOLEAN
                   /\ e.heard \in {"never", "fresh", "late"} /\ e.restarts \in Nat
                   /\ e.restart \in {"no", "reclaim", "backoff"}
                   /\ e.streams \in Seq(Streams) /\ e.running \subseteq Streams
                   /\ e.inbox \in Seq(Messages)
                   /\ (e.proc # "up" => e.running = {})
    BY DEF Types, Typed
  <2>2. ToSet(shards) \subseteq 1..spawned /\ IsInjective(shards)
    <3>1. DOMAIN shards = 1..Len(shards)
      BY LenProperties DEF IInv, Counted
    <3> QED BY <3>1, ListedHandles DEF ToSet, IsInjective
  <2>3. /\ Len(queue) <= QueueMax /\ queue \in Seq(Requests)
        /\ Len(seen) <= SeenSize /\ seen \in Seq(Answers)
    BY DEF Answering, Store, Types
  <2>4. stop \in {"no", "set", "asked", "done"} /\ held \subseteq Handles
    BY DEF IInv, Counted
  <2>5. /\ cmd.pc \in {"idle", "gone", "add", "remove", "threshold", "await", "send", "reply",
                       "discard", "reap", "commit", "persist"}
        /\ DOMAIN pending \subseteq Tags /\ file \in Seq(Seq(Streams))
    BY DEF Types
  <2> QED BY <2>1, <2>2, <2>3, <2>4, <2>5 DEF TypeOK
<1>2. IInv /\ Answering /\ [Next]_vars => Answering'
  BY AnsweringSteps
<1>3. IInv /\ Answering /\ Types /\ [Next]_vars => Types'
  BY TypesSteps
<1> QED BY <1>1, <1>2, <1>3, AnsweringStarts, TypesStart, Handling, PTL DEF Spec
=============================================================================
