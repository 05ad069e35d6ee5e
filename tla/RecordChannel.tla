---------------------------- MODULE RecordChannel ----------------------------
(***************************************************************************)
(* What vb::Writer promises its producers, without threads, locks or       *)
(* condition variables: one channel that carries records to the output     *)
(* peer in the order they were accepted.  Accepting a frame may make the   *)
(* channel forget the oldest frame that waits in it; an event, once        *)
(* accepted, leaves the channel only through its head.  The record being   *)
(* written is delivered or, once the channel is broken, abandoned.         *)
(***************************************************************************)
EXTENDS Sequences, SequencesExt

CONSTANTS Record,       \* everything that can be sent
          IsFrame(_)    \* the records the channel may forget

VARIABLES waiting,      \* records accepted and not yet being written
          writing,      \* the record being written, a sequence of at most one
          delivered,    \* the records the peer has got, oldest first
          broken        \* the peer is gone or the flush window is over

chVars == <<waiting, writing, delivered, broken>>

\* The position of the oldest frame of a sequence that holds one.
OldestFrame(s) ==
    CHOOSE i \in DOMAIN s : IsFrame(s[i]) /\ \A j \in 1..(i - 1) : ~IsFrame(s[j])

HasFrame(s) == \E i \in DOMAIN s : IsFrame(s[i])

Init == waiting = <<>> /\ writing = <<>> /\ delivered = <<>> /\ broken = FALSE

Accept(r) ==
    /\ waiting' = Append(waiting, r)
    /\ UNCHANGED <<writing, delivered, broken>>

AcceptForgetting(r) ==
    /\ IsFrame(r)
    /\ HasFrame(waiting)
    /\ waiting' = Append(RemoveAt(waiting, OldestFrame(waiting)), r)
    /\ UNCHANGED <<writing, delivered, broken>>

Take ==
    /\ writing = <<>>
    /\ waiting # <<>>
    /\ writing' = <<Head(waiting)>>
    /\ waiting' = Tail(waiting)
    /\ UNCHANGED <<delivered, broken>>

Deliver ==
    /\ ~broken
    /\ writing # <<>>
    /\ delivered' = delivered \o writing
    /\ writing' = <<>>
    /\ UNCHANGED <<waiting, broken>>

Abandon ==
    /\ broken
    /\ writing # <<>>
    /\ writing' = <<>>
    /\ UNCHANGED <<waiting, delivered, broken>>

Break == broken' = TRUE /\ UNCHANGED <<waiting, writing, delivered>>

Next ==
    \/ \E r \in Record : Accept(r) \/ AcceptForgetting(r)
    \/ Take
    \/ Deliver
    \/ Abandon
    \/ Break

Spec == Init /\ [][Next]_chVars
=============================================================================
