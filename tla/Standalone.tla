----------------------------- MODULE Standalone -----------------------------
(***************************************************************************)
(* run_standalone (core-cpp/vb/src/out/standalone.cpp) starts the runtime  *)
(* and adds every configured stream before it starts the writer, so the    *)
(* producers of Writer can meet a writer that does not run yet.            *)
(***************************************************************************)
EXTENDS Writer

\* push_frame and push_event return at once on a writer that does not run.
PushNotRunning(p, kind) ==
    /\ MayPush(p)
    /\ ~running
    /\ p = Control => kind = "event"
    /\ refused' = refused \cup {NextRecord(p, kind)}
    /\ Returned(p)
    /\ UNCHANGED <<running, stopping, expired, queueVars, prod, writerPc, hand,
                   stopPc, peer, out, dropped, abandoned>>

StandaloneNext == Next \/ \E p \in Producers, kind \in Kind : PushNotRunning(p, kind)
StandaloneSpec == Init /\ [][StandaloneNext]_vars

\* vb-wire.md:50, "Event records are never dropped.": an event of a stream that
\* push_event let go of without queueing it belongs to a stop.
EventsOnlyRefusedByStop ==
    (\E r \in refused : r.kind = "event" /\ r.from \in Workers) => stopping
=============================================================================
