-------------------------- MODULE MCBackendStatus --------------------------
(* Instances of BackendStatus for TLC. *)
EXTENDS BackendStatus

Backend(mode, image, timeout, failOpen) ==
    [mode |-> mode, image |-> image, timeout |-> timeout,
     failOpen |-> failOpen, accepted |-> TRUE, selector |-> TRUE]

Managed1 == Backend("Managed", 1, 1, TRUE)
Managed2 == Backend("Managed", 2, 1, TRUE)
FailClosed == Backend("Managed", 1, 1, FALSE)
EventsOnly1 == Backend("EventsOnly", 1, 1, TRUE)
EventsOnly2 == Backend("EventsOnly", 1, 2, TRUE)
External == Backend("External", 1, 1, TRUE)
Rejected == [External EXCEPT !.failOpen = FALSE, !.accepted = FALSE]
HostOnly1 == Backend("HostOnly", 1, 1, TRUE)
Unmanaged == Backend("Unmanaged", 1, 1, TRUE)
NoSelector == [EventsOnly1 EXCEPT !.selector = FALSE]

KVRequired == [requireKVEvents |-> TRUE, skipProbe |-> FALSE]
KVOptional == [requireKVEvents |-> FALSE, skipProbe |-> FALSE]
Bypassed == [requireKVEvents |-> FALSE, skipProbe |-> TRUE]

BypassAnnotations == {KVOptional, Bypassed}

Nothing == [b \in Bounds |-> 0]
Once(bs) == [b \in Bounds |-> IF b \in bs THEN 1 ELSE 0]
Twice(b) == [Nothing EXCEPT ![b] = 2]
With(l, m) == [b \in Bounds |-> l[b] + m[b]]

First(s, a, l) == [spec |-> s, ann |-> a, left |-> l]

\* A managed backend that was created long ago: its workload is available, its engine
\* ready, and it is Ready and probed or, if it requires events, still waits for one.
AtRest(f, ready, probed) ==
    /\ kernel \in Kernels \ {"failedStrict"}
    /\ cr = [NewObject(f) EXCEPT !.st =
               [obsGen |-> 1, latch |-> FALSE, anchor |-> IF probed = Absent THEN 0 ELSE MaxAge,
                lastEvent |-> FALSE, remoteStorage |-> TRUE,
                conds |-> [Ready |-> ready, Degraded |-> Cond("False", "NotDegraded", 0),
                           FunctionalProbeOK |-> probed, EngineKernelsHealthy |-> KernelCondition,
                           ConnectorReady |-> Cond("True", "ConnectorReady", 1),
                           RemoteStorageReady |-> Cond("True", "RemoteStorageReady", 1)]]]
    /\ dep = [image |-> f.spec.image, rollout |-> "available"]
    /\ cache = cr /\ depCache = dep /\ svc = TRUE
    /\ engine = ReadyEngine /\ plane = "ok"
    /\ limiter = IF probed = Absent THEN NoTime ELSE RateLimit
    /\ job = IdleJob /\ queued = FALSE /\ timer = TRUE
    /\ hist = [NoHistory EXCEPT !.mode = "Managed"]

Established(f) ==
    IF f.ann.requireKVEvents
    THEN AtRest(f, Cond("False", "AwaitingFirstKVEvent", 0), Absent)
    ELSE AtRest(f, Cond("True", "ConnectorReady", 0), Cond("True", "ProbeOK", 0))

-----------------------------------------------------------------------------
(* status_paths *)

ModeSpecs == {Managed1, EventsOnly1, EventsOnly2, HostOnly1, External, Rejected, Unmanaged}
ManagedSpecs == {Managed1, Managed2}
AllSpecs == ModeSpecs \cup ManagedSpecs \cup {FailClosed}

\* Created: backends that need an event change their mode while one arrives, and a call
\* fails, the controller restarts or an old copy is read, or events come and go; a
\* managed one changes its template or its bypass.
PathFirsts ==
    {First(EventsOnly1, KVRequired, Once({"edits", "polls", b})) : b \in {"faults", "stale"}}
      \cup {First(EventsOnly1, KVRequired, With(Once({"stale"}), Twice("polls"))),
            First(HostOnly1, KVRequired, Once({"edits", "polls", "restarts"})),
            First(Managed1, KVRequired, Once({"edits", "polls", "faults"}))}
      \cup {First(Managed1, a, Once({"edits", b})) : a \in BypassAnnotations, b \in {"faults", "changes"}}

\* Running: two changes around a managed backend, that is, something breaks and is
\* repaired, with an event, an old read or a restart, an edit, or a recreation.
PathRunning ==
    {First(FailClosed, KVRequired, With(Once({b}), Twice("changes"))) : b \in {"polls", "stale"}}
      \cup {First(Managed1, KVOptional, With(Once({b}), Twice("changes"))) : b \in {"restarts", "stale"}}
      \cup {First(Managed1, KVOptional, Once({"changes", "edits", "stale"})),
            First(Managed1, KVOptional, Once({"changes", "recreations", "stale"}))}

PathInit == Init \/ \E f \in PathRunning : left = f.left /\ Established(f)
PathSpec == PathInit /\ [][Next]_vars

\* The specs and the states of the server that belong to a start.
Paths ==
    IF cr.ann.requireKVEvents
    THEN cr.spec = FailClosed \/ (cr.spec \in ModeSpecs /\ plane = "ok")
    ELSE cr.spec \in ManagedSpecs

-----------------------------------------------------------------------------
(* status_live *)

LiveSpecs == {Managed1, FailClosed, NoSelector}

\* An events-only backend that nothing but its requeue wakes; events come and go.
LiveFirsts == {First(NoSelector, KVRequired, With(Once({"stale"}), Twice("polls")))}

\* A managed backend of which something breaks and is repaired, or that is recreated.
LiveRunning ==
    {First(s, KVOptional, Twice("changes")) : s \in {Managed1, FailClosed}}
      \cup {First(Managed1, KVOptional, With(Once({"stale"}), Twice("changes"))),
            First(Managed1, KVOptional, Once({"changes", "faults", "restarts"})),
            First(Managed1, KVOptional, Once({"changes", "recreations"}))}

LiveInit == Init \/ \E f \in LiveRunning : left = f.left /\ Established(f)
LiveSpec == LiveInit /\ [][Next]_vars /\ Fairness
=============================================================================
