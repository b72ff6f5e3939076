-------------------------- MODULE ConnectionIssues --------------------------
(***************************************************************************)
(* The unavailability marker of runtime.py and the repair issues it leads  *)
(* to.  Only the event supervisor marks the server as unavailable; its own *)
(* next success and every successful poll clear the marker.  The issues    *)
(* themselves live in Home Assistant's issue registry and outlive the hub. *)
(*                                                                         *)
(* Time is counted in steps since a moment; nothing distinguishes ages     *)
(* beyond IssueAfter, so they stop there.                                  *)
(***************************************************************************)
EXTENDS Integers

CONSTANT IssueAfter   \* UNAVAILABLE_ISSUE_AFTER

ASSUME IssueAfterAssumption == IssueAfter \in Nat \ {0}

VARIABLES
    server,      \* what a new session meets: it is served, not reached, not
                 \* allowed (operator right, certificate, version) or rejected
    supervisor,  \* where the event supervisor is
    hub,         \* the entry has a running hub, or Home Assistant sets it up again
    since,       \* age of unavailable_since, or Never
    issues,      \* the entry's issues in the registry
    success,     \* age of the last success of this hub
    left         \* issues the entry already had when this hub was created

issuesVars == <<server, supervisor, hub, since, issues, success, left>>

Never == -1
Grow(age) == IF age = Never \/ age = IssueAfter THEN age ELSE age + 1

IssuesInit ==
    /\ server = "served"
    /\ supervisor = "opening"
    /\ hub = "running"
    /\ since = Never
    /\ issues = {}
    /\ success = 0
    /\ left = {}

Tick ==
    /\ since' = Grow(since)
    /\ success' = Grow(success)
    /\ UNCHANGED <<server, supervisor, hub, issues, left>>

ServerChanges ==
    /\ server' \in {"served", "unreachable", "forbidden", "rejected"}
    /\ UNCHANGED <<supervisor, hub, since, issues, success, left>>

------------------------------------------------------------------------------
(* _mark_unavailable and _clear_unavailable *)

\* Faulty variant: every failure starts the outage anew.
StartOfOutageAnew(mark) == 0

\* The first failure of an outage is the one that counts.
StartOfOutage(mark) == IF mark = Never THEN 0 ELSE mark

\* async_check_connection_issue.
IssueFor(mark) ==
    IF server = "forbidden" THEN {"action"}
    ELSE IF mark >= IssueAfter THEN {"unavailable"} ELSE {}

MarkUnavailable ==
    /\ since' = StartOfOutage(since)
    /\ issues' = issues \cup IssueFor(StartOfOutage(since))

\* Faulty variants: the marker is cleared and the issues are not; or nothing is.
ClearMarkerOnly == since' = Never /\ UNCHANGED issues
ClearNothing == UNCHANGED <<since, issues>>

\* Nothing to clear without a marker.
ClearUnavailable ==
    IF since = Never
    THEN UNCHANGED <<since, issues>>
    ELSE since' = Never /\ issues' = {}

------------------------------------------------------------------------------
(* The event supervisor *)

\* A refused or unreachable server is tried again; rejected credentials end the
\* supervisor.
OpenFails ==
    /\ hub = "running" /\ supervisor = "opening" /\ server # "served"
    /\ IF server = "rejected"
       THEN supervisor' = "ended" /\ UNCHANGED <<since, issues>>
       ELSE MarkUnavailable /\ UNCHANGED supervisor
    /\ UNCHANGED <<server, hub, success, left>>

Opened ==
    /\ hub = "running" /\ supervisor = "opening" /\ server = "served"
    /\ supervisor' = "subscribed"
    /\ ClearUnavailable
    /\ success' = 0
    /\ UNCHANGED <<server, hub, left>>

EventsLost ==
    /\ hub = "running" /\ supervisor = "subscribed"
    /\ supervisor' = "opening"
    /\ UNCHANGED <<server, hub, since, issues, success, left>>

------------------------------------------------------------------------------
(* The poll *)

\* The command session may be older than what now keeps the supervisor out.
PollSucceeds ==
    /\ hub = "running" /\ server # "unreachable"
    /\ ClearUnavailable
    /\ success' = 0
    /\ UNCHANGED <<server, supervisor, hub, left>>

------------------------------------------------------------------------------
(* Reloading the entry *)

\* async_shutdown, or a setup that raised ConfigEntryNotReady: the hub is gone.
Unload ==
    /\ hub = "running"
    /\ hub' = "none"
    /\ supervisor' = "ended"
    /\ UNCHANGED <<server, since, issues, success, left>>

\* A new hub starts without a marker.  Its command session has been opened, and a
\* poll has just succeeded or is about to.
SetUp ==
    /\ hub = "none" /\ server = "served"
    /\ hub' = "running"
    /\ supervisor' = "opening"
    /\ since' = Never
    /\ success' = 0
    /\ left' = issues
    /\ UNCHANGED <<server, issues>>

------------------------------------------------------------------------------

IssuesNext ==
    Tick \/ ServerChanges \/ OpenFails \/ Opened \/ EventsLost \/ PollSucceeds
    \/ Unload \/ SetUp

IssuesSpec == IssuesInit /\ [][IssuesNext]_issuesVars

\* The supervisor tries again for as long as it lives, and time passes.
IssuesFairness == WF_issuesVars(Tick) /\ WF_issuesVars(OpenFails) /\ WF_issuesVars(Opened)

IssuesFairSpec == IssuesSpec /\ IssuesFairness

------------------------------------------------------------------------------
(* Properties *)

IssuesTypeOK ==
    /\ server \in {"served", "unreachable", "forbidden", "rejected"}
    /\ supervisor \in {"opening", "subscribed", "ended"}
    /\ hub \in {"running", "none"}
    /\ since \in Never .. IssueAfter
    /\ success \in 0 .. IssueAfter
    /\ issues \subseteq {"action", "unavailable"}
    /\ left \subseteq {"action", "unavailable"}

\* The issue of a long outage is raised only when this hub has succeeded in nothing
\* for UNAVAILABLE_ISSUE_AFTER: any success starts the count again
\* (_mark_unavailable, _clear_unavailable).
OutageIsLong ==
    [][("unavailable" \in issues' /\ "unavailable" \notin issues) => success = IssueAfter]_issuesVars

\* An issue this hub raised is never left without the marker that lets the next
\* success remove it: what has no marker was there before the hub.
IssuesCanBeCleared == hub = "running" /\ since = Never => issues \subseteq left

\* A server that stays unreachable to a supervisor that keeps trying is reported.
LongOutageIsReported ==
    <>[](hub = "running" /\ supervisor = "opening" /\ server = "unreachable")
        => <>[]("unavailable" \in issues)
=============================================================================
