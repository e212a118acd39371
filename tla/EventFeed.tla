------------------------------ MODULE EventFeed -------------------------------
(* The events that keep the screens of the back office up to date              *)
(* (presentation/admin-events): an outbox table written in the transaction of   *)
(* the request, dispatched after the commit by the process that served it or by *)
(* the timer of any process, and streams that resume from the last event id.    *)
EXTENDS Naturals, FiniteSets

CONSTANTS
    Events,     \* rows that a request may write
    Instances,  \* processes of the API
    Screens,    \* clients of a stream
    Away,       \* the place of a screen that is not connected
    MaxFaults   \* bound on crashes, lost connections, slow or failing dispatches

ASSUME EventFeedAssumption == Away \notin Instances /\ MaxFaults \in Nat /\ Events # {}

VARIABLES
    outbox,     \* AdminEventOutbox.status; "open" before the commit
    due,        \* the event may be claimed: availableAt, or 60 s since the last claim
    seq,        \* AdminEventOutbox.sequence, given by the insert
    alive,      \* processes that run
    courier,    \* dispatch() of an event in a process
    place,      \* the process a screen is connected to
    asked,      \* Last-Event-ID of the connection, until it is answered
    lastSeen,   \* the id the screen received last
    shown,      \* events a screen received
    owed,       \* history: screens connected without a break since the commit
    faults

feedVars == <<outbox, due, seq, alive, courier, place, asked, lastSeen, shown, owed, faults>>

NoCourier == [stage |-> "idle", late |-> FALSE]
Answered == 0

EventFeedInit ==
    /\ outbox = [e \in Events |-> "none"]
    /\ due = [e \in Events |-> FALSE]
    /\ seq = [e \in Events |-> 0]
    /\ alive = Instances
    /\ courier = [i \in Instances |-> [e \in Events |-> NoCourier]]
    /\ place = [c \in Screens |-> Away]
    /\ asked = [c \in Screens |-> Answered]
    /\ lastSeen = [c \in Screens |-> 0]
    /\ shown = [c \in Screens |-> {}]
    /\ owed = [e \in Events |-> {}]
    /\ faults = 0

Working(i, e) == courier[i][e].stage # "idle"
Fault == faults < MaxFaults /\ faults' = faults + 1
Sequences == {seq[e] : e \in Events}
Highest(S) == CHOOSE n \in S : \A m \in S : m <= n

-----------------------------------------------------------------------------
(* publish().                                                                 *)

\* The row is part of the transaction of the request; its sequence is not.
Publish(e) ==
    /\ outbox[e] = "none"
    /\ outbox' = [outbox EXCEPT ![e] = "open"]
    /\ seq' = [seq EXCEPT ![e] = Highest(Sequences) + 1]
    /\ UNCHANGED <<due, alive, courier, place, asked, lastSeen, shown, owed, faults>>

CommitRow(e) ==
    /\ outbox[e] = "open"
    /\ outbox' = [outbox EXCEPT ![e] = "PENDING"]
    /\ due' = [due EXCEPT ![e] = TRUE]
    /\ owed' = [owed EXCEPT ![e] = {c \in Screens : place[c] # Away}]
    /\ UNCHANGED <<seq, alive, courier, place, asked, lastSeen, shown, faults>>

RollBack(e) ==
    /\ outbox[e] = "open"
    /\ outbox' = [outbox EXCEPT ![e] = "gone"]
    /\ UNCHANGED <<due, seq, alive, courier, place, asked, lastSeen, shown, owed, faults>>

-----------------------------------------------------------------------------
(* dispatch(), after a commit or from processPending().                       *)

\* The conditional update that claims a row.  Two mutants: a row that is being
\* processed is always taken over, or never.
TakenOver(e) == outbox[e] = "PROCESSING" \/ (outbox[e] = "PENDING" /\ due[e])

NeverTakenOver(e) == outbox[e] = "PENDING" /\ due[e]

Claimable(e) == outbox[e] \in {"PENDING", "PROCESSING"} /\ due[e]

Claim(i, e) ==
    /\ i \in alive /\ ~Working(i, e) /\ Claimable(e)
    /\ outbox' = [outbox EXCEPT ![e] = "PROCESSING"]
    /\ due' = [due EXCEPT ![e] = FALSE]
    /\ courier' = [courier EXCEPT ![i][e] = [stage |-> "claimed", late |-> FALSE]]
    /\ UNCHANGED <<seq, alive, place, asked, lastSeen, shown, owed, faults>>

\* Redis brings the event to every process.  A mutant: only to its own screens.
OwnScreens(i) == {c \in Screens : place[c] = i}

Reached(i) == {c \in Screens : place[c] # Away}

Show(e, screens) ==
    /\ shown' = [c \in Screens |-> IF c \in screens THEN shown[c] \union {e} ELSE shown[c]]
    /\ lastSeen' = [c \in Screens |-> IF c \in screens THEN seq[e] ELSE lastSeen[c]]

Sent(i, e) == courier' = [courier EXCEPT ![i][e].stage = "sent"]

Send(i, e) ==
    /\ courier[i][e].stage = "claimed"
    /\ Show(e, Reached(i)) /\ Sent(i, e)
    /\ UNCHANGED <<outbox, due, seq, alive, place, asked, owed, faults>>

\* The connection to Redis is not ready: the screens of the process alone; no
\* other screen will be shown the event.
SendAlone(i, e) ==
    /\ courier[i][e].stage = "claimed" /\ Fault
    /\ Show(e, {c \in Screens : place[c] = i}) /\ Sent(i, e)
    /\ owed' = [owed EXCEPT ![e] = {c \in @ : place[c] = i}]
    /\ UNCHANGED <<outbox, due, seq, alive, place, asked>>

\* The last update asks for nothing, as the one that puts a failure off.
Mark(i, e) ==
    /\ courier[i][e].stage = "sent"
    /\ outbox' = [outbox EXCEPT ![e] = "PUBLISHED"]
    /\ courier' = [courier EXCEPT ![i][e] = NoCourier]
    /\ UNCHANGED <<due, seq, alive, place, asked, lastSeen, shown, owed, faults>>

\* A mutant: a failure leaves the row as it is, for nobody.
LeftForGood == "FAILED"

PutOff == "PENDING"

Fail(i, e) ==
    /\ Working(i, e) /\ Fault
    /\ outbox' = [outbox EXCEPT ![e] = PutOff]
    /\ due' = [due EXCEPT ![e] = FALSE]
    /\ courier' = [courier EXCEPT ![i][e] = NoCourier]
    /\ UNCHANGED <<seq, alive, place, asked, lastSeen, shown, owed>>

\* The delay of a failure ends, or the 60 s of a claim; a dispatch that is still
\* at work then is late.
Elapse(e) ==
    /\ outbox[e] \in {"PENDING", "PROCESSING"} /\ ~due[e]
    /\ due' = [due EXCEPT ![e] = TRUE]
    /\ IF \E i \in Instances : Working(i, e) THEN Fault ELSE UNCHANGED faults
    /\ courier' = [i \in Instances |-> [courier[i] EXCEPT ![e] =
          IF @.stage = "idle" THEN @ ELSE [@ EXCEPT !.late = TRUE]]]
    /\ UNCHANGED <<outbox, seq, alive, place, asked, lastSeen, shown, owed>>

-----------------------------------------------------------------------------
(* Streams and processes.                                                     *)

\* subscribe(): the screen is registered, then the events after its last id are
\* read.
Connect(c, i) ==
    /\ place[c] = Away /\ i \in alive
    /\ place' = [place EXCEPT ![c] = i]
    /\ asked' = [asked EXCEPT ![c] = lastSeen[c]]
    /\ UNCHANGED <<outbox, due, seq, alive, courier, lastSeen, shown, owed, faults>>

Missed(c) == {e \in Events : outbox[e] = "PUBLISHED" /\ seq[e] > asked[c]}

Replay(c) ==
    /\ place[c] # Away /\ asked[c] # Answered
    /\ shown' = [shown EXCEPT ![c] = @ \union Missed(c)]
    /\ lastSeen' = IF Missed(c) = {} THEN lastSeen
                   ELSE [lastSeen EXCEPT ![c] = Highest({seq[e] : e \in Missed(c)})]
    /\ asked' = [asked EXCEPT ![c] = Answered]
    /\ UNCHANGED <<outbox, due, seq, alive, courier, place, owed, faults>>

Cut(screens) ==
    /\ place' = [c \in Screens |-> IF c \in screens THEN Away ELSE place[c]]
    /\ asked' = [c \in Screens |-> IF c \in screens THEN Answered ELSE asked[c]]
    /\ owed' = [e \in Events |-> owed[e] \ screens]

Disconnect(c) ==
    /\ place[c] # Away /\ Fault /\ Cut({c})
    /\ UNCHANGED <<outbox, due, seq, alive, courier, lastSeen, shown>>

CrashInstance(i) ==
    /\ i \in alive /\ Fault
    /\ alive' = alive \ {i}
    /\ courier' = [courier EXCEPT ![i] = [e \in Events |-> NoCourier]]
    /\ Cut({c \in Screens : place[c] = i})
    /\ UNCHANGED <<outbox, due, seq, lastSeen, shown>>

RestartInstance(i) ==
    /\ i \notin alive
    /\ alive' = alive \union {i}
    /\ UNCHANGED <<outbox, due, seq, courier, place, asked, lastSeen, shown, owed, faults>>

-----------------------------------------------------------------------------
EventFeedNext ==
    \/ \E e \in Events :
          \/ Publish(e) \/ CommitRow(e) \/ RollBack(e) \/ Elapse(e)
          \/ \E i \in Instances : Claim(i, e) \/ Send(i, e) \/ SendAlone(i, e) \/ Mark(i, e) \/ Fail(i, e)
    \/ \E c \in Screens : Replay(c) \/ Disconnect(c) \/ \E i \in Instances : Connect(c, i)
    \/ \E i \in Instances : CrashInstance(i) \/ RestartInstance(i)

\* A timer of 5 s runs in every process, processes are restarted, time passes.
EventFeedFairness ==
    /\ \A e \in Events :
          /\ WF_feedVars(Elapse(e))
          /\ \A i \in Instances : WF_feedVars(Claim(i, e) \/ Send(i, e) \/ Mark(i, e))
    /\ \A i \in Instances : WF_feedVars(RestartInstance(i))

EventFeedSpec == EventFeedInit /\ [][EventFeedNext]_feedVars /\ EventFeedFairness

-----------------------------------------------------------------------------
EventFeedTypeOK ==
    /\ outbox \in [Events -> {"none", "open", "gone", "PENDING", "PROCESSING", "PUBLISHED"}]
    /\ due \in [Events -> BOOLEAN] /\ alive \subseteq Instances
    /\ courier \in [Instances -> [Events -> [stage : {"idle", "claimed", "sent"}, late : BOOLEAN]]]
    /\ place \in [Screens -> Instances \union {Away}]
    /\ \A c \in Screens : shown[c] \subseteq Events /\ lastSeen[c] <= Highest(Sequences)

\* Two processes do not dispatch one event at once, unless one of them has been
\* at it for longer than a claim lasts.
OneCourier == \A e \in Events : Cardinality({i \in Instances : Working(i, e) /\ ~courier[i][e].late}) <= 1

\* A screen that stays connected is shown every event that is PUBLISHED, however
\* often its dispatch failed, crashed or was repeated before.
SteadySeesAll == \A e \in Events : outbox[e] = "PUBLISHED" => \A c \in owed[e] : e \in shown[c]

\* What was committed is published in the end: the timer takes over what a crash
\* or a failure left behind.
EventuallyPublished == \A e \in Events : outbox[e] = "PENDING" ~> outbox[e] = "PUBLISHED"

\* The feed is whole: neither sent twice at once nor lost for whoever stays.
FeedIsWhole == OneCourier /\ SteadySeesAll
=============================================================================
