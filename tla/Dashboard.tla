------------------------------ MODULE Dashboard ------------------------------
(***************************************************************************)
(* The event log of the operator (operator/internal/dashboard): a slice     *)
(* under a mutex that handlers append to and that is cut to its newest      *)
(* maxEvents; requests copy it under the read lock, turn the copy round     *)
(* after the unlock, and write it out.                                      *)
(***************************************************************************)
EXTENDS Naturals, Sequences

CONSTANTS
    Requests,     \* HTTP requests for the dashboard, served concurrently
    maxEvents,
    MaxRecorded   \* bound: events of a behaviour

ASSUME maxEventsAssumption == maxEvents \in Nat \ {0}
ASSUME MaxRecordedAssumption == MaxRecorded \in Nat

VARIABLES
    recorded,  \* history: how many events were recorded; event n is the n-th
    events,    \* the slice
    list,      \* list[r]: the copy of request r
    i,         \* i[r]: how far the reversal of list[r] is
    state,     \* state[r]: "idle", "reversing" or "served"
    asked      \* history: recorded when the request copied

request == <<list, i, state, asked>>
vars == <<recorded, events, request>>

Init ==
    /\ recorded = 0
    /\ events = <<>>
    /\ list = [r \in Requests |-> <<>>]
    /\ i = [r \in Requests |-> 1]
    /\ state = [r \in Requests |-> "idle"]
    /\ asked = [r \in Requests |-> 0]

\* Variant: the oldest events are kept.
TrimOldest(es) == IF Len(es) > maxEvents THEN SubSeq(es, 1, maxEvents) ELSE es

TrimEvents(es) == IF Len(es) > maxEvents
                  THEN SubSeq(es, Len(es) - maxEvents + 1, Len(es))
                  ELSE es

\* RecordAlertReceived, RecordRemediationApplied, RecordRemediationFailed.
Record ==
    /\ recorded < MaxRecorded
    /\ recorded' = recorded + 1
    /\ events' = TrimEvents(Append(events, recorded + 1))
    /\ UNCHANGED request

\* GetEvents, at the start of ServeHTTP.
GetEvents(r) ==
    /\ state[r] = "idle"
    /\ list' = [list EXCEPT ![r] = events]
    /\ i' = [i EXCEPT ![r] = 1]
    /\ state' = [state EXCEPT ![r] = "reversing"]
    /\ asked' = [asked EXCEPT ![r] = recorded]
    /\ UNCHANGED <<recorded, events>>

Swapped(s, a, b) == [s EXCEPT ![a] = s[b], ![b] = s[a]]

\* Variant: the copy shares its array with the slice.
SwapShared(r) ==
    LET j == Len(list[r]) + 1 - i[r] IN
    /\ state[r] = "reversing"
    /\ i[r] < j
    /\ list' = [list EXCEPT ![r] = Swapped(@, i[r], j)]
    /\ events' = IF Len(events) >= j THEN Swapped(events, i[r], j) ELSE events
    /\ i' = [i EXCEPT ![r] = @ + 1]
    /\ UNCHANGED <<recorded, state, asked>>

\* Variant: the loop also runs when both indices meet.
SwapMiddle(r) ==
    LET j == Len(list[r]) + 1 - i[r] IN
    /\ state[r] = "reversing"
    /\ i[r] <= j
    /\ list' = [list EXCEPT ![r] = Swapped(@, i[r], j)]
    /\ i' = [i EXCEPT ![r] = @ + 1]
    /\ UNCHANGED <<recorded, events, state, asked>>

\* One round of the loop that turns the copy round, newest first.
Swap(r) ==
    LET j == Len(list[r]) + 1 - i[r] IN
    /\ state[r] = "reversing"
    /\ i[r] < j
    /\ list' = [list EXCEPT ![r] = Swapped(@, i[r], j)]
    /\ i' = [i EXCEPT ![r] = @ + 1]
    /\ UNCHANGED <<recorded, events, state, asked>>

Serve(r) ==
    /\ state[r] = "reversing"
    /\ i[r] >= Len(list[r]) + 1 - i[r]
    /\ state' = [state EXCEPT ![r] = "served"]
    /\ UNCHANGED <<recorded, events, list, i, asked>>

\* The browser asks again.
Again(r) ==
    /\ state[r] = "served"
    /\ state' = [state EXCEPT ![r] = "idle"]
    /\ UNCHANGED <<recorded, events, list, i, asked>>

Next ==
    \/ Record
    \/ \E r \in Requests : GetEvents(r) \/ Swap(r) \/ Serve(r) \/ Again(r)

Spec == Init /\ [][Next]_vars

-----------------------------------------------------------------------------
(* Properties *)

\* How many of the first n events the log shows, and their order in the slice.
Shown(n) == IF n < maxEvents THEN n ELSE maxEvents
Window(n) == [k \in 1 .. Shown(n) |-> n - Shown(n) + k]

\* Every variable keeps its type; the loop stops in the middle of the copy.
TypeOK ==
    /\ recorded \in 0 .. MaxRecorded
    /\ events \in Seq(1 .. MaxRecorded)
    /\ list \in [Requests -> Seq(1 .. MaxRecorded)]
    /\ i \in [Requests -> Nat]
    /\ \A r \in Requests : 2 * i[r] <= Len(list[r]) + 2
    /\ state \in [Requests -> {"idle", "reversing", "served"}]
    /\ asked \in [Requests -> 0 .. MaxRecorded]

\* The slice holds the newest events, at most maxEvents, in order, without a
\* gap, whatever requests do with their copies.
HoldsNewest == events = Window(recorded)

\* A request answers with the newest events of the moment it copied them, the
\* newest first, although events are recorded while it turns its copy round.
ServedIsSnapshot ==
    \A r \in Requests :
        state[r] = "served" =>
            list[r] = [k \in 1 .. Shown(asked[r]) |-> asked[r] + 1 - k]
=============================================================================
