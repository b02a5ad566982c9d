--------------------------- MODULE Dashboard_proofs ---------------------------
(***************************************************************************)
(* The event log for any limit, any number of events and any number of      *)
(* concurrent requests.  The invariant says how far a copy is turned round: *)
(* its ends are, up to the loop's index, and its middle is as it was copied.*)
(***************************************************************************)
EXTENDS Dashboard, Integers, TLAPS

\* Element k of a copy of the log after n events, at index p of the loop.
Turned(n, p) ==
    [k \in 1 .. Shown(n) |->
        IF k < p \/ k > Shown(n) + 1 - p THEN n + 1 - k ELSE n - Shown(n) + k]

ScalarsType == /\ recorded \in 0 .. MaxRecorded
               /\ i \in [Requests -> Nat \ {0}]
               /\ list \in [Requests -> Seq(1 .. MaxRecorded)]
               /\ state \in [Requests -> {"idle", "reversing", "served"}]
               /\ asked \in [Requests -> 0 .. MaxRecorded]

CopyInv(r) ==
    /\ list[r] = Turned(asked[r], i[r])
    /\ 2 * i[r] <= Shown(asked[r]) + 2
    /\ state[r] = "served" => 2 * i[r] >= Shown(asked[r]) + 1

IInv == ScalarsType /\ HoldsNewest /\ \A r \in Requests : CopyInv(r)

-----------------------------------------------------------------------------
\* Sequences are functions on 1 .. n.
LEMMA FunctionIsSeq ==
    ASSUME NEW S, NEW n \in Nat, NEW f \in [1 .. n -> S]
    PROVE  f \in Seq(S) /\ Len(f) = n
  OBVIOUS

\* An index within a sequence of events gives an event.
LEMMA ElementOf ==
    ASSUME NEW S, NEW s \in Seq(S), NEW k \in 1 .. Len(s)
    PROVE  s[k] \in S
  OBVIOUS

\* A sequence is the function on its indices.
LEMMA SeqIsFunction ==
    ASSUME NEW S, NEW s \in Seq(S)
    PROVE  s = [k \in 1 .. Len(s) |-> s[k]]
  OBVIOUS

\* The window never exceeds the limit nor the events there are.
LEMMA ShownFacts ==
    ASSUME NEW n \in Nat
    PROVE  Shown(n) \in Nat /\ Shown(n) <= n /\ Shown(n) <= maxEvents
  BY maxEventsAssumption DEF Shown

\* Both descriptions of a copy are sequences of that length.
LEMMA WindowFacts ==
    ASSUME NEW n \in 0 .. MaxRecorded
    PROVE  /\ Window(n) \in Seq(1 .. MaxRecorded)
           /\ Len(Window(n)) = Shown(n)
           /\ Turned(n, 1) = Window(n)
<1>1. n \in Nat /\ n <= MaxRecorded
  BY MaxRecordedAssumption
<1>2. Shown(n) \in Nat /\ Shown(n) <= n
  BY <1>1, ShownFacts
<1>3. Window(n) \in [1 .. Shown(n) -> 1 .. MaxRecorded]
  BY <1>1, <1>2, MaxRecordedAssumption DEF Window
<1>4. Window(n) \in Seq(1 .. MaxRecorded) /\ Len(Window(n)) = Shown(n)
  BY <1>2, <1>3, FunctionIsSeq
<1>5. Turned(n, 1) = Window(n)
  BY <1>1, <1>2 DEF Turned, Window
<1> QED
  BY <1>4, <1>5

\* Recording one more event, with the trim, moves the window on by one.
LEMMA WindowMoves ==
    ASSUME NEW n \in 0 .. MaxRecorded, n < MaxRecorded
    PROVE  TrimEvents(Append(Window(n), n + 1)) = Window(n + 1)
<1>1. n \in Nat /\ maxEvents \in Nat \ {0}
  BY MaxRecordedAssumption, maxEventsAssumption
<1>2. Window(n) \in Seq(Nat) /\ Len(Window(n)) = Shown(n)
  <2>1. Shown(n) \in Nat /\ Shown(n) <= n
    BY <1>1, ShownFacts
  <2>2. Window(n) \in [1 .. Shown(n) -> Nat]
    BY <1>1, <2>1 DEF Window
  <2> QED
    BY <2>1, <2>2, FunctionIsSeq
<1> DEFINE es == Append(Window(n), n + 1)
<1>3. /\ es \in Seq(Nat) /\ Len(es) = Shown(n) + 1 /\ DOMAIN es = 1 .. Len(es)
      /\ \A k \in 1 .. Shown(n) : es[k] = Window(n)[k]
      /\ es[Shown(n) + 1] = n + 1
  BY <1>1, <1>2
<1>4. \A k \in 1 .. Shown(n) + 1 : es[k] = n - Shown(n) + k
  <2>1. \A k \in 1 .. Shown(n) : es[k] = n - Shown(n) + k
    BY <1>3 DEF Window
  <2>2. Shown(n) \in Nat /\ Shown(n) <= n
    BY <1>1, ShownFacts
  <2>3. es[Shown(n) + 1] = n - Shown(n) + (Shown(n) + 1)
    BY <1>1, <1>3, <2>2
  <2>4. \A k \in 1 .. Shown(n) + 1 : k \in 1 .. Shown(n) \/ k = Shown(n) + 1
    BY <2>2
  <2> HIDE DEF es
  <2> QED
    BY <2>1, <2>3, <2>4
<1> HIDE DEF es
<1>5. CASE n < maxEvents
  <2>1. Shown(n) = n /\ Shown(n + 1) = n + 1
    BY <1>1, <1>5 DEF Shown
  <2>2. TrimEvents(es) = es
    BY <1>1, <1>3, <1>5, <2>1 DEF TrimEvents
  <2>3. es = Window(n + 1)
    BY <1>1, <1>3, <1>4, <2>1 DEF Window
  <2> QED
    BY <2>2, <2>3 DEF es
<1>6. CASE n >= maxEvents
  <2>1. Shown(n) = maxEvents /\ Shown(n + 1) = maxEvents
    BY <1>1, <1>6 DEF Shown
  <2>2. TrimEvents(es) = SubSeq(es, 2, maxEvents + 1)
    BY <1>1, <1>3, <2>1 DEF TrimEvents
  <2>3. /\ SubSeq(es, 2, maxEvents + 1) \in Seq(Nat)
        /\ Len(SubSeq(es, 2, maxEvents + 1)) = maxEvents
        /\ \A k \in 1 .. maxEvents : SubSeq(es, 2, maxEvents + 1)[k] = es[k + 1]
    BY <1>1, <1>3, <2>1
  <2>4. \A k \in 1 .. maxEvents : es[k + 1] = (n + 1) - maxEvents + k
    BY <1>1, <1>4, <2>1
  <2>5. SubSeq(es, 2, maxEvents + 1) = Window(n + 1)
    <3> DEFINE sub == SubSeq(es, 2, maxEvents + 1)
    <3>1. sub = [k \in 1 .. maxEvents |-> sub[k]]
      BY <2>3, SeqIsFunction
    <3>2. \A k \in 1 .. maxEvents : sub[k] = (n + 1) - maxEvents + k
      BY <1>1, <2>3, <2>4
    <3> HIDE DEF sub
    <3>3. sub = [k \in 1 .. maxEvents |-> (n + 1) - maxEvents + k]
      BY <3>1, <3>2
    <3> QED
      BY <2>1, <3>3 DEF Window, sub
  <2> QED
    BY <2>2, <2>5 DEF es
<1> QED
  BY <1>1, <1>5, <1>6

\* One round of the loop turns one more pair.
LEMMA TurnOneMore ==
    ASSUME NEW n \in Nat, NEW p \in Nat \ {0}, p < Shown(n) + 1 - p
    PROVE  Swapped(Turned(n, p), p, Shown(n) + 1 - p) = Turned(n, p + 1)
<1> DEFINE m == Shown(n)
           q == m + 1 - p
           s == Turned(n, p)
<1>1. m \in Nat /\ m <= n
  BY ShownFacts
<1>2. p \in 1 .. m /\ q \in 1 .. m /\ p < q
  BY <1>1
<1>3. s[p] = n - m + p /\ s[q] = n - m + q
  BY <1>1, <1>2 DEF Turned
<1>4. s[p] = n + 1 - q /\ s[q] = n + 1 - p
  BY <1>1, <1>2, <1>3
<1>5. \A k \in 1 .. m : Swapped(s, p, q)[k] = Turned(n, p + 1)[k]
  <2> SUFFICES ASSUME NEW k \in 1 .. m
               PROVE  Swapped(s, p, q)[k] = Turned(n, p + 1)[k]
    OBVIOUS
  <2>1. CASE k = p
    BY <1>1, <1>2, <1>4, <2>1 DEF Swapped, Turned
  <2>2. CASE k = q
    BY <1>1, <1>2, <1>4, <2>2 DEF Swapped, Turned
  <2>3. CASE k # p /\ k # q
    <3>1. Swapped(s, p, q)[k] = s[k]
      BY <2>3 DEF Swapped, Turned
    <3>2. k < p + 1 \/ k > m + 1 - (p + 1) <=> k < p \/ k > m + 1 - p
      BY <1>1, <1>2, <2>3
    <3>3. s[k] = Turned(n, p + 1)[k]
      BY <1>1, <3>2 DEF Turned
    <3> QED
      BY <3>1, <3>3
  <2> QED
    BY <2>1, <2>2, <2>3
<1>6. DOMAIN Swapped(s, p, q) = 1 .. m /\ DOMAIN Turned(n, p + 1) = 1 .. m
  BY DEF Swapped, Turned
<1>7. Swapped(s, p, q) = [k \in 1 .. m |-> Swapped(s, p, q)[k]]
  BY <1>6 DEF Swapped
<1>8. Turned(n, p + 1) = [k \in 1 .. m |-> Turned(n, p + 1)[k]]
  BY DEF Turned
<1> QED
  BY <1>5, <1>7, <1>8

-----------------------------------------------------------------------------
\* The log starts empty.
LEMMA InitIInv == Init => IInv
<1> SUFFICES ASSUME Init PROVE IInv
  OBVIOUS
<1>1. 0 \in 0 .. MaxRecorded /\ Shown(0) = 0
  BY MaxRecordedAssumption, maxEventsAssumption DEF Shown
<1>2. <<>> \in Seq(1 .. MaxRecorded) /\ <<>> = Window(0)
  BY <1>1 DEF Window
<1>3. Turned(0, 1) = Window(0)
  BY <1>1, WindowFacts
<1>4. ScalarsType /\ HoldsNewest
  BY <1>1, <1>2 DEF Init, ScalarsType, HoldsNewest
<1>5. \A r \in Requests : CopyInv(r)
  <2> SUFFICES ASSUME NEW r \in Requests PROVE CopyInv(r)
    OBVIOUS
  <2>1. list[r] = <<>> /\ i[r] = 1 /\ state[r] = "idle" /\ asked[r] = 0
    BY DEF Init
  <2>2. <<>> = Turned(0, 1)
    BY <1>2, <1>3
  <2> QED
    BY <1>1, <2>1, <2>2 DEF CopyInv
<1> QED
  BY <1>4, <1>5 DEF IInv

\* A copy that a step leaves alone is as it was.
LEMMA OtherCopies ==
    ASSUME NEW r \in Requests, CopyInv(r),
           list'[r] = list[r], i'[r] = i[r], state'[r] \in {state[r], "idle"}, asked'[r] = asked[r]
    PROVE  CopyInv(r)'
  BY DEF CopyInv

\* Every step keeps the slice at the window and every copy at its turning.
LEMMA StepIInv == ASSUME IInv, [Next]_vars PROVE IInv'
<1> USE DEF IInv
<1>0. \A r \in Requests : /\ asked[r] \in 0 .. MaxRecorded /\ asked[r] \in Nat
                          /\ i[r] \in Nat \ {0} /\ list[r] \in Seq(1 .. MaxRecorded)
                          /\ Len(list[r]) = Shown(asked[r])
  <2> TAKE r \in Requests
  <2>1. asked[r] \in Nat /\ i[r] \in Nat \ {0} /\ asked[r] \in 0 .. MaxRecorded
    BY MaxRecordedAssumption DEF ScalarsType
  <2>2. list[r] = Turned(asked[r], i[r])
    BY DEF CopyInv
  <2>3. Turned(asked[r], i[r]) \in [1 .. Shown(asked[r]) -> Int]
    BY <2>1, ShownFacts DEF Turned
  <2>4. Len(Turned(asked[r], i[r])) = Shown(asked[r])
    BY <2>1, <2>3, ShownFacts, FunctionIsSeq
  <2> QED
    BY <2>1, <2>2, <2>4 DEF ScalarsType
<1>1. CASE Record
  <2>1. recorded \in 0 .. MaxRecorded /\ recorded < MaxRecorded
    BY <1>1 DEF Record, ScalarsType
  <2>2. events' = Window(recorded + 1) /\ recorded' = recorded + 1
    BY <1>1, <2>1, WindowMoves DEF Record, HoldsNewest
  <2>3. HoldsNewest'
    BY <2>2 DEF HoldsNewest
  <2>4. UNCHANGED request
    BY <1>1 DEF Record
  <2>5. ScalarsType'
    BY <2>1, <2>2, <2>4, MaxRecordedAssumption DEF ScalarsType, request
  <2>6. \A r \in Requests : CopyInv(r)'
    BY <2>4, OtherCopies DEF request
  <2> QED
    BY <2>3, <2>5, <2>6
<1>2. ASSUME NEW r \in Requests, GetEvents(r) PROVE IInv'
  <2>1. UNCHANGED <<recorded, events>>
    BY <1>2 DEF GetEvents
  <2>2. HoldsNewest'
    BY <2>1 DEF HoldsNewest
  <2>3. recorded \in 0 .. MaxRecorded /\ recorded \in Nat
    BY MaxRecordedAssumption DEF ScalarsType
  <2>4. events = Turned(recorded, 1) /\ events \in Seq(1 .. MaxRecorded)
    BY <2>3, WindowFacts DEF HoldsNewest
  <2>5. ScalarsType'
    BY <1>2, <2>3, <2>4 DEF GetEvents, ScalarsType
  <2>6. /\ list'[r] = events /\ i'[r] = 1
        /\ state'[r] = "reversing" /\ asked'[r] = recorded
    BY <1>2 DEF GetEvents, ScalarsType
  <2>7. CopyInv(r)'
    BY <2>3, <2>4, <2>6, ShownFacts DEF CopyInv
  <2>8. \A o \in Requests \ {r} : CopyInv(o)'
    BY <1>2, OtherCopies DEF GetEvents, ScalarsType
  <2> QED
    BY <2>2, <2>5, <2>7, <2>8
<1>3. ASSUME NEW r \in Requests, Swap(r) PROVE IInv'
  <2> DEFINE n == asked[r]
             p == i[r]
             q == Shown(n) + 1 - p
  <2>1. /\ state[r] = "reversing" /\ p < q
        /\ list' = [list EXCEPT ![r] = Swapped(list[r], p, q)]
        /\ i' = [i EXCEPT ![r] = p + 1]
        /\ UNCHANGED <<recorded, events, state, asked>>
    BY <1>0, <1>3 DEF Swap
  <2>2. HoldsNewest'
    BY <2>1 DEF HoldsNewest
  <2>3. n \in Nat /\ p \in Nat \ {0} /\ Shown(n) \in Nat
    BY <1>0, ShownFacts
  <2>4. list[r] = Turned(n, p)
    BY DEF CopyInv
  <2>5. Swapped(list[r], p, q) = Turned(n, p + 1)
    BY <2>1, <2>3, <2>4, TurnOneMore
  <2>6. list'[r] = Turned(n, p + 1) /\ i'[r] = p + 1
    BY <2>1, <2>5 DEF ScalarsType
  <2>7. CopyInv(r)'
    BY <2>1, <2>3, <2>6 DEF CopyInv
  <2>8. \A o \in Requests \ {r} : CopyInv(o)'
    BY <2>1, OtherCopies DEF ScalarsType
  <2>9. Swapped(list[r], p, q) \in Seq(1 .. MaxRecorded)
    <3>1. p \in 1 .. Len(list[r]) /\ q \in 1 .. Len(list[r]) /\ list[r] \in Seq(1 .. MaxRecorded)
      BY <1>0, <2>1, <2>3
    <3>2. list[r][p] \in 1 .. MaxRecorded /\ list[r][q] \in 1 .. MaxRecorded
      BY <3>1, ElementOf
    <3> QED
      BY <3>1, <3>2 DEF Swapped
  <2>10. ScalarsType'
    BY <2>1, <2>3, <2>9 DEF ScalarsType
  <2> QED
    BY <2>2, <2>7, <2>8, <2>10
<1>4. ASSUME NEW r \in Requests, Serve(r) PROVE IInv'
  <2>1. /\ i[r] >= Len(list[r]) + 1 - i[r]
        /\ state' = [state EXCEPT ![r] = "served"]
        /\ UNCHANGED <<recorded, events, list, i, asked>>
    BY <1>4 DEF Serve
  <2>2. HoldsNewest' /\ ScalarsType'
    BY <2>1 DEF HoldsNewest, ScalarsType
  <2>3. Shown(asked[r]) \in Nat
    BY <1>0, ShownFacts
  <2>4. CopyInv(r)'
    BY <1>0, <2>1, <2>3 DEF CopyInv
  <2>5. \A o \in Requests \ {r} : CopyInv(o)'
    BY <2>1, OtherCopies DEF ScalarsType
  <2> QED
    BY <2>2, <2>4, <2>5
<1>5. ASSUME NEW r \in Requests, Again(r) PROVE IInv'
  <2>1. /\ state' = [state EXCEPT ![r] = "idle"]
        /\ UNCHANGED <<recorded, events, list, i, asked>>
    BY <1>5 DEF Again
  <2>2. HoldsNewest' /\ ScalarsType'
    BY <2>1 DEF HoldsNewest, ScalarsType
  <2>3. \A o \in Requests : CopyInv(o)'
    BY <2>1, OtherCopies DEF ScalarsType
  <2> QED
    BY <2>2, <2>3
<1>6. CASE UNCHANGED vars
  BY <1>6, OtherCopies DEF vars, request, HoldsNewest, ScalarsType
<1> QED
  BY <1>1, <1>2, <1>3, <1>4, <1>5, <1>6 DEF Next

\* The invariant holds in every reachable state.
LEMMA InvariantHolds == Spec => []IInv
  BY InitIInv, StepIInv, PTL DEF Spec

\* The slice never holds anything but the newest events, for any limit and any
\* number of events and of requests that turn their copies round meanwhile.
THEOREM NewestHeld == Spec => []HoldsNewest
<1>1. IInv => HoldsNewest
  BY DEF IInv
<1> QED
  BY <1>1, InvariantHolds, PTL

\* Every answer is the log at one moment, the newest event first.
THEOREM AnswersAreSnapshots == Spec => []ServedIsSnapshot
<1>1. ASSUME IInv, NEW r \in Requests, state[r] = "served"
      PROVE  list[r] = [k \in 1 .. Shown(asked[r]) |-> asked[r] + 1 - k]
  <2> DEFINE n == asked[r]
             p == i[r]
  <2>1. n \in Nat /\ p \in Nat \ {0}
    BY <1>1, MaxRecordedAssumption DEF IInv, ScalarsType
  <2>2. list[r] = Turned(n, p) /\ 2 * p >= Shown(n) + 1
    BY <1>1 DEF IInv, CopyInv
  <2>3. Shown(n) \in Nat
    BY <2>1, ShownFacts
  <2> HIDE DEF n, p
  <2>4. ASSUME NEW k \in 1 .. Shown(n)
        PROVE  (IF k < p \/ k > Shown(n) + 1 - p THEN n + 1 - k ELSE n - Shown(n) + k) = n + 1 - k
    BY <2>1, <2>2, <2>3
  <2>5. Turned(n, p) = [k \in 1 .. Shown(n) |-> n + 1 - k]
    BY <2>4 DEF Turned
  <2> QED
    BY <2>2, <2>5 DEF n
<1>2. IInv => ServedIsSnapshot
  BY <1>1 DEF ServedIsSnapshot
<1> QED
  BY <1>2, InvariantHolds, PTL

\* Every variable keeps its type, and no loop runs past the middle of its copy.
THEOREM TypeCorrect == Spec => []TypeOK
<1>1. ASSUME IInv PROVE TypeOK
  <2>1. recorded \in 0 .. MaxRecorded
    BY <1>1 DEF IInv, ScalarsType
  <2>2. events \in Seq(1 .. MaxRecorded)
    BY <1>1, <2>1, WindowFacts DEF IInv, HoldsNewest
  <2>3. ASSUME NEW r \in Requests PROVE 2 * i[r] <= Len(list[r]) + 2
    <3>1. asked[r] \in Nat /\ i[r] \in Nat \ {0}
      BY <1>1, MaxRecordedAssumption DEF IInv, ScalarsType
    <3>2. Turned(asked[r], i[r]) \in [1 .. Shown(asked[r]) -> Int]
      BY <3>1, ShownFacts DEF Turned
    <3>3. Len(Turned(asked[r], i[r])) = Shown(asked[r])
      BY <3>1, <3>2, ShownFacts, FunctionIsSeq
    <3> QED
      BY <1>1, <3>3 DEF IInv, CopyInv
  <2> QED
    BY <1>1, <2>1, <2>2, <2>3 DEF IInv, ScalarsType, TypeOK
<1> QED
  BY <1>1, InvariantHolds, PTL
=============================================================================
