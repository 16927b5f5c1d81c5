---------------------------- MODULE LowerProofs ----------------------------
(***************************************************************************)
(* The lower filter, for every set of requests and every snapshot size:    *)
(* its list of active reads is exact, and a callback that cancels them     *)
(* passes over none of those the stack below holds.                        *)
(***************************************************************************)
EXTENDS LowerDriver, QueueLemmas

-----------------------------------------------------------------------------
(* Types.                                                                  *)

\* Taking a tracked read out leaves the other reads, each once.
LEMMA RemoveTrackedElements ==
  ASSUME ActiveInputRequests \in Seq(Requests), IsInjective(ActiveInputRequests),
         NEW r \in Requests, RemoveTracked(r)
  PROVE  /\ ActiveInputRequests' \in Seq(Requests)
         /\ IsInjective(ActiveInputRequests')
         /\ Range(ActiveInputRequests') = Range(ActiveInputRequests) \ {r}
  <1>1. CASE r \in Range(ActiveInputRequests)
    <2>1. PICK i \in DOMAIN ActiveInputRequests :
            /\ ActiveInputRequests[i] = r
            /\ ActiveInputRequests' = RemoveAt(ActiveInputRequests, i)
      BY <1>1 DEF RemoveTracked
    <2>2. /\ IsInjective(ActiveInputRequests')
          /\ Range(ActiveInputRequests') = Range(ActiveInputRequests) \ {r}
      BY <2>1, RemoveAtElements DEF RemoveAt
    <2>3. ActiveInputRequests' \in Seq(Requests)
      <3>1. i \in 1 .. Len(ActiveInputRequests) /\ Len(ActiveInputRequests) \in Nat
        BY LenProperties
      <3> QED
        BY <2>1, <3>1, SubSeqProperties, ConcatProperties, ElementOfSeq DEF RemoveAt
    <2> QED
      BY <2>2, <2>3
  <1>2. CASE r \notin Range(ActiveInputRequests)
    BY <1>2 DEF RemoveTracked
  <1> QED
    BY <1>1, <1>2

\* The handles that dangle are replaced in place.
LEMMA FreeRequestSnapshots ==
  ASSUME TypeOK, NEW r \in Requests, FreeRequest(r)
  PROVE  /\ snapshot' \in [CancelThreads -> Seq(Requests \cup {Dangling})]
         /\ \A t \in CancelThreads :
              Range(snapshot[t]) \ {r} \subseteq Range(snapshot'[t])
  <1>1. ASSUME NEW t \in CancelThreads
        PROVE  /\ snapshot'[t] \in Seq(Requests \cup {Dangling})
               /\ Range(snapshot[t]) \ {r} \subseteq Range(snapshot'[t])
    <2> DEFINE s == snapshot[t]
               f == [i \in DOMAIN s |-> IF s[i] = r THEN Dangling ELSE s[i]]
    <2>1. snapshot'[t] = f
      BY DEF FreeRequest
    <2>2. s \in Seq(Requests \cup {Dangling})
      BY DEF TypeOK
    <2>3. /\ Len(s) \in Nat /\ DOMAIN s = 1 .. Len(s)
          /\ \A i \in 1 .. Len(s) : s[i] \in Requests \cup {Dangling}
      BY <2>2, LenProperties, ElementOfSeq
    <2> HIDE DEF s
    <2>4. f \in [1 .. Len(s) -> Requests \cup {Dangling}]
      BY <2>3
    <2>5. f \in Seq(Requests \cup {Dangling})
      BY <2>3, <2>4, SeqDef
    <2>6. Range(s) \ {r} \subseteq Range(f)
      BY DEF Range
    <2> QED
      BY <2>1, <2>5, <2>6 DEF s
  <1>2. snapshot' = [t \in CancelThreads |-> snapshot'[t]]
    BY DEF FreeRequest
  <1> QED
    BY <1>1, <1>2

\* What the proofs carry from state to state.
TrackedInv == TypeOK /\ ActiveReadsTracked

LEMMA InitTracked == Init => TrackedInv
  <1> SUFFICES ASSUME Init PROVE TrackedInv
    OBVIOUS
  <1>1. ActiveReadsTracked
    BY EmptySeq DEF Init, ActiveReadsTracked, IsInjective, Range, TrackedLabels
  <1>2. TypeOK
    BY LowerAssumption, EmptySeq
       DEF Init, TypeOK, CancelThreads, RequestLabels, PnpLabels
  <1> QED
    BY <1>1, <1>2 DEF TrackedInv

\* A request arrives, or moves on without the collection.
LEMMA QuietTracked ==
  ASSUME TrackedInv, NEW r \in Requests, NEW label \in RequestLabels,
         GotoRequest(r, label), UNCHANGED <<ActiveInputRequests, pc, owed>>,
         cancelled' \in SUBSET Requests, HasObservedReport' \in BOOLEAN,
         rpc[r] \in TrackedLabels <=> label \in TrackedLabels,
         snapshot' \in [CancelThreads -> Seq(Requests \cup {Dangling})]
  PROVE  TrackedInv'
  BY DEF TrackedInv, TypeOK, ActiveReadsTracked, GotoRequest

LEMMA ArrivalTracked ==
  ASSUME TrackedInv, NEW r \in Requests, Arrival(r)
  PROVE  TrackedInv'
  <1>1. rpc[r] = "free"
    BY DEF Arrival, EvtIoRead, EvtIoWrite, EvtIoDeviceControl
  <1>2. \E label \in {"track", "forward"} : OnlyMovesRequest(r, label)
    BY DEF Arrival, EvtIoRead, EvtIoWrite, EvtIoDeviceControl
  <1> QED
    BY <1>1, <1>2, QuietTracked
       DEF OnlyMovesRequest, threadVars, TrackedInv, TypeOK, RequestLabels, TrackedLabels

LEMMA RequestTracked ==
  ASSUME TrackedInv, NEW r \in Requests, RequestStep(r)
  PROVE  TrackedInv'
  <1> USE DEF RequestLabels, TrackedLabels
  <1>1. CASE ForwardRequest(r) \/ CompleteRefused(r) \/ AnswerRequest(r)
    <2>1. /\ rpc[r] \in {"forward", "refused", "answer"}
          /\ FreeRequest(r)
          /\ UNCHANGED <<ActiveInputRequests, cancelled, HasObservedReport>>
      BY <1>1 DEF ForwardRequest, CompleteRefused, AnswerRequest
    <2>2. snapshot' \in [CancelThreads -> Seq(Requests \cup {Dangling})]
      BY <2>1, FreeRequestSnapshots DEF TrackedInv
    <2>3. GotoRequest(r, "free") /\ UNCHANGED <<pc, owed>>
      BY <2>1 DEF FreeRequest
    <2> QED
      BY <2>1, <2>2, <2>3, QuietTracked DEF TrackedInv, TypeOK
  <1>2. CASE TrackActiveInputRequest(r)
    <2>1. CASE OnlyMovesRequest(r, "refused")
      BY <1>2, <2>1, QuietTracked
         DEF TrackActiveInputRequest, OnlyMovesRequest, threadVars, TrackedInv, TypeOK
    <2>2. CASE ~OnlyMovesRequest(r, "refused")
      <3>1. /\ ActiveInputRequests' = Append(ActiveInputRequests, r)
            /\ GotoRequest(r, "send")
            /\ UNCHANGED <<cancelled, threadVars, HasObservedReport>>
            /\ rpc[r] = "track"
        BY <1>2, <2>2 DEF TrackActiveInputRequest
      <3>2. /\ ActiveInputRequests \in Seq(Requests)
            /\ IsInjective(ActiveInputRequests)
            /\ r \notin Range(ActiveInputRequests)
        BY <3>1 DEF TrackedInv, TypeOK, ActiveReadsTracked
      <3>3. /\ IsInjective(ActiveInputRequests')
            /\ Range(ActiveInputRequests') = Range(ActiveInputRequests) \cup {r}
        BY <3>1, <3>2, AppendElements
      <3>4. ActiveInputRequests' \in Seq(Requests)
        BY <3>1, <3>2, AppendProperties
      <3>5. rpc' \in [Requests -> RequestLabels]
        BY <3>1 DEF GotoRequest, TrackedInv, TypeOK
      <3>6. TypeOK'
        BY <3>1, <3>4, <3>5 DEF TrackedInv, TypeOK, threadVars
      <3>7. ActiveReadsTracked'
        BY <3>1, <3>3 DEF TrackedInv, ActiveReadsTracked, GotoRequest, TypeOK
      <3> QED
        BY <3>6, <3>7 DEF TrackedInv
    <2> QED
      BY <2>1, <2>2
  <1>3. CASE SendToLower(r)
    BY <1>3, QuietTracked DEF SendToLower, OnlyMovesRequest, threadVars, TrackedInv, TypeOK
  <1>4. CASE UntrackRefused(r) \/ UntrackCompleted(r)
    <2>1. PICK label \in {"refused", "capture"} : GotoRequest(r, label)
      BY <1>4 DEF UntrackRefused, UntrackCompleted
    <2>2. /\ RemoveTracked(r)
          /\ UNCHANGED <<cancelled, threadVars, HasObservedReport>>
      BY <1>4 DEF UntrackRefused, UntrackCompleted
    <2>3. /\ ActiveInputRequests' \in Seq(Requests)
          /\ IsInjective(ActiveInputRequests')
          /\ Range(ActiveInputRequests') = Range(ActiveInputRequests) \ {r}
      BY <2>2, RemoveTrackedElements DEF TrackedInv, TypeOK, ActiveReadsTracked
    <2>4. rpc' \in [Requests -> RequestLabels]
      BY <2>1 DEF GotoRequest, TrackedInv, TypeOK
    <2>5. TypeOK'
      BY <2>2, <2>3, <2>4 DEF TrackedInv, TypeOK, threadVars
    <2>6. ActiveReadsTracked'
      BY <2>1, <2>3 DEF TrackedInv, ActiveReadsTracked, GotoRequest, TypeOK
    <2> QED
      BY <2>5, <2>6 DEF TrackedInv
  <1>5. CASE CaptureObservedReport(r)
    BY <1>5, QuietTracked DEF CaptureObservedReport, threadVars, TrackedInv, TypeOK
  <1> QED
    BY <1>1, <1>2, <1>3, <1>4, <1>5 DEF RequestStep

LEMMA LowerTracked ==
  ASSUME TrackedInv, NEW r \in Requests, LowerCompletes(r)
  PROVE  TrackedInv'
  <1>1. rpc' \in [Requests -> RequestLabels]
    BY DEF LowerCompletes, GotoRequest, TrackedInv, TypeOK, RequestLabels, TrackedLabels
  <1>2. owed' \in [CancelThreads -> SUBSET Requests]
    BY DEF LowerCompletes, TrackedInv, TypeOK
  <1>3. TypeOK'
    BY <1>1, <1>2 DEF LowerCompletes, TrackedInv, TypeOK
  <1>4. ActiveReadsTracked'
    BY DEF LowerCompletes, GotoRequest, TrackedInv, TypeOK, ActiveReadsTracked, TrackedLabels
  <1> QED
    BY <1>3, <1>4 DEF TrackedInv

\* The list the callbacks copy, or a front of it.
LEMMA SnapshotCopies ==
  ASSUME TypeOK, NEW t \in CancelThreads, NEW label, SnapshotActive(t, label)
  PROVE  /\ snapshot' \in [CancelThreads -> Seq(Requests \cup {Dangling})]
         /\ owed' \in [CancelThreads -> SUBSET Requests]
         /\ owed'[t] # {} => snapshot'[t] = ActiveInputRequests
  <1> DEFINE n == Len(ActiveInputRequests)
             k == IF n > SnapshotSize THEN SnapshotSize ELSE n
             s == SubSeq(ActiveInputRequests, 1, k)
  <1>1. /\ ActiveInputRequests \in Seq(Requests) /\ n \in Nat /\ k \in Nat /\ k <= n
        /\ \A i \in 1 .. n : ActiveInputRequests[i] \in Requests
    BY LowerAssumption, LenProperties, ElementOfSeq DEF TypeOK
  <1>2. snapshot' = [snapshot EXCEPT ![t] = s]
    BY DEF SnapshotActive
  <1>3. owed' = [owed EXCEPT ![t] = IF n > SnapshotSize THEN {} ELSE ReadsBelow]
    BY DEF SnapshotActive
  <1> HIDE DEF n, s
  <1>4. s \in Seq(Requests)
    BY <1>1, SubSeqProperties DEF s, n
  <1>5. s \in Seq(Requests \cup {Dangling})
    BY <1>4, SeqDef
  <1>6. ~(n > SnapshotSize) => s = ActiveInputRequests
    <2> SUFFICES ASSUME ~(n > SnapshotSize) PROVE s = ActiveInputRequests
      OBVIOUS
    <2>1. k = n
      OBVIOUS
    <2>2. /\ Len(s) = n /\ \A i \in 1 .. n : s[i] = ActiveInputRequests[i]
      BY <1>1, <2>1, SubSeqProperties DEF s, n
    <2> QED
      BY <1>1, <1>4, <2>2, SeqEqual DEF n
  <1>7. snapshot' \in [CancelThreads -> Seq(Requests \cup {Dangling})]
    BY <1>2, <1>5 DEF TypeOK
  <1>8. owed' \in [CancelThreads -> SUBSET Requests]
    BY <1>3 DEF TypeOK, ReadsBelow
  <1>9. owed'[t] # {} => snapshot'[t] = ActiveInputRequests
    BY <1>2, <1>3, <1>6 DEF TypeOK
  <1> QED
    BY <1>7, <1>8, <1>9

\* The callbacks take snapshots, walk them and forget the report.
SnapshotTaken(t) == \E label \in CancelLabels : SnapshotActive(t, label)

LEMMA CallbackCases ==
  ASSUME NEW t \in CancelThreads, CallbackStep(t) \/ PnpCall
  PROVE  \/ CancelNext(t) \/ SnapshotTaken(t)
         \/ UNCHANGED <<requestVars, snapshot, owed>>
  BY DEF CallbackStep, PnpCall, D0ExitSnapshot, D0ExitEnds, ReleaseSnapshot,
         ReleaseCancelled, ForgetObservedReport, RemovalSnapshot, RemovalEnds,
         PrepareHardware, D0Entry, D0Exit, ReleaseHardware, SurpriseRemoval,
         CancelEnds, OnlyMoves, SnapshotTaken, CancelLabels

LEMMA CallbackLabels ==
  ASSUME TypeOK, NEW t \in CancelThreads, CallbackStep(t) \/ PnpCall
  PROVE  /\ pc' \in [CancelThreads ->
                       PnpLabels \cup RemovalLabels \cup {"present", "removed"}]
         /\ pc'[Pnp] \in PnpLabels
         /\ pc'[Removal] \in RemovalLabels \cup {"present", "removed"}
         /\ HasObservedReport' \in BOOLEAN
  BY LowerAssumption
     DEF CallbackStep, PnpCall, D0ExitSnapshot, D0ExitEnds, ReleaseSnapshot,
         ReleaseCancelled, ForgetObservedReport, RemovalSnapshot, RemovalEnds,
         PrepareHardware, D0Entry, D0Exit, ReleaseHardware, SurpriseRemoval,
         CancelNext, CancelEnds, OnlyMoves, Goto, SnapshotActive, TypeOK,
         CancelThreads, PnpLabels, RemovalLabels, ExitLabels, ReleaseLabels

\* Walking a snapshot drops its head and may cancel reads below.
LEMMA CancelNextSnapshots ==
  ASSUME TypeOK, NEW t \in CancelThreads, CancelNext(t)
  PROVE  /\ snapshot' \in [CancelThreads -> Seq(Requests \cup {Dangling})]
         /\ cancelled \subseteq cancelled' /\ cancelled' \subseteq Requests
         /\ \A u \in CancelThreads : \A r \in ReadsBelow :
              r \in Range(snapshot[u]) => r \in cancelled' \cup Range(snapshot'[u])
  <1> DEFINE s == snapshot[t]
             S == Requests \cup {Dangling}
  <1>1. s \in Seq(S) /\ s # <<>>
    BY DEF TypeOK, CancelNext
  <1> HIDE DEF s
  <1>2. /\ Head(s) \in S /\ Tail(s) \in Seq(S)
        /\ Len(s) \in Nat /\ Len(s) > 0 /\ DOMAIN s = 1 .. Len(s)
        /\ Head(s) = s[1] /\ DOMAIN Tail(s) = 1 .. Len(s) - 1
        /\ \A i \in 1 .. Len(s) - 1 : Tail(s)[i] = s[i + 1]
    BY <1>1, HeadTailProperties, LenProperties, EmptySeq
  <1>3. \A i \in 1 .. Len(s) : i # 1 => i - 1 \in 1 .. Len(s) - 1 /\ (i - 1) + 1 = i
    BY <1>2
  <1>4. \A r \in Range(s) : r = Head(s) \/ r \in Range(Tail(s))
    <2> SUFFICES ASSUME NEW i \in 1 .. Len(s), i # 1 PROVE s[i] \in Range(Tail(s))
      BY <1>2 DEF Range
    <2>1. i - 1 \in 1 .. Len(s) - 1 /\ Tail(s)[i - 1] = s[i]
      BY <1>2, <1>3
    <2> QED
      BY <1>2, <2>1 DEF Range
  <1>5. snapshot' = [snapshot EXCEPT ![t] = Tail(s)]
    BY DEF CancelNext, s
  <1>6. CancelSent(Head(s))
    BY DEF CancelNext, s
  <1>7. /\ cancelled \subseteq cancelled' /\ cancelled' \subseteq Requests
        /\ Head(s) \in ReadsBelow => Head(s) \in cancelled'
    BY <1>2, <1>6, LowerAssumption DEF CancelSent, ReadsBelow, TypeOK
  <1>8. snapshot' \in [CancelThreads -> Seq(S)]
    BY <1>2, <1>5 DEF TypeOK
  <1>9. ASSUME NEW u \in CancelThreads, NEW r \in ReadsBelow, r \in Range(snapshot[u])
        PROVE  r \in cancelled' \cup Range(snapshot'[u])
    <2>1. CASE u = t
      BY <1>4, <1>5, <1>7, <1>9, <2>1 DEF s, TypeOK
    <2>2. CASE u # t
      BY <1>5, <1>9, <2>2 DEF TypeOK
    <2> QED
      BY <2>1, <2>2
  <1> QED
    BY <1>7, <1>8, <1>9

LEMMA CallbackTracked ==
  ASSUME TrackedInv, NEW t \in CancelThreads, CallbackStep(t) \/ PnpCall
  PROVE  TrackedInv'
  <1>1. UNCHANGED <<ActiveInputRequests, rpc>>
    BY CallbackCases DEF CancelNext, SnapshotTaken, SnapshotActive, requestVars
  <1>2. TypeOK
    BY DEF TrackedInv
  <1>3. /\ snapshot' \in [CancelThreads -> Seq(Requests \cup {Dangling})]
        /\ owed' \in [CancelThreads -> SUBSET Requests]
        /\ cancelled' \in SUBSET Requests
    <2>1. CASE CancelNext(t)
      BY <1>2, <2>1, CancelNextSnapshots DEF CancelNext, TypeOK
    <2>2. CASE SnapshotTaken(t)
      BY <1>2, <2>2, SnapshotCopies DEF SnapshotTaken, SnapshotActive, requestVars, TypeOK
    <2>3. CASE UNCHANGED <<requestVars, snapshot, owed>>
      BY <1>2, <2>3 DEF requestVars, TypeOK
    <2> QED
      BY <2>1, <2>2, <2>3, CallbackCases
  <1>4. TypeOK'
    BY <1>1, <1>2, <1>3, CallbackLabels DEF TypeOK
  <1>5. ActiveReadsTracked'
    BY <1>1 DEF TrackedInv, ActiveReadsTracked
  <1> QED
    BY <1>4, <1>5 DEF TrackedInv

LEMMA TrackedInvariant == Spec => []TrackedInv
  <1>1. TrackedInv /\ [Next]_vars => TrackedInv'
    <2> SUFFICES ASSUME TrackedInv, [Next]_vars PROVE TrackedInv'
      OBVIOUS
    <2>1. CASE \E r \in Requests : Arrival(r) \/ RequestStep(r) \/ LowerCompletes(r)
      BY <2>1, ArrivalTracked, RequestTracked, LowerTracked
    <2>2. CASE \E t \in CancelThreads : CallbackStep(t)
      BY <2>2, CallbackTracked
    <2>3. CASE PnpCall
      BY <2>3, CallbackTracked DEF CancelThreads
    <2>4. CASE UNCHANGED vars
      BY <2>4 DEF vars, requestVars, threadVars, TrackedInv, TypeOK, ActiveReadsTracked
    <2> QED
      BY <2>1, <2>2, <2>3, <2>4 DEF Next
  <1> QED
    BY <1>1, InitTracked, PTL DEF Spec

\* Every variable of the lower filter stays in its type.
THEOREM LowerTypeCorrect == Spec => []TypeOK
  BY TrackedInvariant, PTL DEF TrackedInv

\* The driver's list of active reads names each of them exactly once,
\* however many are sent, refused and completed at the same time.
THEOREM ActiveListExact == Spec => []ActiveReadsTracked
  BY TrackedInvariant, PTL DEF TrackedInv

-----------------------------------------------------------------------------
(* No read is passed over.                                                 *)

\* The reads a callback owes an answer are still below.
OwedInv ==
  /\ CancelReachesReadsBelow
  /\ \A t \in CancelThreads : owed[t] \subseteq ReadsBelow

LEMMA RequestOwed ==
  ASSUME TrackedInv, OwedInv, NEW r \in Requests, Arrival(r) \/ RequestStep(r)
  PROVE  OwedInv'
  <1>1. /\ rpc[r] # "below"
        /\ \E label : GotoRequest(r, label)
        /\ UNCHANGED <<cancelled, owed>>
    BY DEF Arrival, EvtIoRead, EvtIoWrite, EvtIoDeviceControl, RequestStep,
           ForwardRequest, TrackActiveInputRequest, SendToLower, UntrackRefused,
           CompleteRefused, UntrackCompleted, CaptureObservedReport, AnswerRequest,
           OnlyMovesRequest, FreeRequest, threadVars
  <1>2. FreeRequest(r) \/ UNCHANGED snapshot
    BY DEF Arrival, EvtIoRead, EvtIoWrite, EvtIoDeviceControl, RequestStep,
           ForwardRequest, TrackActiveInputRequest, SendToLower, UntrackRefused,
           CompleteRefused, UntrackCompleted, CaptureObservedReport, AnswerRequest,
           OnlyMovesRequest, threadVars
  <1>3. \A t \in CancelThreads : Range(snapshot[t]) \ {r} \subseteq Range(snapshot'[t])
    BY <1>2, FreeRequestSnapshots DEF TrackedInv
  <1>4. \A q \in Requests : rpc[q] = "below" => q # r /\ rpc'[q] = "below"
    BY <1>1 DEF GotoRequest, TrackedInv, TypeOK
  <1> QED
    BY <1>1, <1>3, <1>4 DEF OwedInv, CancelReachesReadsBelow, ReadsBelow

LEMMA LowerOwed ==
  ASSUME TrackedInv, OwedInv, NEW r \in Requests, LowerCompletes(r)
  PROVE  OwedInv'
  BY DEF LowerCompletes, GotoRequest, OwedInv, CancelReachesReadsBelow, ReadsBelow,
         TrackedInv, TypeOK

LEMMA CallbackOwed ==
  ASSUME TrackedInv, OwedInv, NEW t \in CancelThreads, CallbackStep(t) \/ PnpCall
  PROVE  OwedInv'
  <1>1. UNCHANGED rpc
    BY CallbackCases DEF CancelNext, SnapshotTaken, SnapshotActive, requestVars
  <1>2. CASE CancelNext(t)
    <2>1. UNCHANGED owed
      BY <1>2 DEF CancelNext
    <2> QED
      BY <1>1, <1>2, <2>1, CancelNextSnapshots
         DEF OwedInv, CancelReachesReadsBelow, TrackedInv, ReadsBelow
  <1>3. CASE SnapshotTaken(t)
    <2>1. /\ UNCHANGED cancelled
          /\ \A u \in CancelThreads : u # t => owed'[u] = owed[u] /\ snapshot'[u] = snapshot[u]
          /\ owed'[t] \subseteq ReadsBelow
          /\ owed'[t] # {} => snapshot'[t] = ActiveInputRequests
      BY <1>3, SnapshotCopies
         DEF SnapshotTaken, SnapshotActive, requestVars, TrackedInv, TypeOK
    <2>2. ReadsBelow \subseteq Range(ActiveInputRequests)
      BY DEF TrackedInv, ActiveReadsTracked, ReadsBelow, TrackedLabels
    <2> QED
      BY <1>1, <2>1, <2>2 DEF OwedInv, CancelReachesReadsBelow, ReadsBelow
  <1>4. CASE UNCHANGED <<requestVars, snapshot, owed>>
    BY <1>4 DEF requestVars, OwedInv, CancelReachesReadsBelow, ReadsBelow
  <1> QED
    BY <1>2, <1>3, <1>4, CallbackCases

\* A callback that cancels the active reads passes over none of the reads the
\* stack below held when it looked, whatever is sent, refused or completed
\* while it walks its copy of the list outside the lock.
THEOREM CancelPassesNoneOver == Spec => []CancelReachesReadsBelow
  <1>1. Init => OwedInv
    BY DEF Init, OwedInv, CancelReachesReadsBelow
  <1>2. TrackedInv /\ OwedInv /\ [Next]_vars => OwedInv'
    <2> SUFFICES ASSUME TrackedInv, OwedInv, [Next]_vars PROVE OwedInv'
      OBVIOUS
    <2>1. CASE \E r \in Requests : Arrival(r) \/ RequestStep(r) \/ LowerCompletes(r)
      BY <2>1, RequestOwed, LowerOwed
    <2>2. CASE \E t \in CancelThreads : CallbackStep(t)
      BY <2>2, CallbackOwed
    <2>3. CASE PnpCall
      BY <2>3, CallbackOwed DEF CancelThreads
    <2>4. CASE UNCHANGED vars
      BY <2>4 DEF vars, requestVars, threadVars, OwedInv, CancelReachesReadsBelow, ReadsBelow
    <2> QED
      BY <2>1, <2>2, <2>3, <2>4 DEF Next
  <1>3. OwedInv => CancelReachesReadsBelow
    BY DEF OwedInv
  <1> QED
    BY <1>1, <1>2, <1>3, TrackedInvariant, PTL DEF Spec

=============================================================================
