------------------------- MODULE RpcDispatchProofs -------------------------
(***************************************************************************)
(* The safety of the dispatcher for any set of requests of every kind, any *)
(* assignment of Cancels to their targets and any number of responses: an  *)
(* exact registry, complete books at Done, streams that only a Cancel      *)
(* ends, and one report per stalled request.                               *)
(***************************************************************************)
EXTENDS RpcDispatch, TLAPS

USE RpcDispatchAssumption

\* What every proof about a step opens: the groups of variables.
USE DEF Goes, registry, contexts, output, Registered

LEMMA InitInv == Init => IInv
<1> SUFFICES ASSUME Init PROVE IInv
  OBVIOUS
<1>1. TypeOK
  BY DEF Init, TypeOK
<1>2. RegistryExact
  BY DEF Init, RegistryExact
<1>3. GoroutinesAligned /\ ResponsesAccounted
  BY DEF Init, GoroutinesAligned, ResponsesAccounted, InCall, InExporter
<1>4. CancelledBy /\ ReportsMarked
  BY DEF Init, CancelledBy, ReportsMarked
<1>5. QED
  BY <1>1, <1>2, <1>3, <1>4 DEF IInv

LEMMA CancelsAreRequests ==
  /\ Cancels \subseteq Requests
  /\ \A c \in Cancels : Target[c] \in Requests
BY DEF Requests, Calls

\* Every step keeps the types.  That the counters of responses stay in their
\* range takes the accounts: only a request that has sent nothing replies with
\* an error, and a response that is posted was sent before.
LEMMA TypeStep == IInv /\ [Next]_vars => TypeOK'
<1> SUFFICES ASSUME IInv, [Next]_vars PROVE TypeOK'
  OBVIOUS
<1> USE DEF IInv, TypeOK
<1>1. ASSUME NEW r \in Requests, Arrive(r) \/ ClosePort(r) \/ Deadline(r)
      PROVE  TypeOK'
  <2>1. CASE Arrive(r)
    BY <2>1 DEF Arrive
  <2>2. CASE ClosePort(r) \/ Deadline(r)
    BY <2>2 DEF ClosePort, Deadline
  <2>3. QED
    BY <1>1, <2>1, <2>2
<1>2. ASSUME NEW r \in Requests, Export(r) PROVE TypeOK'
  <2>1. CASE PostResponse(r)
    <3>1. CASE port[r]
      <4>1. sent[r] = posted[r] + 1 + InCall(r)
        BY <2>1 DEF PostResponse, ResponsesAccounted, InExporter
      <4>2. posted[r] + 1 \in 0 .. MaxItems + 1
        BY <4>1 DEF InCall
      <4>3. QED
        BY <2>1, <3>1, <4>2 DEF PostResponse
    <3>2. CASE ~port[r]
      BY <2>1, <3>2 DEF PostResponse
    <3>3. QED
      BY <3>1, <3>2
  <2>2. CASE CallExpired(r) \/ CallStart(r) \/ RangeEnds(r)
    BY <2>2 DEF CallExpired, CallStart, RangeEnds
  <2>3. CASE PostDone(r)
    BY <2>3 DEF PostDone
  <2>4. QED
    BY <1>2, <2>1, <2>2, <2>3 DEF Export
<1>3. ASSUME NEW r \in Requests, Serve(r) PROVE TypeOK'
  <2>1. CASE ReplyError(r)
    <3>1. sent[r] = 0
      BY <2>1 DEF ReplyError, ResponsesAccounted
    <3>2. QED
      BY <2>1, <3>1 DEF ReplyError
  <2>2. CASE Forward(r)
    <3>1. sent[r] < MaxItems
      BY <2>2 DEF Forward, ResponsesAccounted
    <3>2. QED
      BY <2>2, <3>1 DEF Forward
  <2>3. CASE Register(r) \/ ReplyNothing(r) \/ RunEntryPoint(r) \/ StartHandler(r)
               \/ Deliver(r) \/ HandlerClosed(r) \/ CloseChannel(r)
    BY <2>3 DEF Register, ReplyNothing, RunEntryPoint, StartHandler, Deliver,
                HandlerClosed, CloseChannel
  <2>4. CASE Cleanup(r)
    BY <2>4 DEF Cleanup
  <2>5. CASE r \in Cancels /\ HandleCancel(r)
    BY <2>5, CancelsAreRequests DEF HandleCancel
  <2>6. QED
    BY <1>3, <2>1, <2>2, <2>3, <2>4, <2>5 DEF Serve
<1>4. ASSUME NEW r \in Requests,
             HandlerSends(r) \/ HandlerReturns(r) \/ EntryPointReturns(r)
      PROVE  TypeOK'
  <2>1. CASE HandlerSends(r) \/ HandlerReturns(r)
    BY <2>1 DEF HandlerSends, HandlerReturns
  <2>2. CASE EntryPointReturns(r)
    <3>1. sent[r] = 0
      BY <2>2 DEF EntryPointReturns, ResponsesAccounted
    <3>2. QED
      BY <2>2, <3>1 DEF EntryPointReturns
  <2>3. QED
    BY <1>4, <2>1, <2>2
<1>5. CASE Watch
  <2>1. PICK slow \in SUBSET {r \in inflight : r \notin warned /\ r \notin Stream} :
          /\ warned' = warned \cup slow
          /\ warnings' = [r \in Requests |-> warnings[r] + IF r \in slow THEN 1 ELSE 0]
          /\ UNCHANGED <<exporter, call, handler, cancels, inflight, contexts, output>>
    BY <1>5 DEF Watch
  <2>2. QED
    BY <2>1
<1>6. CASE UNCHANGED vars
  BY <1>6 DEF vars
<1>7. QED
  BY <1>1, <1>2, <1>3, <1>4, <1>5, <1>6 DEF Next

-----------------------------------------------------------------------------

\* The maps follow Call: Register and Cleanup are the only steps that add a
\* request to inflight or remove it, and a Cancel takes from cancels alone.
LEMMA RegistryStep == IInv /\ [Next]_vars => RegistryExact'
<1> SUFFICES ASSUME IInv, [Next]_vars PROVE RegistryExact'
  OBVIOUS
<1> USE DEF IInv, TypeOK, RegistryExact
<1>1. ASSUME NEW r \in Requests, Arrive(r) \/ ClosePort(r) \/ Deadline(r)
      PROVE  RegistryExact'
  BY <1>1 DEF Arrive, ClosePort, Deadline
<1>2. ASSUME NEW r \in Requests, Export(r) PROVE RegistryExact'
  BY <1>2 DEF Export, CallExpired, CallStart, PostResponse, RangeEnds, PostDone
<1>3. ASSUME NEW r \in Requests, Serve(r) PROVE RegistryExact'
  <2>1. CASE Register(r)
    BY <2>1 DEF Register
  <2>2. CASE ReplyError(r) \/ ReplyNothing(r) \/ RunEntryPoint(r) \/ StartHandler(r)
             \/ Forward(r) \/ Deliver(r) \/ HandlerClosed(r) \/ CloseChannel(r)
    BY <2>2 DEF ReplyError, ReplyNothing, RunEntryPoint, StartHandler, Forward,
                Deliver, HandlerClosed, CloseChannel
  <2>3. CASE Cleanup(r)
    BY <2>3 DEF Cleanup
  <2>4. CASE r \in Cancels /\ HandleCancel(r)
    BY <2>4, CancelsAreRequests DEF HandleCancel
  <2>5. QED
    BY <1>3, <2>1, <2>2, <2>3, <2>4 DEF Serve
<1>4. ASSUME NEW r \in Requests,
             HandlerSends(r) \/ HandlerReturns(r) \/ EntryPointReturns(r)
      PROVE  RegistryExact'
  BY <1>4 DEF HandlerSends, HandlerReturns, EntryPointReturns
<1>5. CASE Watch
  BY <1>5 DEF Watch
<1>6. CASE UNCHANGED vars
  BY <1>6 DEF vars
<1>7. QED
  BY <1>1, <1>2, <1>3, <1>4, <1>5, <1>6 DEF Next

\* Each goroutine moves only from a state in which the others are as the
\* invariant says; a rendezvous moves two of them.
LEMMA AlignedStep == IInv /\ [Next]_vars => GoroutinesAligned'
<1> SUFFICES ASSUME IInv, [Next]_vars PROVE GoroutinesAligned'
  OBVIOUS
<1> USE DEF IInv, TypeOK, GoroutinesAligned
<1>1. ASSUME NEW r \in Requests, Arrive(r) \/ ClosePort(r) \/ Deadline(r)
      PROVE  GoroutinesAligned'
  BY <1>1 DEF Arrive, ClosePort, Deadline
<1>2. ASSUME NEW r \in Requests, Export(r) PROVE GoroutinesAligned'
  BY <1>2 DEF Export, CallExpired, CallStart, PostResponse, RangeEnds, PostDone
<1>3. ASSUME NEW r \in Requests, Serve(r) PROVE GoroutinesAligned'
  <2>1. CASE Register(r) \/ ReplyError(r) \/ ReplyNothing(r) \/ RunEntryPoint(r)
             \/ StartHandler(r)
    BY <2>1 DEF Register, ReplyError, ReplyNothing, RunEntryPoint, StartHandler
  <2>2. CASE Forward(r) \/ Deliver(r) \/ HandlerClosed(r)
    BY <2>2 DEF Forward, Deliver, HandlerClosed
  <2>3. CASE Cleanup(r) \/ CloseChannel(r)
    BY <2>3 DEF Cleanup, CloseChannel
  <2>4. CASE r \in Cancels /\ HandleCancel(r)
    BY <2>4 DEF HandleCancel
  <2>5. QED
    BY <1>3, <2>1, <2>2, <2>3, <2>4 DEF Serve
<1>4. ASSUME NEW r \in Requests,
             HandlerSends(r) \/ HandlerReturns(r) \/ EntryPointReturns(r)
      PROVE  GoroutinesAligned'
  BY <1>4 DEF HandlerSends, HandlerReturns, EntryPointReturns
<1>5. CASE Watch
  BY <1>5 DEF Watch
<1>6. CASE UNCHANGED vars
  BY <1>6 DEF vars
<1>7. QED
  BY <1>1, <1>2, <1>3, <1>4, <1>5, <1>6 DEF Next

\* A response moves from the handler to Call, to the exporter and to the port;
\* each step moves it from one term of the account to the next.
LEMMA AccountStep == IInv /\ [Next]_vars => ResponsesAccounted'
<1> SUFFICES ASSUME IInv, [Next]_vars PROVE ResponsesAccounted'
  OBVIOUS
<1> USE DEF IInv, TypeOK, ResponsesAccounted, GoroutinesAligned, InCall, InExporter
<1>1. ASSUME NEW r \in Requests, Arrive(r) \/ ClosePort(r) \/ Deadline(r)
      PROVE  ResponsesAccounted'
  BY <1>1 DEF Arrive, ClosePort, Deadline
<1>2. ASSUME NEW r \in Requests, Export(r) PROVE ResponsesAccounted'
  <2>1. CASE CallExpired(r) \/ CallStart(r)
    BY <2>1 DEF CallExpired, CallStart
  <2>2. CASE PostResponse(r)
    BY <2>2 DEF PostResponse
  <2>3. CASE RangeEnds(r)
    BY <2>3 DEF RangeEnds
  <2>4. CASE PostDone(r)
    BY <2>4 DEF PostDone
  <2>5. QED
    BY <1>2, <2>1, <2>2, <2>3, <2>4 DEF Export
<1>3. ASSUME NEW r \in Requests, Serve(r) PROVE ResponsesAccounted'
  <2>1. CASE Register(r) \/ ReplyNothing(r) \/ RunEntryPoint(r) \/ StartHandler(r)
    BY <2>1 DEF Register, ReplyNothing, RunEntryPoint, StartHandler
  <2>2. CASE ReplyError(r)
    BY <2>2 DEF ReplyError
  <2>3. CASE Forward(r)
    BY <2>3 DEF Forward
  <2>4. CASE Deliver(r)
    BY <2>4 DEF Deliver
  <2>5. CASE HandlerClosed(r) \/ Cleanup(r) \/ CloseChannel(r)
    BY <2>5 DEF HandlerClosed, Cleanup, CloseChannel
  <2>6. CASE r \in Cancels /\ HandleCancel(r)
    BY <2>6 DEF HandleCancel
  <2>7. QED
    BY <1>3, <2>1, <2>2, <2>3, <2>4, <2>5, <2>6 DEF Serve
<1>4. ASSUME NEW r \in Requests,
             HandlerSends(r) \/ HandlerReturns(r) \/ EntryPointReturns(r)
      PROVE  ResponsesAccounted'
  BY <1>4 DEF HandlerSends, HandlerReturns, EntryPointReturns
<1>5. CASE Watch
  BY <1>5 DEF Watch
<1>6. CASE UNCHANGED vars
  BY <1>6 DEF vars
<1>7. QED
  BY <1>1, <1>2, <1>3, <1>4, <1>5, <1>6 DEF Next

\* Only HandleCancel and Cleanup cancel a context, and both leave their own
\* trace: neither the Cancel nor Call goes back.
LEMMA CancelledStep == IInv /\ [Next]_vars => CancelledBy'
<1> SUFFICES ASSUME IInv, [Next]_vars PROVE CancelledBy'
  OBVIOUS
<1> USE CancelsAreRequests DEF IInv, TypeOK, CancelledBy
<1>1. ASSUME NEW r \in Requests, Arrive(r) \/ ClosePort(r) \/ Deadline(r)
      PROVE  CancelledBy'
  BY <1>1 DEF Arrive, ClosePort, Deadline
<1>2. ASSUME NEW r \in Requests, Export(r) PROVE CancelledBy'
  BY <1>2 DEF Export, CallExpired, CallStart, PostResponse, RangeEnds, PostDone
<1>3. ASSUME NEW r \in Requests, Serve(r) PROVE CancelledBy'
  <2>1. CASE Register(r) \/ ReplyError(r) \/ ReplyNothing(r) \/ RunEntryPoint(r)
             \/ StartHandler(r)
    BY <2>1 DEF Register, ReplyError, ReplyNothing, RunEntryPoint, StartHandler
  <2>2. CASE Forward(r) \/ Deliver(r) \/ HandlerClosed(r)
    BY <2>2 DEF Forward, Deliver, HandlerClosed
  <2>3. CASE Cleanup(r) \/ CloseChannel(r)
    BY <2>3 DEF Cleanup, CloseChannel
  <2>4. CASE r \in Cancels /\ HandleCancel(r)
    BY <2>4 DEF HandleCancel
  <2>5. QED
    BY <1>3, <2>1, <2>2, <2>3, <2>4 DEF Serve
<1>4. ASSUME NEW r \in Requests,
             HandlerSends(r) \/ HandlerReturns(r) \/ EntryPointReturns(r)
      PROVE  CancelledBy'
  BY <1>4 DEF HandlerSends, HandlerReturns, EntryPointReturns
<1>5. CASE Watch
  BY <1>5 DEF Watch
<1>6. CASE UNCHANGED vars
  BY <1>6 DEF vars
<1>7. QED
  BY <1>1, <1>2, <1>3, <1>4, <1>5, <1>6 DEF Next

\* The watchdog reports what it has not marked and what still runs, so what it
\* never reported before; a mark goes only when Call closes.
LEMMA ReportsStep == IInv /\ [Next]_vars => ReportsMarked'
<1> SUFFICES ASSUME IInv, [Next]_vars PROVE ReportsMarked'
  OBVIOUS
<1> USE DEF IInv, TypeOK, ReportsMarked
<1>1. ASSUME NEW r \in Requests,
             \/ Arrive(r) \/ ClosePort(r) \/ Deadline(r)
             \/ HandlerSends(r) \/ HandlerReturns(r) \/ EntryPointReturns(r)
      PROVE  ReportsMarked'
  BY <1>1 DEF Arrive, ClosePort, Deadline, HandlerSends, HandlerReturns,
              EntryPointReturns
<1>2. ASSUME NEW r \in Requests, Export(r) PROVE ReportsMarked'
  <2>1. CASE CallStart(r)
    BY <2>1 DEF CallStart
  <2>2. CASE CallExpired(r) \/ PostResponse(r) \/ RangeEnds(r) \/ PostDone(r)
    BY <2>2 DEF CallExpired, PostResponse, RangeEnds, PostDone
  <2>3. QED
    BY <1>2, <2>1, <2>2 DEF Export
<1>3. ASSUME NEW r \in Requests, Serve(r) PROVE ReportsMarked'
  <2>1. CASE Register(r) \/ ReplyError(r) \/ ReplyNothing(r) \/ RunEntryPoint(r)
             \/ StartHandler(r)
    BY <2>1 DEF Register, ReplyError, ReplyNothing, RunEntryPoint, StartHandler
  <2>2. CASE Forward(r) \/ Deliver(r) \/ HandlerClosed(r)
    BY <2>2 DEF Forward, Deliver, HandlerClosed
  <2>3. CASE Cleanup(r) \/ CloseChannel(r)
    BY <2>3 DEF Cleanup, CloseChannel
  <2>4. CASE r \in Cancels /\ HandleCancel(r)
    BY <2>4 DEF HandleCancel
  <2>5. QED
    BY <1>3, <2>1, <2>2, <2>3, <2>4 DEF Serve
<1>4. CASE Watch
  <2>1. PICK slow \in SUBSET {r \in inflight : r \notin warned /\ r \notin Stream} :
          /\ warned' = warned \cup slow
          /\ warnings' = [r \in Requests |-> warnings[r] + IF r \in slow THEN 1 ELSE 0]
          /\ UNCHANGED <<exporter, call, handler, cancels, inflight, contexts, output>>
    BY <1>4 DEF Watch
  <2>2. ASSUME NEW r \in slow PROVE warnings[r] = 0 /\ r \notin Stream
    BY DEF RegistryExact
  <2>3. QED
    BY <2>1, <2>2
<1>5. CASE UNCHANGED vars
  BY <1>5 DEF vars
<1>6. QED
  BY <1>1, <1>2, <1>3, <1>4, <1>5 DEF Next

-----------------------------------------------------------------------------

\* The inductive invariant holds in every reachable state, for any requests.
THEOREM Invariance == Spec => []IInv
<1>1. IInv /\ [Next]_vars => IInv'
  <2> SUFFICES ASSUME IInv, [Next]_vars PROVE IInv'
    OBVIOUS
  <2>1. TypeOK' /\ RegistryExact'
    BY TypeStep, RegistryStep
  <2>2. GoroutinesAligned' /\ ResponsesAccounted'
    BY AlignedStep, AccountStep
  <2>3. CancelledBy' /\ ReportsMarked'
    BY CancelledStep, ReportsStep
  <2>4. QED
    BY <2>1, <2>2, <2>3 DEF IInv
<1>2. QED
  BY InitInv, <1>1, PTL DEF Spec

\* Every variable keeps its type; in particular a request never has more
\* responses than its handler sent, and one error reply.
THEOREM TypeCorrect == Spec => []TypeOK
<1>1. IInv => TypeOK
  BY DEF IInv
<1>2. QED
  BY Invariance, <1>1, PTL

\* cancels and inflight hold the running requests and nothing else, whatever
\* Cancels, cleanups and ticks of the watchdog come between.
THEOREM RegistryExactHolds == Spec => []RegistryExact
<1>1. IInv => RegistryExact
  BY DEF IInv
<1>2. QED
  BY Invariance, <1>1, PTL

\* When the client has got Done, every response was posted before it and the
\* request has left the registry together with its handler.
THEOREM DoneIsCompleteHolds == Spec => []DoneIsComplete
<1>1. IInv => DoneIsComplete
  BY DEF IInv, TypeOK, RegistryExact, GoroutinesAligned, ResponsesAccounted,
         DoneIsComplete
<1>2. QED
  BY Invariance, <1>1, PTL

\* A request is left in the registry behind its exporter only by a port that
\* closed and a response that was lost with it.
THEOREM StrandedHolds == Spec => []StrandedByLostResponse
<1>1. IInv => StrandedByLostResponse
  BY DEF IInv, TypeOK, RegistryExact, ResponsesAccounted, StrandedByLostResponse
<1>2. QED
  BY Invariance, <1>1, PTL

\* While the handler of a stream runs, only a Cancel that named it has ended
\* its context; the caller's deadline has not.
THEOREM StreamKeepsContextHolds == Spec => []StreamKeepsContext
<1>1. IInv => StreamKeepsContext
  BY DEF IInv, TypeOK, GoroutinesAligned, CancelledBy, StreamKeepsContext,
         ContextDone, Requests, Calls
<1>2. QED
  BY Invariance, <1>1, PTL

\* No request is reported twice as slow, and a stream not once.
THEOREM ReportedOnceHolds == Spec => []ReportedOnce
<1>1. IInv => ReportedOnce
  BY DEF IInv, TypeOK, ReportsMarked, ReportedOnce
<1>2. QED
  BY Invariance, <1>1, PTL
=============================================================================
