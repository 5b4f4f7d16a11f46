--------------------------- MODULE FlowGateProofs ---------------------------
(***************************************************************************)
(* The safety of the credit gate for any number of producers and granters, *)
(* any grant sizes and any bounds: type correctness, no lost wakeup, no    *)
(* channel closed twice, no credit lost, and the implementation of the     *)
(* credit window.                                                          *)
(***************************************************************************)
EXTENDS FlowGate, Sums, TLAPS

USE FlowGateAssumption

LEMMA ActorsType == Granters \subseteq Actors /\ Dispatcher \in Actors
  BY DEF Actors

LEMMA InitType == Init => TypeOK
<1> SUFFICES ASSUME Init PROVE TypeOK
  OBVIOUS
<1> QED
  BY DEF Init, TypeOK, Phases, ProducerStates

\* Every action preserves the types, whatever the other conjuncts say.
LEMMA TypeStep == TypeOK /\ [Next]_vars => TypeOK'
<1> SUFFICES ASSUME TypeOK, [Next]_vars PROVE TypeOK'
  OBVIOUS
<1> USE DEF TypeOK, registry, gate, history, Phases, ProducerStates
<1>1. ASSUME Register PROVE TypeOK'
  BY <1>1 DEF Register
<1>2. ASSUME ApplyBuffered PROVE TypeOK'
  <2>1. CASE buffered > 0
    BY <1>2, <2>1, ActorsType DEF ApplyBuffered, AddCredits, SwapWaiters
  <2>2. CASE ~(buffered > 0)
    BY <1>2, <2>2 DEF ApplyBuffered
  <2>3. QED
    BY <2>1, <2>2
<1>3. ASSUME Unregister PROVE TypeOK'
  BY <1>3 DEF Unregister
<1>4. ASSUME CloseGate PROVE TypeOK'
  BY <1>4, ActorsType DEF CloseGate, SwapWaiters
<1>5. ASSUME EndContext PROVE TypeOK'
  BY <1>5 DEF EndContext
<1>6. ASSUME NEW a \in Actors, Wake(a) PROVE TypeOK'
  BY <1>6 DEF Wake
<1>7. ASSUME NEW g \in Granters, NEW n \in Amounts, ReceiveCredit(g, n)
      PROVE TypeOK'
  BY <1>7 DEF ReceiveCredit
<1>8. ASSUME NEW g \in Granters, GrantToGate(g) PROVE TypeOK'
  BY <1>8, ActorsType DEF GrantToGate, AddCredits, SwapWaiters
<1>9. ASSUME NEW p \in Producers, Acquire(p) PROVE TypeOK'
  BY <1>9 DEF Acquire, AcquireUnbounded, AcquireCredit, AcquireClosed,
              AcquireWait, Calls
<1>10. ASSUME NEW p \in Producers, Select(p) PROVE TypeOK'
  BY <1>10 DEF Select, Recheck, ChooseContext, Leave
<1>11. CASE UNCHANGED vars
  BY <1>11 DEF vars
<1>12. QED
  BY <1>1, <1>2, <1>3, <1>4, <1>5, <1>6, <1>7, <1>8, <1>9, <1>10, <1>11
     DEF Next, Dispatch

\* All variables of TypeOK have their types in every reachable state of the
\* gate and its registry.
THEOREM TypeCorrect == Spec => []TypeOK
<1> QED
  BY InitType, TypeStep, PTL DEF Spec

-----------------------------------------------------------------------------

LEMMA InitInv == Init => IInv
<1> SUFFICES ASSUME Init PROVE IInv
  OBVIOUS
<1>1. TypeOK
  BY InitType
<1>2. CreditAccount /\ NothingToWaitFor
  BY DEF Init, CreditAccount, NothingToWaitFor
<1>3. SleeperReachable /\ ClosedOnce /\ ChannelOwners /\ OneSwapAtATime
  BY ActorsType DEF Init, SleeperReachable, ClosedOnce, ChannelOwners,
                    OneSwapAtATime
<1>4. BufferedOnce
  BY DEF Init, BufferedOnce
<1>5. QED
  BY <1>1, <1>2, <1>3, <1>4 DEF IInv, NoLostWakeup

\* The account is kept by every step: a grant adds to both sides, taking a
\* credit moves it from one term to the other.
LEMMA AccountStep == IInv /\ [Next]_vars => CreditAccount'
<1> SUFFICES ASSUME IInv, [Next]_vars PROVE CreditAccount'
  OBVIOUS
<1> USE DEF IInv, TypeOK, CreditAccount, registry, gate, history
<1>1. ASSUME Dispatch PROVE CreditAccount'
  BY <1>1 DEF Dispatch, Register, ApplyBuffered, Unregister, CloseGate,
              AddCredits
<1>2. ASSUME NEW g \in Granters, GrantToGate(g) PROVE CreditAccount'
  BY <1>2 DEF GrantToGate, AddCredits
<1>3. ASSUME NEW p \in Producers, Acquire(p) PROVE CreditAccount'
  BY <1>3 DEF Acquire, AcquireUnbounded, AcquireCredit, AcquireClosed,
              AcquireWait
<1>4. ASSUME \/ EndContext
             \/ \E a \in Actors : Wake(a)
             \/ \E g \in Granters, n \in Amounts : ReceiveCredit(g, n)
             \/ \E p \in Producers : Select(p)
             \/ UNCHANGED vars
      PROVE CreditAccount'
  BY <1>4 DEF EndContext, Wake, ReceiveCredit, Select, Recheck,
              ChooseContext, Leave, vars
<1>5. QED
  BY <1>1, <1>2, <1>3, <1>4 DEF Next

\* NothingToWaitFor: only AcquireWait adds to the list, and what makes credit
\* or closes the gate empties the list in the same step.
LEMMA WaitStep == IInv /\ [Next]_vars => NothingToWaitFor'
<1> SUFFICES ASSUME IInv, [Next]_vars PROVE NothingToWaitFor'
  OBVIOUS
<1> USE DEF IInv, NoLostWakeup, NothingToWaitFor, TypeOK, registry, gate,
            history
<1>1. ASSUME Dispatch PROVE NothingToWaitFor'
  BY <1>1 DEF Dispatch, Register, ApplyBuffered, Unregister, CloseGate,
              AddCredits, SwapWaiters
<1>2. ASSUME NEW g \in Granters, GrantToGate(g) PROVE NothingToWaitFor'
  BY <1>2 DEF GrantToGate, AddCredits, SwapWaiters
<1>3. ASSUME NEW p \in Producers, Acquire(p) PROVE NothingToWaitFor'
  BY <1>3 DEF Acquire, AcquireUnbounded, AcquireCredit, AcquireClosed,
              AcquireWait
<1>4. ASSUME NEW p \in Producers, Select(p) PROVE NothingToWaitFor'
  BY <1>4 DEF Select, Recheck, ChooseContext, Leave
<1>5. ASSUME \/ EndContext
             \/ \E a \in Actors : Wake(a)
             \/ \E g \in Granters, n \in Amounts : ReceiveCredit(g, n)
             \/ UNCHANGED vars
      PROVE NothingToWaitFor'
  BY <1>5 DEF EndContext, Wake, ReceiveCredit, vars
<1>6. QED
  BY <1>1, <1>2, <1>3, <1>4, <1>5 DEF Next

\* A swap keeps every channel: the actor's own list was empty before it.
LEMMA SwapStep ==
  ASSUME IInv, NEW a \in Actors, wake[a] = {}, SwapWaiters(a),
         UNCHANGED <<woken, producer>>
  PROVE  SleeperReachable' /\ ClosedOnce' /\ ChannelOwners'
<1> USE DEF IInv, TypeOK, SwapWaiters
<1>1. SleeperReachable'
  BY DEF NoLostWakeup, SleeperReachable
<1>2. ClosedOnce'
  BY DEF ClosedOnce, ChannelOwners
<1>3. ChannelOwners'
  BY DEF ChannelOwners
<1>4. QED
  BY <1>1, <1>2, <1>3

\* So does a step that leaves the channels and the producers alone.
LEMMA ChannelsUnchanged ==
  ASSUME IInv, UNCHANGED <<waiters, wake, woken, producer>>
  PROVE  SleeperReachable' /\ ClosedOnce' /\ ChannelOwners'
BY DEF IInv, NoLostWakeup, SleeperReachable, ClosedOnce, ChannelOwners

LEMMA WakeStep ==
  ASSUME IInv, NEW a \in Actors, Wake(a)
  PROVE  SleeperReachable' /\ ClosedOnce' /\ ChannelOwners'
<1> PICK p \in wake[a] : /\ wake' = [wake EXCEPT ![a] = @ \ {p}]
                         /\ woken' = woken \cup {p}
                         /\ UNCHANGED <<registry, gate, producer>>
  BY DEF Wake
<1> USE DEF IInv, TypeOK, gate
<1>1. SleeperReachable'
  BY DEF NoLostWakeup, SleeperReachable
<1>2. ClosedOnce'
  BY DEF ClosedOnce
<1>3. ChannelOwners'
  BY DEF ClosedOnce, ChannelOwners
<1>4. QED
  BY <1>1, <1>2, <1>3

LEMMA ProducerStep ==
  ASSUME IInv, NEW p \in Producers, Acquire(p) \/ Select(p)
  PROVE  SleeperReachable' /\ ClosedOnce' /\ ChannelOwners'
<1> USE DEF IInv, TypeOK, registry, gate, history
<1>1. CASE AcquireUnbounded(p) \/ AcquireCredit(p)
  BY <1>1, ChannelsUnchanged DEF AcquireUnbounded, AcquireCredit
<1>2. CASE AcquireClosed(p)
  BY <1>2 DEF AcquireClosed, Calls, NoLostWakeup, SleeperReachable, ClosedOnce,
              ChannelOwners
<1>3. CASE AcquireWait(p)
  BY <1>3 DEF AcquireWait, Calls, NoLostWakeup, SleeperReachable, ClosedOnce,
              ChannelOwners
<1>4. CASE Recheck(p)
  BY <1>4 DEF Recheck, NoLostWakeup, SleeperReachable, ClosedOnce,
              ChannelOwners
<1>5. CASE ChooseContext(p) \/ Leave(p)
  BY <1>5 DEF ChooseContext, Leave, NoLostWakeup, SleeperReachable, ClosedOnce,
              ChannelOwners
<1>6. QED
  BY <1>1, <1>2, <1>3, <1>4, <1>5 DEF Acquire, Select

LEMMA ChannelStep ==
  IInv /\ [Next]_vars => SleeperReachable' /\ ClosedOnce' /\ ChannelOwners'
<1> SUFFICES ASSUME IInv, [Next]_vars
             PROVE  SleeperReachable' /\ ClosedOnce' /\ ChannelOwners'
  OBVIOUS
<1> USE DEF registry, gate, history
<1>1. ASSUME Dispatch
      PROVE  SleeperReachable' /\ ClosedOnce' /\ ChannelOwners'
  <2>1. CASE Register \/ Unregister
    BY <2>1, ChannelsUnchanged DEF Register, Unregister
  <2>2. CASE ApplyBuffered
    <3>1. wake[Dispatcher] = {}
      BY <2>2 DEF ApplyBuffered, IInv, OneSwapAtATime
    <3>2. CASE buffered > 0
      BY <2>2, <3>1, <3>2, ActorsType, SwapStep DEF ApplyBuffered, AddCredits
    <3>3. CASE ~(buffered > 0)
      BY <2>2, <3>3, ChannelsUnchanged DEF ApplyBuffered
    <3>4. QED
      BY <3>2, <3>3
  <2>3. CASE CloseGate
    <3>1. wake[Dispatcher] = {}
      BY <2>3 DEF CloseGate, IInv, OneSwapAtATime
    <3>2. QED
      BY <2>3, <3>1, ActorsType, SwapStep DEF CloseGate
  <2>4. QED
    BY <1>1, <2>1, <2>2, <2>3 DEF Dispatch
<1>2. ASSUME NEW g \in Granters, GrantToGate(g)
      PROVE  SleeperReachable' /\ ClosedOnce' /\ ChannelOwners'
  <2>1. wake[g] = {}
    BY <1>2 DEF GrantToGate, IInv, OneSwapAtATime
  <2>2. QED
    BY <1>2, <2>1, ActorsType, SwapStep DEF GrantToGate, AddCredits
<1>3. ASSUME \/ EndContext
             \/ \E g \in Granters, n \in Amounts : ReceiveCredit(g, n)
             \/ UNCHANGED vars
      PROVE  SleeperReachable' /\ ClosedOnce' /\ ChannelOwners'
  BY <1>3, ChannelsUnchanged DEF EndContext, ReceiveCredit, vars
<1>4. QED
  BY <1>1, <1>2, <1>3, WakeStep, ProducerStep DEF Next

LEMMA SwapOnceStep == IInv /\ [Next]_vars => OneSwapAtATime'
<1> SUFFICES ASSUME IInv, [Next]_vars PROVE OneSwapAtATime'
  OBVIOUS
<1> USE FlowGateAssumption, ActorsType
    DEF IInv, TypeOK, OneSwapAtATime, registry, gate, history
<1>0. waiters # {} => dispatch \notin {"new", "registered"}
  BY DEF ChannelOwners
<1>1. ASSUME Dispatch PROVE OneSwapAtATime'
  <2>1. CASE Register \/ Unregister \/ CloseGate
    BY <2>1 DEF Register, Unregister, CloseGate, SwapWaiters
  <2>2. CASE ApplyBuffered /\ buffered > 0
    BY <1>0, <2>2 DEF ApplyBuffered, AddCredits, SwapWaiters
  <2>3. CASE ApplyBuffered /\ ~(buffered > 0)
    BY <2>3 DEF ApplyBuffered
  <2>4. QED
    BY <1>1, <2>1, <2>2, <2>3 DEF Dispatch
<1>2. ASSUME NEW g \in Granters, GrantToGate(g) PROVE OneSwapAtATime'
  BY <1>2 DEF GrantToGate, AddCredits, SwapWaiters
<1>3. ASSUME NEW a \in Actors, Wake(a) PROVE OneSwapAtATime'
  BY <1>3 DEF Wake
<1>4. ASSUME NEW g \in Granters, NEW n \in Amounts, ReceiveCredit(g, n)
      PROVE OneSwapAtATime'
  BY <1>4 DEF ReceiveCredit
<1>5. ASSUME NEW p \in Producers, Acquire(p) \/ Select(p)
      PROVE OneSwapAtATime'
  BY <1>5 DEF Acquire, AcquireUnbounded, AcquireCredit, AcquireClosed,
              AcquireWait, Calls, Select, Recheck, ChooseContext, Leave
<1>6. CASE EndContext \/ UNCHANGED vars
  BY <1>6 DEF EndContext, vars
<1>7. QED
  BY <1>1, <1>2, <1>3, <1>4, <1>5, <1>6 DEF Next

LEMMA BufferedStep == IInv /\ [Next]_vars => BufferedOnce'
<1> SUFFICES ASSUME IInv, [Next]_vars PROVE BufferedOnce'
  OBVIOUS
<1> QED
  BY DEF IInv, BufferedOnce, Next, Dispatch, Register, ApplyBuffered, Unregister, CloseGate,
         EndContext, Wake, ReceiveCredit, GrantToGate, Acquire, AcquireUnbounded,
         AcquireCredit, AcquireClosed, AcquireWait, Select, Recheck, ChooseContext, Leave,
         registry, vars

\* The inductive invariant holds in every reachable state.
THEOREM Invariance == Spec => []IInv
<1>1. IInv /\ [Next]_vars => IInv'
  BY TypeStep, AccountStep, WaitStep, ChannelStep, SwapOnceStep, BufferedStep
     DEF IInv, NoLostWakeup
<1>2. QED
  BY <1>1, InitInv, PTL DEF Spec

\* No producer sleeps across the event it waits for, however acquiring,
\* granting, cancelling and closing interleave.
THEOREM NoLostWakeupHolds == Spec => []NoLostWakeup
<1>1. IInv => NoLostWakeup
  BY DEF IInv
<1>2. QED
  BY <1>1, Invariance, PTL

\* No channel of a waiter is closed twice (a second close panics).
THEOREM ClosedOnceHolds == Spec => []ClosedOnce
<1>1. IInv => ClosedOnce
  BY DEF IInv
<1>2. QED
  BY <1>1, Invariance, PTL

-----------------------------------------------------------------------------
(* No credit is lost between the registry and the gate.                    *)

LEMMA InHands ==
  /\ CreditsInTransit = pending + buffered + Total(grant, Granters)
  /\ CreditsInTransit' = pending' + buffered' + Total(grant', Granters)
BY DEF CreditsInTransit, Total, MapThenSumSet, MapThenFoldSet

LEMMA NoCreditLostStep == IInv /\ NoCreditLost /\ [Next]_vars => NoCreditLost'
<1> SUFFICES ASSUME IInv, NoCreditLost, [Next]_vars PROVE NoCreditLost'
  OBVIOUS
<1> DEFINE t == Total(grant, Granters)
<1>1. /\ t \in Nat /\ granted = pending + buffered + t + credits + taken
      /\ {pending, buffered, credits, granted, taken, added} \subseteq Nat
      /\ ~bounded => credits = 0
      /\ dispatch = "new" => buffered = 0
  <2>1. {pending, buffered, credits, granted, taken, added} \subseteq Nat
    BY DEF IInv, TypeOK
  <2>2. ~bounded => credits = 0
    BY <2>1 DEF IInv, CreditAccount
  <2>3. t \in Nat
    BY TotalType DEF IInv, TypeOK
  <2>4. dispatch = "new" => buffered = 0
    BY DEF IInv, BufferedOnce
  <2> QED  BY <2>1, <2>2, <2>3, <2>4, InHands DEF NoCreditLost
<1> HIDE DEF t
<1> SUFFICES ASSUME NEW u, u = Total(grant', Granters)
             PROVE  granted' = pending' + buffered' + u + credits' + taken'
  BY InHands DEF NoCreditLost
<1>2. grant' = grant => u = t
  BY DEF t
<1> USE DEF registry, gate, history
<1>3. ASSUME Dispatch PROVE granted' = pending' + buffered' + u + credits' + taken'
  <2>1. CASE Register
    BY <1>1, <1>2, <2>1 DEF Register
  <2>2. CASE ApplyBuffered
    <3>1. CASE buffered > 0
      BY <1>1, <1>2, <2>2, <3>1 DEF ApplyBuffered, AddCredits
    <3>2. CASE ~(buffered > 0)
      BY <1>1, <1>2, <2>2, <3>2 DEF ApplyBuffered
    <3> QED  BY <3>1, <3>2
  <2>3. CASE Unregister \/ CloseGate
    BY <1>1, <1>2, <2>3 DEF Unregister, CloseGate
  <2> QED  BY <1>3, <2>1, <2>2, <2>3 DEF Dispatch
<1>4. ASSUME NEW g \in Granters, NEW n \in Nat, grant' = [grant EXCEPT ![g] = n]
      PROVE  u = t + (n - grant[g]) /\ grant[g] \in Nat
  <2>1. grant \in [Granters -> Nat] /\ grant' \in [Granters -> Nat]
    BY <1>4 DEF IInv, TypeOK
  <2>2. grant'[g] = n /\ \A x \in Granters \ {g} : grant'[x] = grant[x]
    BY <1>4, <2>1
  <2>3. Total(grant', Granters) = Total(grant, Granters) + (grant'[g] - grant[g])
    BY <2>1, <2>2, TotalChanges
  <2> QED  BY <2>1, <2>2, <2>3 DEF t
<1>5. ASSUME NEW g \in Granters, NEW n \in Amounts, ReceiveCredit(g, n)
      PROVE  granted' = pending' + buffered' + u + credits' + taken'
  <2>1. /\ grant[g] = 0 /\ granted' = granted + n /\ n \in Nat
        /\ UNCHANGED <<buffered, credits, taken>>
        /\ \/ grant' = [grant EXCEPT ![g] = n] /\ pending' = pending
           \/ grant' = grant /\ pending' = pending + n
    BY <1>5 DEF ReceiveCredit
  <2>2. CASE grant' = grant /\ pending' = pending + n
    BY <1>1, <1>2, <2>1, <2>2
  <2>3. CASE grant' = [grant EXCEPT ![g] = n] /\ pending' = pending
    <3>1. u = t + (n - grant[g])
      BY <1>4, <2>1, <2>3
    <3> QED  BY <1>1, <2>1, <2>3, <3>1
  <2> QED  BY <2>1, <2>2, <2>3
<1>6. ASSUME NEW g \in Granters, GrantToGate(g)
      PROVE  granted' = pending' + buffered' + u + credits' + taken'
  <2>1. /\ grant' = [grant EXCEPT ![g] = 0] /\ credits' = credits + grant[g]
        /\ UNCHANGED <<pending, buffered, granted, taken>>
    BY <1>1, <1>6 DEF GrantToGate, AddCredits
  <2>2. u = t + (0 - grant[g]) /\ grant[g] \in Nat
    BY <1>4, <2>1
  <2> QED  BY <1>1, <2>1, <2>2
<1>7. ASSUME NEW p \in Producers, Acquire(p)
      PROVE  granted' = pending' + buffered' + u + credits' + taken'
  BY <1>1, <1>2, <1>7
     DEF Acquire, AcquireUnbounded, AcquireCredit, AcquireClosed, AcquireWait
<1>8. ASSUME \/ EndContext
             \/ \E a \in Actors : Wake(a)
             \/ \E p \in Producers : Select(p)
             \/ UNCHANGED vars
      PROVE  granted' = pending' + buffered' + u + credits' + taken'
  BY <1>1, <1>2, <1>8 DEF EndContext, Wake, Select, Recheck, ChooseContext, Leave, vars
<1> QED  BY <1>3, <1>5, <1>6, <1>7, <1>8 DEF Next

\* Every credit received before, during or after the registration of the gate
\* is buffered, carried by the dispatcher or a granter, in the gate, or taken.
THEOREM NoCreditLostHolds == Spec => []NoCreditLost
<1>1. Init => NoCreditLost
  <2> SUFFICES ASSUME Init PROVE NoCreditLost
    OBVIOUS
  <2>1. Total(grant, Granters) = 0
    BY TotalOfZeros DEF Init
  <2> QED  BY <2>1, InHands DEF Init, NoCreditLost
<1>2. QED
  BY <1>1, NoCreditLostStep, Invariance, PTL DEF Spec

-----------------------------------------------------------------------------
(* The gate implements the credit window.                                  *)

LEMMA GrantRefines ==
  ASSUME IInv, NEW a \in Actors, NEW n \in Nat \ {0}, AddCredits(a, n),
         UNCHANGED <<taken, passes>>
  PROVE  Window!Grant
BY DEF IInv, TypeOK, AddCredits, Window!Grant

LEMMA WindowStep == IInv /\ [Next]_vars => [Window!Next]_(Window!window)
<1> SUFFICES ASSUME IInv, [Next]_vars
             PROVE  Window!Next \/ UNCHANGED Window!window
  OBVIOUS
<1> USE DEF registry, gate, history, Window!window
<1>1. ASSUME Dispatch PROVE Window!Next \/ UNCHANGED Window!window
  <2>1. CASE Register \/ Unregister \/ CloseGate
    BY <2>1 DEF Register, Unregister, CloseGate
  <2>2. CASE ApplyBuffered
    <3>1. CASE buffered > 0
      <4>1. buffered \in Nat \ {0} /\ Dispatcher \in Actors
        BY <3>1, ActorsType DEF IInv, TypeOK
      <4>2. AddCredits(Dispatcher, buffered) /\ UNCHANGED <<taken, passes>>
        BY <2>2, <3>1 DEF ApplyBuffered
      <4>3. QED
        BY <4>1, <4>2, GrantRefines DEF Window!Next
    <3>2. CASE ~(buffered > 0)
      BY <2>2, <3>2 DEF ApplyBuffered
    <3>3. QED
      BY <3>1, <3>2
  <2>3. QED
    BY <1>1, <2>1, <2>2 DEF Dispatch
<1>2. ASSUME NEW g \in Granters, GrantToGate(g)
      PROVE  Window!Next \/ UNCHANGED Window!window
  <2>1. grant[g] \in Nat \ {0} /\ g \in Actors
    BY <1>2, ActorsType DEF GrantToGate, IInv, TypeOK
  <2>2. AddCredits(g, grant[g]) /\ UNCHANGED <<taken, passes>>
    BY <1>2 DEF GrantToGate
  <2>3. QED
    BY <2>1, <2>2, GrantRefines DEF Window!Next
<1>3. ASSUME NEW p \in Producers, Acquire(p)
      PROVE  Window!Next \/ UNCHANGED Window!window
  <2>1. CASE AcquireUnbounded(p)
    BY <2>1 DEF AcquireUnbounded, Window!Next, Window!Pass
  <2>2. CASE AcquireCredit(p)
    <3>1. taken < added
      BY <2>2 DEF AcquireCredit, IInv, TypeOK, CreditAccount
    <3>2. QED
      BY <2>2, <3>1 DEF AcquireCredit, Window!Next, Window!Use
  <2>3. CASE AcquireClosed(p) \/ AcquireWait(p)
    BY <2>3 DEF AcquireClosed, AcquireWait
  <2>4. QED
    BY <1>3, <2>1, <2>2, <2>3 DEF Acquire
<1>4. ASSUME \/ EndContext
             \/ \E a \in Actors : Wake(a)
             \/ \E g \in Granters, n \in Amounts : ReceiveCredit(g, n)
             \/ \E p \in Producers : Select(p)
             \/ UNCHANGED vars
      PROVE  UNCHANGED Window!window
  BY <1>4 DEF EndContext, Wake, ReceiveCredit, Select, Recheck,
              ChooseContext, Leave, vars
<1>5. QED
  BY <1>1, <1>2, <1>3, <1>4 DEF Next

\* Whatever the goroutines do, the producers of a stream see a credit window:
\* free items before the first grant, then one granted credit per item.
THEOREM WindowImplemented == Spec => ImplementsWindow
<1>1. Init => Window!Init
  BY DEF Init, Window!Init
<1>2. QED
  BY <1>1, WindowStep, Invariance, PTL DEF Spec, ImplementsWindow, Window!Spec
=============================================================================
