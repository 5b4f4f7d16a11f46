------------------------------ MODULE FlowGate ------------------------------
(***************************************************************************)
(* The credit gate of one streaming RPC (rpc/flow.go) and its entry in the *)
(* registry of the dispatcher: the gate starts unbounded, the first credit *)
(* grant bounds it, producers that find no credit sleep on a channel of    *)
(* their own and are woken by a grant, by the closing of the gate or by    *)
(* the end of their context.                                               *)
(*                                                                         *)
(* A critical section (one Lock ... Unlock of flowMu or of the gate's mu)  *)
(* is one action.  What the code does after the Unlock is an action of its *)
(* own: applying a grant after the registry lookup, closing the channels   *)
(* that were swapped out of the waiter list, leaving the list after the    *)
(* select chose the context.  Ports are never reused by the clients, so    *)
(* one stream, with one port and one gate, stands for each of them.        *)
(***************************************************************************)
EXTENDS Integers, FiniteSets, FiniteSetsExt

CONSTANTS
  Producers,   \* goroutines of the handler that call Acquire
  Granters,    \* goroutines that run receiveFlowCredit, one grant at a time
  Dispatcher,  \* the goroutine of rpc.Call that owns the stream
  Amounts,     \* positive sizes of a grant (others are ignored by the code)
  MaxGranted,  \* bound: credits granted in a behaviour
  MaxItems     \* bound: successful calls of Acquire in a behaviour

ASSUME FlowGateAssumption ==
  /\ Dispatcher \notin Granters
  /\ IsFiniteSet(Granters)
  /\ Amounts \subseteq Nat \ {0}
  /\ MaxGranted \in Nat
  /\ MaxItems \in Nat

Actors == Granters \cup {Dispatcher}

VARIABLES
  dispatch,    \* progress of the Call goroutine: see Phases
  registered,  \* flowGates[port] is the gate
  pending,     \* pendingFlowCredits[port]
  buffered,    \* the local copy of pending that registerFlowGate applies
  bounded,     \* FlowGate.bounded
  credits,     \* FlowGate.credits
  closed,      \* FlowGate.closed
  waiters,     \* FlowGate.waiters: producers whose channel is in the list
  wake,        \* channels an actor swapped out of the list and has to close
  woken,       \* producers whose channel is closed
  producer,    \* progress of each producer: see ProducerStates
  grant,       \* the amount a granter carries from the registry to the gate
  ctxDone,     \* the context of the stream is done
  granted,     \* history: credits received by receiveFlowCredit
  added,       \* history: credits that reached the gate
  taken,       \* history: calls of Acquire that took a credit
  passes       \* history: calls of Acquire let through while unbounded

registry == <<dispatch, registered, pending, buffered>>
gate     == <<bounded, credits, closed, waiters>>
history  == <<granted, added, taken, passes>>
vars == <<registry, gate, wake, woken, producer, grant, ctxDone, history>>

Phases == {"new", "registered", "open", "removed", "closed"}
ProducerStates == {"ready", "asleep", "leaving", "stopped"}

TypeOK ==
  /\ dispatch \in Phases
  /\ registered \in BOOLEAN
  /\ pending \in Nat
  /\ buffered \in Nat
  /\ bounded \in BOOLEAN
  /\ credits \in Nat
  /\ closed \in BOOLEAN
  /\ waiters \in SUBSET Producers
  /\ wake \in [Actors -> SUBSET Producers]
  /\ woken \in SUBSET Producers
  /\ producer \in [Producers -> ProducerStates]
  /\ grant \in [Granters -> Nat]
  /\ ctxDone \in BOOLEAN
  /\ granted \in Nat
  /\ added \in Nat
  /\ taken \in Nat
  /\ passes \in Nat

Init ==
  /\ dispatch = "new"
  /\ registered = FALSE
  /\ pending = 0
  /\ buffered = 0
  /\ bounded = FALSE
  /\ credits = 0
  /\ closed = FALSE
  /\ waiters = {}
  /\ wake = [a \in Actors |-> {}]
  /\ woken = {}
  /\ producer = [p \in Producers |-> "ready"]
  /\ grant = [g \in Granters |-> 0]
  /\ ctxDone = FALSE
  /\ granted = 0
  /\ added = 0
  /\ taken = 0
  /\ passes = 0

-----------------------------------------------------------------------------
(* FlowGate.AddCredits and FlowGate.close: the critical section, which     *)
(* leaves the swapped-out channels to the actor.                           *)

SwapWaiters(a) ==
  /\ wake' = [wake EXCEPT ![a] = waiters]
  /\ waiters' = {}

\* Variants that a check of this model must reject are defined next to the
\* action they vary.  Here: the grant forgets to wake.
AddCreditsWithoutWake(a, n) ==
  /\ bounded' = TRUE
  /\ credits' = (IF bounded THEN credits ELSE 0) + n
  /\ added' = added + n
  /\ UNCHANGED <<closed, waiters, wake>>

AddCredits(a, n) ==
  /\ bounded' = TRUE
  /\ credits' = (IF bounded THEN credits ELSE 0) + n
  /\ SwapWaiters(a)
  /\ added' = added + n
  /\ UNCHANGED closed

\* Variant: only one of the swapped-out channels is closed.
WakeOne(a) ==
  \E p \in wake[a] :
    /\ wake' = [wake EXCEPT ![a] = {}]
    /\ woken' = woken \cup {p}
    /\ UNCHANGED <<registry, gate, producer, grant, ctxDone, history>>

\* The loop after the Unlock: close(w) for each swapped-out channel.
Wake(a) ==
  \E p \in wake[a] :
    /\ wake' = [wake EXCEPT ![a] = @ \ {p}]
    /\ woken' = woken \cup {p}
    /\ UNCHANGED <<registry, gate, producer, grant, ctxDone, history>>

-----------------------------------------------------------------------------
(* The dispatcher: registerFlowGate, the handler, unregisterFlowGate.      *)

Register ==
  /\ dispatch = "new"
  /\ dispatch' = "registered"
  /\ registered' = TRUE
  /\ buffered' = pending
  /\ pending' = 0
  /\ UNCHANGED <<gate, wake, woken, producer, grant, ctxDone, history>>

ApplyBuffered ==
  /\ dispatch = "registered"
  /\ dispatch' = "open"
  /\ IF buffered > 0
     THEN /\ AddCredits(Dispatcher, buffered)
          /\ UNCHANGED <<granted, taken, passes>>
     ELSE UNCHANGED <<gate, wake, history>>
  /\ buffered' = 0
  /\ UNCHANGED <<registered, pending, woken, producer, grant, ctxDone>>

\* The handler has returned; a goroutine it started may still call Acquire.
Unregister ==
  /\ dispatch = "open"
  /\ dispatch' = "removed"
  /\ registered' = FALSE
  /\ UNCHANGED <<pending, buffered, gate, wake, woken, producer, grant,
                 ctxDone, history>>

\* Variant: close() sets the flag and leaves the waiters asleep.
CloseGateWithoutWake ==
  /\ dispatch = "removed"
  /\ dispatch' = "closed"
  /\ closed' = TRUE
  /\ UNCHANGED <<registered, pending, buffered, bounded, credits, waiters,
                 wake, woken, producer, grant, ctxDone, history>>

CloseGate ==
  /\ dispatch = "removed"
  /\ dispatch' = "closed"
  /\ closed' = TRUE
  /\ SwapWaiters(Dispatcher)
  /\ UNCHANGED <<registered, pending, buffered, bounded, credits, woken,
                 producer, grant, ctxDone, history>>

\* A Cancel request, or the deadline of a unary call, ends the context.
EndContext ==
  /\ ~ctxDone
  /\ ctxDone' = TRUE
  /\ UNCHANGED <<registry, gate, wake, woken, producer, grant, history>>

-----------------------------------------------------------------------------
(* receiveFlowCredit: the lookup under flowMu, then AddCredits.            *)

\* Variant: a second early grant replaces the first instead of adding to it.
ReceiveCreditReplaces(g, n) ==
  /\ grant[g] = 0
  /\ wake[g] = {}
  /\ granted + n <= MaxGranted
  /\ granted' = granted + n
  /\ IF registered
     THEN /\ grant' = [grant EXCEPT ![g] = n]
          /\ UNCHANGED pending
     ELSE /\ pending' = n
          /\ UNCHANGED grant
  /\ UNCHANGED <<dispatch, registered, buffered, gate, wake, woken, producer,
                 ctxDone, added, taken, passes>>

ReceiveCredit(g, n) ==
  /\ grant[g] = 0
  /\ wake[g] = {}
  /\ granted + n <= MaxGranted
  /\ granted' = granted + n
  /\ IF registered
     THEN /\ grant' = [grant EXCEPT ![g] = n]
          /\ UNCHANGED pending
     ELSE /\ pending' = pending + n
          /\ UNCHANGED grant
  /\ UNCHANGED <<dispatch, registered, buffered, gate, wake, woken, producer,
                 ctxDone, added, taken, passes>>

GrantToGate(g) ==
  /\ grant[g] > 0
  /\ AddCredits(g, grant[g])
  /\ grant' = [grant EXCEPT ![g] = 0]
  /\ UNCHANGED <<registry, woken, producer, ctxDone, granted, taken, passes>>

-----------------------------------------------------------------------------
(* FlowGate.Acquire: one action per way out of the critical section, then  *)
(* the select.  A handler stops at the first error.                        *)

Calls(p) ==
  /\ producer[p] = "ready"
  /\ dispatch \in {"open", "removed", "closed"}

\* Variant: a closed gate lets everyone through.
AcquireClosedPasses(p) ==
  /\ Calls(p)
  /\ passes + taken < MaxItems
  /\ ~bounded \/ closed
  /\ passes' = passes + 1
  /\ UNCHANGED <<registry, gate, wake, woken, producer, grant, ctxDone,
                 granted, added, taken>>

AcquireUnbounded(p) ==
  /\ Calls(p)
  /\ passes + taken < MaxItems
  /\ ~bounded
  /\ passes' = passes + 1
  /\ UNCHANGED <<registry, gate, wake, woken, producer, grant, ctxDone,
                 granted, added, taken>>

AcquireCredit(p) ==
  /\ Calls(p)
  /\ passes + taken < MaxItems
  /\ bounded /\ credits > 0
  /\ credits' = credits - 1
  /\ taken' = taken + 1
  /\ UNCHANGED <<registry, bounded, closed, waiters, wake, woken, producer,
                 grant, ctxDone, granted, added, passes>>

AcquireClosed(p) ==
  /\ Calls(p)
  /\ bounded /\ credits <= 0 /\ closed
  /\ producer' = [producer EXCEPT ![p] = "stopped"]
  /\ UNCHANGED <<registry, gate, wake, woken, grant, ctxDone, history>>

AcquireWait(p) ==
  /\ Calls(p)
  /\ bounded /\ credits <= 0 /\ ~closed
  /\ waiters' = waiters \cup {p}
  /\ producer' = [producer EXCEPT ![p] = "asleep"]
  /\ UNCHANGED <<registry, bounded, credits, closed, wake, woken, grant,
                 ctxDone, history>>

\* case <-w: the loop starts over, with a fresh channel if it waits again.
Recheck(p) ==
  /\ producer[p] = "asleep"
  /\ p \in woken
  /\ woken' = woken \ {p}
  /\ producer' = [producer EXCEPT ![p] = "ready"]
  /\ UNCHANGED <<registry, gate, wake, grant, ctxDone, history>>

\* Variant: the context is looked at only after the channel was closed.
ChooseContextLate(p) ==
  /\ producer[p] = "asleep"
  /\ ctxDone /\ p \in woken
  /\ producer' = [producer EXCEPT ![p] = "leaving"]
  /\ UNCHANGED <<registry, gate, wake, woken, grant, ctxDone, history>>

\* case <-ctx.Done(): Go picks either case when both are ready.
ChooseContext(p) ==
  /\ producer[p] = "asleep"
  /\ ctxDone
  /\ producer' = [producer EXCEPT ![p] = "leaving"]
  /\ UNCHANGED <<registry, gate, wake, woken, grant, ctxDone, history>>

\* Variant: a cancelled producer stays in the list.
LeaveKeepsWaiter(p) ==
  /\ producer[p] = "leaving"
  /\ producer' = [producer EXCEPT ![p] = "stopped"]
  /\ UNCHANGED <<registry, gate, wake, woken, grant, ctxDone, history>>

Leave(p) ==
  /\ producer[p] = "leaving"
  /\ waiters' = waiters \ {p}
  /\ producer' = [producer EXCEPT ![p] = "stopped"]
  /\ UNCHANGED <<registry, bounded, credits, closed, wake, woken, grant,
                 ctxDone, history>>

Acquire(p) ==
  \/ AcquireUnbounded(p)
  \/ AcquireCredit(p)
  \/ AcquireClosed(p)
  \/ AcquireWait(p)

Select(p) == Recheck(p) \/ ChooseContext(p) \/ Leave(p)

Dispatch == Register \/ ApplyBuffered \/ Unregister \/ CloseGate

Next ==
  \/ Dispatch
  \/ EndContext
  \/ \E a \in Actors : Wake(a)
  \/ \E g \in Granters, n \in Amounts : ReceiveCredit(g, n)
  \/ \E g \in Granters : GrantToGate(g)
  \/ \E p \in Producers : Acquire(p) \/ Select(p)

Spec == Init /\ [][Next]_vars

\* A runnable goroutine eventually runs.  The handler need not return, the
\* client need not cancel and need not grant.
Fairness ==
  /\ \A a \in Actors : WF_vars(Wake(a))
  /\ \A g \in Granters : WF_vars(GrantToGate(g))
  /\ \A p \in Producers : WF_vars(Select(p))
  /\ WF_vars(CloseGate)

FairSpec == Spec /\ Fairness

-----------------------------------------------------------------------------
(* Safety.                                                                 *)

\* No wakeup is lost between the test of Acquire and its sleep.  While a
\* channel is in the waiter list there is no credit to take and the gate is
\* not closed, and the channel of every sleeping producer is in the list, in
\* the hands of an actor about to close it, or closed: the condition changes
\* and the list is swapped in one critical section (AddCredits, close).
NothingToWaitFor == waiters # {} => bounded /\ credits = 0 /\ ~closed

SleeperReachable ==
  \A p \in Producers :
    producer[p] = "asleep" =>
      p \in waiters \/ p \in woken \/ \E a \in Actors : p \in wake[a]

NoLostWakeup == NothingToWaitFor /\ SleeperReachable

\* close(w) runs at most once per channel, since a second close panics: no
\* channel is in two of the waiter list, the swapped-out lists of the actors
\* and the set of closed channels.
ClosedOnce ==
  \A p \in Producers, a \in Actors :
    p \in wake[a] =>
      /\ p \notin waiters
      /\ p \notin woken
      /\ \A b \in Actors \ {a} : p \notin wake[b]

\* Nothing is lost between the registry and the gate, although a grant may
\* arrive before, during and after registerFlowGate: every credit received is
\* buffered, in the hands of the dispatcher or of a granter that has looked
\* the gate up, left in the gate, or taken by a producer.
CreditsInTransit ==
  pending + buffered + MapThenSumSet(LAMBDA g : grant[g], Granters)

NoCreditLost == granted = CreditsInTransit + credits + taken

\* The gate with its goroutines, waiter list and registry is a credit window.
Window ==
  INSTANCE CreditWindow WITH limited <- bounded, received <- added,
                             used <- taken, free <- passes

ImplementsWindow == Window!Spec

\* What rpc/rpc.go says of pendingFlowCredits: it holds grants that arrived
\* before the gate of the stream was registered.
PendingOnlyBeforeRegistration == pending > 0 => dispatch = "new"

-----------------------------------------------------------------------------
(* The inductive invariant behind the safety properties.                   *)

\* What reached the gate is left or taken; an unbounded gate received none.
CreditAccount ==
  /\ added = credits + taken
  /\ ~bounded => added = 0

\* The channel of a producer that is not in select is fresh: no one holds it.
ChannelOwners ==
  \A p \in Producers :
    /\ p \in waiters => producer[p] \in {"asleep", "leaving"} /\ p \notin woken
    /\ p \in woken => producer[p] # "ready"
    /\ \A a \in Actors : p \in wake[a] => producer[p] # "ready"

\* No one waits before the handler starts, and an actor has closed the
\* channels it swapped out before it swaps again.
OneSwapAtATime ==
  /\ dispatch \in {"new", "registered"} =>
       \A p \in Producers : producer[p] = "ready"
  /\ dispatch # "closed" => wake[Dispatcher] = {}
  /\ \A g \in Granters : grant[g] > 0 => wake[g] = {}

\* The dispatcher carries the early credits only from the registration of the
\* gate to the gate.
BufferedOnce == dispatch # "registered" => buffered = 0

IInv ==
  /\ TypeOK
  /\ CreditAccount
  /\ NoLostWakeup
  /\ ClosedOnce
  /\ ChannelOwners
  /\ OneSwapAtATime
  /\ BufferedOnce

-----------------------------------------------------------------------------
(* Liveness.                                                               *)

\* A sleeping producer for which credit is available is woken to re-check.
SleeperWakes ==
  \A p \in Producers :
    producer[p] = "asleep" /\ credits > 0 ~> producer[p] # "asleep"

\* The end of the context releases a sleeping producer: it leaves, or a grant
\* that came first makes it re-check.
CancelReleases ==
  \A p \in Producers :
    producer[p] = "asleep" /\ ctxDone ~> producer[p] # "asleep"

\* The end of the stream releases every sleeping producer for good.
CloseReleases ==
  dispatch = "removed" ~> [](\A p \in Producers : producer[p] # "asleep")
=============================================================================
