---------------------------- MODULE BridgeProofs ----------------------------
(***************************************************************************)
(* Proofs about the ways from Dart to Go.  The two bridges: for each, one  *)
(* lemma for each action, then its theorems, for any number of calls, any  *)
(* length of the streams and whenever the worker of the page dies; and     *)
(* what follows for an application that has one of them.  Then the hot     *)
(* call of the native bridge: the layout of its messages, that what is     *)
(* packed is read back, and the call, for any methods.                     *)
(***************************************************************************)
EXTENDS MCBridges, HotCall, FiniteSetTheorems, WellFoundedInduction, TLAPS

LEMMA RequestFacts ==
  /\ Unary \subseteq Requests /\ Streams \subseteq Requests /\ Boot \in Requests
  /\ Boot \notin Unary \cup Streams
  /\ \A s \in Streams : Stop[s] \in Requests \ Streams /\ Stop[s] # Boot
                        /\ Stop[s] \notin Unary
  /\ Unary \cap Streams = {}
<1> QED  BY RequestsDistinct DEF Requests, Cancels

\* What Append does to a sequence: its old elements stay where they are.
LEMMA AppendFacts ==
  ASSUME NEW S, NEW s \in Seq(S), NEW e \in S
  PROVE  /\ Append(s, e) \in Seq(S) /\ Append(s, e) # << >>
         /\ Len(s) \in Nat /\ Len(Append(s, e)) = Len(s) + 1
         /\ Append(s, e)[Len(s) + 1] = e
         /\ \A i \in 1 .. Len(s) : Append(s, e)[i] = s[i]
         /\ Len(s) > 0 => Head(Append(s, e)) = Head(s)
         /\ Len(s) = 0 => Head(Append(s, e)) = e
<1>1. /\ Append(s, e) \in Seq(S) /\ Len(s) \in Nat /\ Len(Append(s, e)) = Len(s) + 1
      /\ Append(s, e)[Len(s) + 1] = e
      /\ \A i \in 1 .. Len(s) : Append(s, e)[i] = s[i]
  OBVIOUS
<1>2. Append(s, e) # << >>
  BY <1>1
<1>3. Head(Append(s, e)) = Append(s, e)[1] /\ (Len(s) > 0 => Head(s) = s[1])
  BY <1>1, <1>2
<1> QED  BY <1>1, <1>2, <1>3

\* A container that joins the queue of a stream.
LEMMA FreedAppend ==
  ASSUME NEW s \in Seq({"queued", "freed", "lost"}), FreedInOrder(s)
  PROVE  FreedInOrder(Append(s, "queued"))
<1>1. PICK k \in 0 .. Len(s) : \A i \in 1 .. Len(s) :
             IF i <= k THEN s[i] = "freed" ELSE s[i] = "queued"
  BY DEF FreedInOrder
<1> DEFINE t == Append(s, "queued")
<1>2. /\ Len(s) \in Nat /\ Len(t) = Len(s) + 1 /\ t[Len(s) + 1] = "queued"
      /\ \A i \in 1 .. Len(s) : t[i] = s[i]
  BY AppendFacts
<1> HIDE DEF t
<1>3. /\ k \in 0 .. Len(t)
      /\ \A i \in 1 .. Len(t) : IF i <= k THEN t[i] = "freed" ELSE t[i] = "queued"
  BY <1>1, <1>2
<1> QED  BY <1>3 DEF FreedInOrder, t

\* The queue of a stream: its front is the container behind the freed ones.
LEMMA FreedFront ==
  ASSUME NEW r \in Requests, container[r] \in Seq({"queued", "freed", "lost"}),
         FreedInOrder(container[r]), Queued(r) # {}
  PROVE  /\ Front(r) \in 1 .. Len(container[r])
         /\ \A i \in 1 .. Len(container[r]) :
              IF i < Front(r) THEN container[r][i] = "freed" ELSE container[r][i] = "queued"
<1> DEFINE s == container[r]
<1>1. PICK k \in 0 .. Len(s) : \A i \in 1 .. Len(s) :
             IF i <= k THEN s[i] = "freed" ELSE s[i] = "queued"
  BY DEF FreedInOrder
<1>2. Queued(r) = {i \in 1 .. Len(s) : k < i} /\ Len(s) \in Nat
  BY <1>1 DEF Queued
<1>3. k + 1 \in Queued(r) /\ \A j \in Queued(r) : k + 1 <= j
  BY <1>2
<1>4. Front(r) = k + 1
  <2>1. Front(r) \in Queued(r) /\ \A j \in Queued(r) : Front(r) <= j
    BY <1>3 DEF Front
  <2> QED  BY <1>2, <1>3, <2>1
<1> HIDE DEF s
<1>5. k + 1 \in 1 .. Len(s)
  BY <1>2, <1>3
<1>6. \A i \in 1 .. Len(s) : IF i < k + 1 THEN s[i] = "freed" ELSE s[i] = "queued"
  BY <1>1, <1>2
<1> QED  BY <1>4, <1>5, <1>6 DEF s

\* Freeing it keeps the order.
LEMMA FreedNext ==
  ASSUME NEW s \in Seq({"queued", "freed", "lost"}), NEW f \in 1 .. Len(s),
         \A i \in 1 .. Len(s) : IF i < f THEN s[i] = "freed" ELSE s[i] = "queued"
  PROVE  /\ FreedInOrder([s EXCEPT ![f] = "freed"])
         /\ [s EXCEPT ![f] = "freed"] \in Seq({"queued", "freed", "lost"})
         /\ Len([s EXCEPT ![f] = "freed"]) = Len(s)
<1> DEFINE t == [s EXCEPT ![f] = "freed"]
<1>1. /\ t \in Seq({"queued", "freed", "lost"}) /\ Len(t) = Len(s) /\ Len(s) \in Nat
      /\ t[f] = "freed" /\ \A i \in 1 .. Len(s) : i # f => t[i] = s[i]
  OBVIOUS
<1> HIDE DEF t
<1>2. f \in 0 .. Len(t)
  BY <1>1
<1>3. \A i \in 1 .. Len(t) : IF i <= f THEN t[i] = "freed" ELSE t[i] = "queued"
  BY <1>1
<1>4. FreedInOrder(t)
  BY <1>2, <1>3 DEF FreedInOrder
<1> QED  BY <1>1, <1>4 DEF t

LEMMA InitInv == Init => IInv
<1> SUFFICES ASSUME Init PROVE IInv
  OBVIOUS
<1>1. TypeOK
  <2>1. << >> \in Seq(Kinds) /\ << >> \in Seq({"queued", "freed", "lost"}) /\ Len(<< >>) = 0
    OBVIOUS
  <2>2. \A r \in Requests : posted[r] = << >> /\ container[r] = << >>
    BY DEF Init
  <2>3. call \in [Requests -> {"idle", "waiting", "posted", "garbage"} \cup Over]
    BY DEF Init
  <2> QED  BY <2>1, <2>2, <2>3 DEF Init, TypeOK
<1>2. Phases
  BY RequestFacts DEF Init, Phases
<1>3. DoneIsLast /\ OutcomeIsFirst /\ OnlyLateDoneLost /\ NeverFatal
  BY DEF Init, DoneIsLast, OutcomeIsFirst, OnlyLateDoneLost, NeverFatal
<1>4. Listened
  <2>1. FreedInOrder(<< >>)
    BY DEF FreedInOrder
  <2> QED  BY <2>1, RequestFacts DEF Init, Listened
<1> QED  BY <1>1, <1>2, <1>3, <1>4 DEF IInv

\* The actions that touch neither a port nor a container.
LEMMA QuietStep ==
  ASSUME IInv, UNCHANGED <<port, exporter, posted, container>>,
         engine' \in {"loading", "initializing", "ready", "failed"},
         engine' = "loading" => engine = "loading",
         fatal' = FALSE,
         \/ call' = call
         \/ \E r \in Unary \cup Streams, s \in {"waiting", "timeout"} :
              /\ call[r] \in {"idle", "waiting"}
              /\ call' = [call EXCEPT ![r] = s]
  PROVE  IInv'
<1>0. /\ TypeOK /\ Phases /\ DoneIsLast /\ Listened /\ OutcomeIsFirst
      /\ OnlyLateDoneLost
  BY DEF IInv
<1>1. TypeOK'
  BY <1>0 DEF TypeOK, Over
<1>2. Phases'
  BY <1>0, RequestFacts DEF TypeOK, Phases
<1>3. DoneIsLast' /\ OnlyLateDoneLost' /\ NeverFatal'
  BY <1>0 DEF DoneIsLast, OnlyLateDoneLost, NeverFatal
<1>4. Listened'
  BY <1>0 DEF Listened
<1>5. OutcomeIsFirst'
  BY <1>0 DEF OutcomeIsFirst, Phases, TypeOK
<1> QED  BY <1>1, <1>2, <1>3, <1>4, <1>5 DEF IInv

\* A request is sent: its port opens while nothing was posted for it.
LEMMA SendStep ==
  ASSUME IInv, NEW r \in Requests, call[r] \in {"idle", "waiting"},
         NEW calls, Send(r, calls),
         \/ calls = call
         \/ \E s \in Streams : /\ call[s] = "posted" /\ s # r
                               /\ calls = [call EXCEPT ![s] = "cancelled"],
         engine' \in {"initializing", "ready", "failed"}, fatal' = fatal
  PROVE  IInv'
<1>0. /\ TypeOK /\ Phases /\ DoneIsLast /\ Listened /\ OutcomeIsFirst
      /\ OnlyLateDoneLost /\ NeverFatal
  BY DEF IInv
<1>1. /\ call' \in [Requests -> {"idle", "waiting", "posted", "garbage"} \cup Over]
      /\ call'[r] = "posted"
      /\ \A q \in Requests \ {r} :
           \/ call'[q] = call[q]
           \/ q \in Streams /\ call[q] = "posted" /\ call'[q] = "cancelled"
  BY <1>0, RequestFacts DEF Send, TypeOK, Over
<1>2. /\ port' = [port EXCEPT ![r] = "open"]
      /\ exporter' = [exporter EXCEPT ![r] = "running"]
      /\ posted' = posted /\ container' = container
      /\ port[r] = "none" /\ posted[r] = << >> /\ container[r] = << >>
  BY <1>0 DEF Send, TypeOK, Phases
<1>3. TypeOK'
  BY <1>0, <1>1, <1>2 DEF TypeOK
<1>4. Phases'
  BY <1>0, <1>1, <1>2, RequestFacts DEF TypeOK, Phases
<1>5. DoneIsLast'
  BY <1>0, <1>2 DEF TypeOK, DoneIsLast
<1>6. Listened'
  BY <1>0, <1>2, RequestFacts DEF TypeOK, Listened
<1>7. OutcomeIsFirst'
  BY <1>0, <1>1, <1>2 DEF TypeOK, OutcomeIsFirst
<1>8. OnlyLateDoneLost' /\ NeverFatal'
  BY <1>0, <1>2 DEF OnlyLateDoneLost, NeverFatal
<1> QED  BY <1>3, <1>4, <1>5, <1>6, <1>7, <1>8 DEF IInv

\* A message is posted on an open port, or on the port of a call that its first
\* message has completed: then it is the Done that follows.
LEMMA PostStep ==
  ASSUME IInv, NEW r \in Requests, NEW kind \in Kinds, Post(r, kind),
         exporter[r] \in {"running", "finishing"},
         \/ /\ kind = "done" /\ exporter' = [exporter EXCEPT ![r] = "ended"]
            /\ r \in Unary => posted[r] # << >>
         \/ /\ kind # "done"
            /\ \E e \in {"running", "finishing"} : exporter' = [exporter EXCEPT ![r] = e]
            /\ r \notin Streams => Len(posted[r]) < 1,
         UNCHANGED <<engine, fatal, call, port>>
  PROVE  IInv'
<1>0. /\ TypeOK /\ Phases /\ DoneIsLast /\ Listened /\ OutcomeIsFirst
      /\ OnlyLateDoneLost /\ NeverFatal
  BY DEF IInv
<1> DEFINE state == IF port[r] = "open" THEN "queued" ELSE "lost"
           n == Len(posted[r])
<1>1. /\ posted[r] \in Seq(Kinds) /\ container[r] \in Seq({"queued", "freed", "lost"})
      /\ n \in Nat /\ Len(container[r]) = n
      /\ n = 0 => posted[r] = << >>
      /\ port[r] \in {"open", "closed"} /\ exporter[r] # "ended"
  BY <1>0 DEF TypeOK, Phases
<1>2. /\ posted' = [posted EXCEPT ![r] = Append(posted[r], kind)]
      /\ container' = [container EXCEPT ![r] = Append(container[r], state)]
  BY DEF Post
<1>3. /\ posted'[r] = Append(posted[r], kind) /\ container'[r] = Append(container[r], state)
      /\ posted'[r] \in Seq(Kinds) /\ container'[r] \in Seq({"queued", "freed", "lost"})
      /\ \A q \in Requests \ {r} : posted'[q] = posted[q] /\ container'[q] = container[q]
  BY <1>0, <1>1, <1>2 DEF TypeOK
<1>4. /\ Len(posted'[r]) = n + 1 /\ Len(container'[r]) = n + 1
      /\ posted'[r] # << >> /\ posted'[r][n + 1] = kind /\ container'[r][n + 1] = state
      /\ \A i \in 1 .. n : posted'[r][i] = posted[r][i] /\ container'[r][i] = container[r][i]
      /\ n > 0 => Head(posted'[r]) = Head(posted[r])
      /\ n = 0 => Head(posted'[r]) = kind
  <2>1. state \in {"queued", "freed", "lost"}
    OBVIOUS
  <2> HIDE DEF state
  <2>2. /\ posted'[r] # << >> /\ Len(posted'[r]) = n + 1 /\ posted'[r][n + 1] = kind
        /\ \A i \in 1 .. n : posted'[r][i] = posted[r][i]
        /\ n > 0 => Head(posted'[r]) = Head(posted[r])
        /\ n = 0 => Head(posted'[r]) = kind
    BY <1>1, <1>3, AppendFacts
  <2>3. /\ Len(container'[r]) = n + 1 /\ container'[r][n + 1] = state
        /\ \A i \in 1 .. n : container'[r][i] = container[r][i]
    BY <1>1, <1>3, <2>1, AppendFacts
  <2> QED  BY <2>2, <2>3
<1>5. \A i \in 1 .. n : posted[r][i] # "done"
  BY <1>0, <1>1 DEF DoneIsLast
<1>6. r \notin Streams => n <= 1
  BY <1>0, <1>1, <1>5 DEF DoneIsLast
<1>7. \A q \in Requests : /\ q # r => exporter'[q] = exporter[q]
                          /\ exporter'[r] # "idle"
                          /\ exporter'[r] \in {"running", "finishing", "ended"}
                          /\ kind = "done" => exporter'[r] = "ended"
  BY <1>0 DEF TypeOK
<1> HIDE DEF n, state
<1>8. TypeOK'
  <2>1. posted' \in [Requests -> Seq(Kinds)]
    BY <1>0, <1>2, <1>3 DEF TypeOK
  <2>2. container' \in [Requests -> Seq({"queued", "freed", "lost"})]
    BY <1>0, <1>2, <1>3 DEF TypeOK
  <2>3. \A q \in Requests : Len(container'[q]) = Len(posted'[q])
    BY <1>0, <1>3, <1>4 DEF TypeOK
  <2>4. exporter' \in [Requests -> {"idle", "running", "finishing", "ended"}]
    BY <1>0 DEF TypeOK
  <2> QED  BY <1>0, <2>1, <2>2, <2>3, <2>4 DEF TypeOK
<1>9. Phases'
  BY <1>0, <1>1, <1>3, <1>7 DEF Phases
<1>10. DoneIsLast'
  <2>1. ASSUME NEW q \in Requests, q # r
        PROVE  /\ \A i \in 1 .. Len(posted'[q]) :
                    posted'[q][i] = "done" => exporter'[q] = "ended" /\ i = Len(posted'[q])
               /\ q \in Unary /\ posted'[q] # << >> => Head(posted'[q]) # "done"
               /\ q \notin Streams => Len(posted'[q]) \in 0 .. 2
               /\ q \notin Streams /\ Len(posted'[q]) = 2 => posted'[q][2] = "done"
    BY <1>0, <1>3, <1>7, <2>1 DEF DoneIsLast
  <2>2. \A i \in 1 .. Len(posted'[r]) :
          posted'[r][i] = "done" => exporter'[r] = "ended" /\ i = Len(posted'[r])
    <3> SUFFICES ASSUME NEW i \in 1 .. n + 1, posted'[r][i] = "done"
                 PROVE  exporter'[r] = "ended" /\ i = n + 1
      BY <1>4
    <3>1. i \notin 1 .. n
      BY <1>4, <1>5
    <3>2. i = n + 1
      BY <1>1, <3>1
    <3> QED  BY <1>4, <1>7, <3>2
  <2>3. r \in Unary /\ posted'[r] # << >> => Head(posted'[r]) # "done"
    <3>1. CASE n = 0
      BY <1>1, <1>4, <3>1 DEF n
    <3>2. CASE n > 0
      <4>1. posted[r] # << >>
        BY <3>2 DEF n
      <4> QED  BY <1>0, <1>4, <3>2, <4>1 DEF DoneIsLast
    <3> QED  BY <1>1, <3>1, <3>2
  <2>4. /\ r \notin Streams => Len(posted'[r]) \in 0 .. 2
        /\ r \notin Streams /\ Len(posted'[r]) = 2 => posted'[r][2] = "done"
    BY <1>1, <1>4, <1>6 DEF n
  <2> QED  BY <2>1, <2>2, <2>3, <2>4 DEF DoneIsLast
<1>11. Listened'
  <2>1. ASSUME NEW q \in Streams, port'[q] = "closed"
        PROVE  exporter'[q] = "ended"
    BY <1>0, <1>1, <1>7, <2>1, RequestFacts DEF Listened
  <2>2. ASSUME NEW q \in Streams
        PROVE  FreedInOrder(container'[q])
    <3>1. CASE q # r
      BY <1>0, <1>3, <3>1, RequestFacts DEF Listened
    <3>2. CASE q = r
      <4>1. state = "queued"
        BY <1>0, <1>1, <3>2 DEF Listened, state
      <4>2. FreedInOrder(container[r])
        BY <1>0, <3>2 DEF Listened
      <4> QED  BY <1>1, <1>3, <3>2, <4>1, <4>2, FreedAppend
    <3> QED  BY <3>1, <3>2
  <2>3. ASSUME NEW q \in Requests \ Streams, port'[q] = "open"
        PROVE  \A i \in 1 .. Len(container'[q]) : container'[q][i] = "queued"
    <3>1. CASE q # r
      BY <1>0, <1>3, <2>3, <3>1 DEF Listened
    <3>2. CASE q = r
      BY <1>0, <1>1, <1>4, <2>3, <3>2 DEF Listened, state
    <3> QED  BY <3>1, <3>2
  <2>4. ASSUME NEW q \in Requests \ Streams, port'[q] = "closed"
        PROVE  /\ posted'[q] # << >>
               /\ \A i \in 1 .. Len(container'[q]) : container'[q][i] = "lost" => i = 2
    <3>1. CASE q # r
      BY <1>0, <1>3, <2>4, <3>1 DEF Listened
    <3>2. CASE q = r
      <4>1. posted[r] # << >> /\ r \notin Streams
        BY <1>0, <2>4, <3>2 DEF Listened
      <4>2. n = 1
        BY <1>1, <1>6, <4>1
      <4> QED  BY <1>0, <1>1, <1>4, <2>4, <3>2, <4>2 DEF Listened
    <3> QED  BY <3>1, <3>2
  <2> QED  BY <2>1, <2>2, <2>3, <2>4 DEF Listened
<1>12. OutcomeIsFirst'
  <2> SUFFICES ASSUME NEW q \in Requests \ Streams, port'[q] = "closed"
               PROVE  call[q] = Head(posted'[q]) /\ (q \in Unary => call[q] # "done")
    BY DEF OutcomeIsFirst
  <2>1. posted[q] # << >> /\ call[q] = Head(posted[q]) /\ (q \in Unary => call[q] # "done")
    BY <1>0 DEF Listened, OutcomeIsFirst
  <2>2. CASE q # r
    BY <1>3, <2>1, <2>2
  <2>3. CASE q = r
    <3>1. n > 0
      BY <1>1, <2>1, <2>3 DEF n
    <3> QED  BY <1>4, <2>1, <2>3, <3>1
  <2> QED  BY <2>2, <2>3
<1>13. OnlyLateDoneLost'
  <2> SUFFICES ASSUME NEW q \in Requests, NEW i \in 1 .. Len(container'[q]),
                      container'[q][i] = "lost"
               PROVE  q \notin Streams /\ i = 2 /\ posted'[q][i] = "done"
    BY DEF OnlyLateDoneLost
  <2>1. CASE q # r
    <3>1. container'[q] = container[q] /\ posted'[q] = posted[q]
      BY <1>3, <2>1
    <3>2. i \in 1 .. Len(container[q]) /\ container[q][i] = "lost"
      BY <3>1
    <3> QED  BY <1>0, <3>1, <3>2 DEF OnlyLateDoneLost
  <2>2. CASE q = r /\ i <= n
    <3>1. i \in 1 .. n
      BY <1>1, <1>4, <2>2
    <3>2. container[r][i] = "lost" /\ posted'[r][i] = posted[r][i]
      BY <1>4, <2>2, <3>1
    <3>3. i \in 1 .. Len(container[r])
      BY <1>1, <3>1
    <3> QED  BY <1>0, <2>2, <3>2, <3>3 DEF OnlyLateDoneLost
  <2>3. CASE q = r /\ i = n + 1
    <3>1. port[r] = "closed"
      BY <1>1, <1>4, <2>3 DEF state
    <3>2. r \notin Streams
      BY <1>0, <1>1, <3>1 DEF Listened
    <3>3. posted[r] # << >>
      BY <1>0, <3>1, <3>2 DEF Listened
    <3>4. n = 1
      BY <1>1, <1>6, <3>2, <3>3
    <3> QED  BY <1>4, <1>10, <2>3, <3>2, <3>4 DEF DoneIsLast
  <2> QED  BY <1>1, <1>4, <2>1, <2>2, <2>3
<1> QED  BY <1>0, <1>8, <1>9, <1>10, <1>11, <1>12, <1>13 DEF IInv, NeverFatal

\* The first message of a call that is not a stream completes it; a Done behind
\* it is lost.
LEMMA UnaryStep ==
  ASSUME IInv, NEW r \in Requests, OnUnary(r)
  PROVE  IInv'
<1>0. /\ TypeOK /\ Phases /\ DoneIsLast /\ Listened /\ OutcomeIsFirst
      /\ OnlyLateDoneLost /\ NeverFatal
  BY DEF IInv
<1> DEFINE n == Len(posted[r])
           freed == [container[r] EXCEPT ![1] = "freed"]
<1>1. /\ r \notin Streams /\ port[r] = "open" /\ call[r] = "posted"
      /\ posted[r] \in Seq(Kinds) /\ container[r] \in Seq({"queued", "freed", "lost"})
      /\ Len(container[r]) = n /\ n \in 0 .. 2
      /\ \A i \in 1 .. n : container[r][i] = "queued"
  BY <1>0 DEF OnUnary, TypeOK, Phases, DoneIsLast, Listened
<1>2. Queued(r) = 1 .. n /\ n \in 1 .. 2
  BY <1>1 DEF Queued, OnUnary
<1>3. Front(r) = 1
  <2>1. 1 \in Queued(r) /\ \A j \in Queued(r) : 1 <= j
    BY <1>2
  <2>2. Front(r) \in Queued(r) /\ \A j \in Queued(r) : Front(r) <= j
    BY <2>1 DEF Front
  <2> QED  BY <1>2, <2>1, <2>2
<1>4. posted[r] # << >> /\ posted[r][1] = Head(posted[r]) /\ posted[r][1] \in Kinds
  BY <1>1, <1>2
<1>5. /\ call' = [call EXCEPT ![r] = posted[r][1]]
      /\ port' = [port EXCEPT ![r] = "closed"]
      /\ container' = [container EXCEPT ![r] = Closed(r, freed)]
      /\ UNCHANGED <<engine, fatal, exporter, posted>>
  BY <1>3 DEF OnUnary, Content
<1>6. /\ Closed(r, freed) \in Seq({"queued", "freed", "lost"})
      /\ Len(Closed(r, freed)) = n
      /\ \A i \in 1 .. n : Closed(r, freed)[i] = "lost" => i = 2
  <2>1. /\ freed \in Seq({"queued", "freed", "lost"}) /\ Len(freed) = n
        /\ DOMAIN freed = 1 .. n /\ freed[1] = "freed"
    BY <1>1, <1>2
  <2> HIDE DEF freed
  <2>2. \A i \in 1 .. n : freed[i] \in {"queued", "freed", "lost"}
    BY <2>1
  <2>3. Closed(r,
  freed) = [i \in 1 .. n |-> IF freed[i] = "queued" THEN "lost" ELSE freed[i]]
    BY <2>1 DEF Closed
  <2>4. Closed(r, freed) \in [1 .. n -> {"queued", "freed", "lost"}]
    BY <2>2, <2>3
  <2>5. Closed(r, freed) \in Seq({"queued", "freed", "lost"}) /\ Len(Closed(r, freed)) = n
    BY <1>2, <2>4
  <2>6. \A i \in 1 .. n : Closed(r, freed)[i] = "lost" => i = 2
    <3>1. Closed(r, freed)[1] = "freed"
      BY <1>2, <2>1, <2>3
    <3>2. n = 1 \/ n = 2
      BY <1>2
    <3> HIDE DEF n
    <3>3. \A i \in 1 .. n : i = 1 \/ i = 2
      BY <3>2
    <3> QED  BY <3>1, <3>3
  <2> QED  BY <2>5, <2>6
<1> HIDE DEF freed, n
<1>7. TypeOK'
  <2>1. call' \in [Requests -> {"idle", "waiting", "posted", "garbage"} \cup Over]
    BY <1>0, <1>4, <1>5 DEF TypeOK, Over, Kinds
  <2>2. container' \in [Requests -> Seq({"queued", "freed", "lost"})]
    BY <1>0, <1>5, <1>6 DEF TypeOK
  <2>3. \A q \in Requests : Len(container'[q]) = Len(posted'[q])
    BY <1>0, <1>5, <1>6 DEF TypeOK, n
  <2>4. port' \in [Requests -> {"none", "open", "closed"}]
    BY <1>0, <1>5 DEF TypeOK
  <2> QED  BY <1>0, <1>5, <2>1, <2>2, <2>3, <2>4 DEF TypeOK
<1>8. Phases'
  BY <1>0, <1>1, <1>4, <1>5, RequestFacts DEF TypeOK, Phases, Kinds
<1>9. DoneIsLast' /\ NeverFatal'
  BY <1>0, <1>5 DEF DoneIsLast, NeverFatal
<1>10. /\ \A q \in Requests \ {r} : /\ container'[q] = container[q] /\ port'[q] = port[q]
                                   /\ call'[q] = call[q]
       /\ container'[r] = Closed(r, freed) /\ port'[r] = "closed" /\ call'[r] = posted[r][1]
  BY <1>0, <1>5 DEF TypeOK
<1>11. Listened'
  <2>1. ASSUME NEW q \in Streams
        PROVE  FreedInOrder(container'[q]) /\ (port'[q] = "closed" => exporter'[q] = "ended")
    BY <1>0, <1>1, <1>5, <1>10, RequestFacts DEF Listened
  <2>2. ASSUME NEW q \in Requests \ Streams
        PROVE  /\ port'[q] = "open" =>
                    \A i \in 1 .. Len(container'[q]) : container'[q][i] = "queued"
               /\ port'[q] = "closed" =>
                    /\ posted'[q] # << >>
                    /\ \A i \in 1 .. Len(container'[q]) : container'[q][i] = "lost" => i = 2
    <3>1. CASE q # r
      BY <1>0, <1>5, <1>10, <3>1 DEF Listened
    <3>2. CASE q = r
      BY <1>4, <1>5, <1>6, <1>10, <3>2
    <3> QED  BY <3>1, <3>2
  <2> QED  BY <2>1, <2>2 DEF Listened
<1>12. OutcomeIsFirst'
  BY <1>0, <1>4, <1>5, <1>10 DEF OutcomeIsFirst, DoneIsLast
<1>13. OnlyLateDoneLost'
  <2> SUFFICES ASSUME NEW q \in Requests, NEW i \in 1 .. Len(container'[q]),
                      container'[q][i] = "lost"
               PROVE  q \notin Streams /\ i = 2 /\ posted[q][i] = "done"
    BY <1>5 DEF OnlyLateDoneLost
  <2>1. CASE q # r
    BY <1>0, <1>10, <2>1 DEF OnlyLateDoneLost
  <2>2. CASE q = r
    <3>1. i \in 1 .. n /\ Closed(r, freed)[i] = "lost"
      BY <1>6, <1>10, <2>2
    <3>2. i = 2 /\ n = 2
      BY <1>2, <1>6, <3>1
    <3> QED  BY <1>0, <1>1, <2>2, <3>2 DEF DoneIsLast, n
  <2> QED  BY <2>1, <2>2
<1> QED  BY <1>7, <1>8, <1>9, <1>11, <1>12, <1>13 DEF IInv

\* A stream takes its front message; behind Done there is none.
LEMMA StreamStep ==
  ASSUME IInv, NEW r \in Requests, OnStream(r)
  PROVE  IInv'
<1>0. /\ TypeOK /\ Phases /\ DoneIsLast /\ Listened /\ OutcomeIsFirst
      /\ OnlyLateDoneLost /\ NeverFatal
  BY DEF IInv
<1> DEFINE n == Len(posted[r])
           f == Front(r)
           freed == [container[r] EXCEPT ![f] = "freed"]
           last == posted[r][f] = "done"
<1>1. /\ r \in Streams /\ port[r] = "open" /\ Queued(r) # {}
      /\ container[r] \in Seq({"queued", "freed", "lost"})
      /\ Len(container[r]) = n /\ n \in Nat
      /\ FreedInOrder(container[r])
  BY <1>0 DEF OnStream, TypeOK, Listened
<1>2. /\ f \in 1 .. n
      /\ \A i \in 1 .. n :
           IF i < f THEN container[r][i] = "freed" ELSE container[r][i] = "queued"
  BY <1>1, FreedFront
<1>3. /\ FreedInOrder(freed) /\ freed \in Seq({"queued", "freed", "lost"}) /\ Len(freed) = n
  BY <1>1, <1>2, FreedNext
<1>4. last => exporter[r] = "ended" /\ f = n
  BY <1>0, <1>2 DEF DoneIsLast
<1>5. last => Closed(r, freed) = freed
  <2> SUFFICES ASSUME last PROVE Closed(r, freed) = freed
    OBVIOUS
  <2>1. DOMAIN freed = 1 .. n /\ \A i \in 1 .. n : freed[i] = "freed"
    BY <1>1, <1>2, <1>4
  <2> HIDE DEF freed
  <2>2. Closed(r, freed) = [i \in 1 .. n |-> freed[i]]
    BY <2>1 DEF Closed
  <2> QED  BY <1>3, <2>1, <2>2
<1>6. /\ container' = [container EXCEPT ![r] = freed]
      /\ call' = [call EXCEPT ![r] = IF last /\ call[r] = "posted" THEN "done" ELSE call[r]]
      /\ port' = [port EXCEPT ![r] = IF last THEN "closed" ELSE port[r]]
      /\ UNCHANGED <<engine, fatal, exporter, posted>>
  BY <1>5 DEF OnStream, Content
<1> HIDE DEF freed, last, f, n
<1>7. /\ \A q \in Requests \ {r} : /\ container'[q] = container[q] /\ port'[q] = port[q]
                                   /\ call'[q] = call[q]
      /\ container'[r] = freed
      /\ port'[r] = IF last THEN "closed" ELSE "open"
      /\ \/ call'[r] = call[r]
         \/ call[r] = "posted" /\ call'[r] = "done"
  BY <1>0, <1>1, <1>6 DEF TypeOK
<1>8. TypeOK'
  <2>1. call' \in [Requests -> {"idle", "waiting", "posted", "garbage"} \cup Over]
    BY <1>0, <1>6 DEF TypeOK, Over
  <2>2. container' \in [Requests -> Seq({"queued", "freed", "lost"})]
    BY <1>0, <1>3, <1>6 DEF TypeOK
  <2>3. \A q \in Requests : Len(container'[q]) = Len(posted'[q])
    BY <1>0, <1>3, <1>6, <1>7 DEF TypeOK, n
  <2>4. port' \in [Requests -> {"none", "open", "closed"}]
    BY <1>0, <1>1, <1>6 DEF TypeOK
  <2> QED  BY <1>0, <1>6, <2>1, <2>2, <2>3, <2>4 DEF TypeOK
<1>9. Phases'
  BY <1>0, <1>1, <1>6, <1>7, RequestFacts DEF Phases
<1>10. DoneIsLast' /\ NeverFatal'
  BY <1>0, <1>6 DEF DoneIsLast, NeverFatal
<1>11. Listened'
  <2>1. ASSUME NEW q \in Streams
        PROVE  FreedInOrder(container'[q]) /\ (port'[q] = "closed" => exporter'[q] = "ended")
    <3>1. CASE q # r
      BY <1>0, <1>6, <1>7, <3>1, RequestFacts DEF Listened
    <3>2. CASE q = r
      BY <1>3, <1>4, <1>6, <1>7, <3>2
    <3> QED  BY <3>1, <3>2
  <2>2. ASSUME NEW q \in Requests \ Streams
        PROVE  /\ port'[q] = "open" =>
                    \A i \in 1 .. Len(container'[q]) : container'[q][i] = "queued"
               /\ port'[q] = "closed" =>
                    /\ posted'[q] # << >>
                    /\ \A i \in 1 .. Len(container'[q]) : container'[q][i] = "lost" => i = 2
    BY <1>0, <1>1, <1>6, <1>7 DEF Listened
  <2> QED  BY <2>1, <2>2 DEF Listened
<1>12. OutcomeIsFirst'
  BY <1>0, <1>1, <1>6, <1>7 DEF OutcomeIsFirst
<1>13. OnlyLateDoneLost'
  <2> SUFFICES ASSUME NEW q \in Requests, NEW i \in 1 .. Len(container'[q]),
                      container'[q][i] = "lost"
               PROVE  q \notin Streams /\ i = 2 /\ posted[q][i] = "done"
    BY <1>6 DEF OnlyLateDoneLost
  <2>1. CASE q # r
    BY <1>0, <1>7, <2>1 DEF OnlyLateDoneLost
  <2>2. CASE q = r
    <3>1. i \in 1 .. Len(freed) /\ freed[i] = "lost"
      BY <1>7, <2>2
    <3>2. freed[i] \in {"freed", "queued"}
      BY <1>3, <3>1 DEF FreedInOrder
    <3> QED  BY <3>1, <3>2
  <2> QED  BY <2>1, <2>2
<1> QED  BY <1>8, <1>9, <1>10, <1>11, <1>12, <1>13 DEF IInv

-----------------------------------------------------------------------------
(* The actions.                                                            *)

\* Init is sent first, and its answer decides: never for the fatal branch.
LEMMA StartSteps ==
  ASSUME IInv, InitializeDartAPI \/ InitReturns
  PROVE  IInv'
<1>0. TypeOK /\ Phases /\ NeverFatal /\ OutcomeIsFirst
  BY DEF IInv
<1>1. CASE InitializeDartAPI /\ engine' = "failed"
  <2>1. UNCHANGED <<call, port, exporter, posted, container>>
    BY <1>1 DEF InitializeDartAPI
  <2>2. fatal' = FALSE
    BY <1>0, <1>1 DEF InitializeDartAPI, NeverFatal, TypeOK
  <2> QED  BY <1>1, <2>1, <2>2, QuietStep
<1>2. CASE InitializeDartAPI /\ engine' = "initializing"
  <2>1. /\ call[Boot] = "idle" /\ Boot \in Requests /\ Send(Boot, call) /\ fatal' = fatal
        /\ engine' = "initializing"
    <3>1. engine = "loading" /\ Send(Boot, call) /\ fatal' = fatal
      BY <1>2 DEF InitializeDartAPI
    <3> QED  BY <1>0, <1>2, <3>1, RequestFacts DEF Phases
  <2> QED  BY <2>1, SendStep
<1>3. CASE InitReturns
  <2>1. Boot \in Requests \ Streams
    BY RequestFacts
  <2>2. port[Boot] = "closed"
    BY <1>0, <1>3, <2>1 DEF InitReturns, Phases, TypeOK
  <2>3. call[Boot] = Head(posted[Boot])
    BY <1>0, <2>1, <2>2 DEF OutcomeIsFirst
  <2>4. fatal' = FALSE
    BY <1>3, <2>3 DEF InitReturns
  <2>5. /\ engine' \in {"failed", "ready"}
        /\ UNCHANGED <<call, port, exporter, posted, container>>
    BY <1>3 DEF InitReturns
  <2> QED  BY <2>4, <2>5, QuietStep
<1> QED  BY <1>1, <1>2, <1>3 DEF InitializeDartAPI

\* A call waits for the engine, then is sent or gives up.
LEMMA WaitSteps ==
  ASSUME IInv, NEW r \in Requests, Begin(r) \/ Proceed(r) \/ WaitReadyTimesOut(r)
  PROVE  IInv'
<1>0. TypeOK /\ Phases /\ NeverFatal
  BY DEF IInv
<1>1. CASE Begin(r)
  BY <1>0, <1>1, QuietStep DEF Begin, NeverFatal, TypeOK
<1>2. CASE Proceed(r)
  BY <1>0, <1>2, SendStep DEF Proceed
<1>3. CASE WaitReadyTimesOut(r)
  <2>1. r \in Unary \cup Streams /\ call[r] = "waiting"
    BY <1>0, <1>3 DEF WaitReadyTimesOut, Phases
  <2> QED  BY <1>0, <1>3, <2>1, QuietStep DEF WaitReadyTimesOut, NeverFatal, TypeOK
<1> QED  BY <1>1, <1>2, <1>3

\* The Cancel of a stream is a request of its own.
LEMMA CancelStep ==
  ASSUME IInv, NEW r \in Requests, CancelStream(r)
  PROVE  IInv'
<1>0. TypeOK /\ Phases
  BY DEF IInv
<1> DEFINE calls == [call EXCEPT ![r] = IF call[r] = "posted" THEN "cancelled" ELSE call[r]]
<1>1. /\ r \in Streams /\ Stop[r] \in Requests /\ Stop[r] # r /\ call[Stop[r]] = "idle"
      /\ Send(Stop[r], calls) /\ UNCHANGED <<engine, fatal>>
  BY RequestFacts DEF CancelStream
<1>2. \/ calls = call
      \/ call[r] = "posted" /\ calls = [call EXCEPT ![r] = "cancelled"]
  BY <1>0 DEF TypeOK
<1>3. engine # "loading"
  BY <1>0 DEF CancelStream, Phases
<1> HIDE DEF calls
<1> QED  BY <1>0, <1>1, <1>2, <1>3, SendStep DEF TypeOK

\* Go posts a response or Done.
LEMMA AnswerStep ==
  ASSUME IInv, NEW r \in Requests, Answer(r)
  PROVE  IInv'
<1>0. TypeOK
  BY DEF IInv
<1>1. CASE PostDone(r)
  BY <1>1, PostStep DEF PostDone, Kinds
<1>2. ASSUME NEW kind \in {"value", "error"}, PostResponse(r, kind)
      PROVE  IInv'
  <2>1. /\ exporter[r] = "running" /\ Post(r, kind) /\ kind \in Kinds /\ kind # "done"
        /\ r \notin Streams => Len(posted[r]) < 1
        /\ UNCHANGED <<engine, fatal, call, port>>
    BY <1>2 DEF PostResponse, Kinds
  <2>2. \E e \in {"running", "finishing"} : exporter' = [exporter EXCEPT ![r] = e]
    BY <1>2 DEF PostResponse
  <2> QED  BY <2>1, <2>2, PostStep
<1> QED  BY <1>1, <1>2 DEF Answer

-----------------------------------------------------------------------------
(* Theorems.                                                               *)

\* Every step of the native bridge keeps its invariant.
LEMMA NativeStep ==
  ASSUME IInv, [Next]_vars
  PROVE  IInv'
<1>1. CASE InitializeDartAPI \/ InitReturns
  BY <1>1, StartSteps
<1>2. ASSUME NEW r \in Requests, Begin(r) \/ CancelStream(r) \/ Client(r) \/ Answer(r)
      PROVE  IInv'
  BY <1>2, WaitSteps, CancelStep, UnaryStep, StreamStep, AnswerStep DEF Client
<1>3. CASE UNCHANGED vars
  BY <1>3 DEF vars, IInv, TypeOK, Phases, DoneIsLast, Listened, OutcomeIsFirst,
              OnlyLateDoneLost, NeverFatal
<1> QED  BY <1>1, <1>2, <1>3 DEF Next

\* The inductive invariant of the native bridge holds for any number of calls.
THEOREM Invariance == Spec => []IInv
<1> QED  BY InitInv, NativeStep, PTL DEF Spec

\* A call that is not a stream ends with the first message Go posted for it
\* (Bridge.rpc), never with the Done that follows the response of a unary call.
THEOREM OutcomeIsFirstHolds == Spec => []OutcomeIsFirst
<1>1. IInv => OutcomeIsFirst
  BY DEF IInv
<1> QED  BY <1>1, Invariance, PTL

\* Of the containers Go allocates, only the Done of a call that its response
\* had completed is not freed by Dart; streams lose none.
THEOREM OnlyLateDoneLostHolds == Spec => []OnlyLateDoneLost
<1>1. IInv => OnlyLateDoneLost
  BY DEF IInv
<1> QED  BY <1>1, Invariance, PTL

\* A failed Init never makes the native bridge fatal (the branch of _init that
\* sets the flag sees only values).
THEOREM NeverFatalHolds == Spec => []NeverFatal
<1>1. IInv => NeverFatal
  BY DEF IInv
<1> QED  BY <1>1, Invariance, PTL

-----------------------------------------------------------------------------

Phase == {"idle", "waiting", "posted"} \cup Web!Over
Response == {"value", "error", "done"}

LEMMA WebRequestFacts ==
  /\ Unary \subseteq Web!Requests /\ Streams \subseteq Web!Requests /\ Boot \in Web!Requests
  /\ Boot \notin Unary \cup Streams
  /\ \A s \in Streams : Stop[s] \in Web!Requests \ Streams /\ Stop[s] # Boot
                        /\ Stop[s] \notin Unary
  /\ Unary \cap Streams = {}
<1> QED  BY RequestsDistinct DEF Web!Requests, Web!Cancels, Cancels

LEMMA TypeFacts ==
  ASSUME Web!TypeOK
  PROVE  /\ wCall \in [Web!Requests -> Phase] /\ messages \in [Web!Requests -> Seq(Response)]
         /\ wFatal \in BOOLEAN /\ ready \in BOOLEAN
         /\ pendingUnary \subseteq Web!Requests \ Streams /\ pendingStreams \subseteq Streams
BY DEF Web!TypeOK, Phase, Response

LEMMA WebInitInv == Web!Init => Web!IInv
<1> SUFFICES ASSUME Web!Init PROVE Web!IInv
  OBVIOUS
<1>1. Web!TypeOK
  <2>1. << >> \in Seq({"done", "fatal", "undefined"})
        /\ << >> \in Seq({"value", "error", "done"}) /\ 0 \in 0 .. MaxItems + 1
    BY MaxItemsAssumption
  <2>2. wCall \in [Web!Requests -> {"idle", "waiting", "posted"} \cup Web!Over]
    BY DEF Web!Init
  <2> QED  BY <2>1, <2>2 DEF Web!Init, Web!TypeOK
<1>2. Web!StartedOnce /\ Web!Phases
  BY WebRequestFacts DEF Web!Init, Web!StartedOnce, Web!Phases
<1>3. Web!PendingExact
  <2>1. \A q \in Web!Requests : wCall[q] # "posted"
    BY DEF Web!Init
  <2> QED  BY <2>1, WebRequestFacts DEF Web!Init, Web!PendingExact
<1> QED  BY <1>1, <1>2, <1>3 DEF Web!IInv

-----------------------------------------------------------------------------
(* The pending sets, action by action.                                     *)

\* The worker never touches what the page keeps.
LEMMA WorkerKeeps ==
  ASSUME Web!ScriptMissing \/ Web!RunWebWorker \/ Web!Die \/ Web!DieUnreported
         \/ \E r \in Web!Requests : Web!Answer(r)
  PROVE  UNCHANGED <<wCall, wFatal, ready, starting, pendingUnary, pendingStreams>>
BY DEF Web!ScriptMissing, Web!RunWebWorker, Web!Die, Web!DieUnreported, Web!Answer,
       Web!WorkerDone, Web!WorkerResponds,
       Web!Reply, Web!callState, Web!bootState

\* _markFatal fails all that is pending, once.
LEMMA MarkFatalPending ==
  ASSUME Web!IInv, Web!MarkFatal
  PROVE  /\ Web!PendingExact' /\ wCall' \in [Web!Requests -> Phase] /\ wFatal' = TRUE
         /\ pendingUnary' = {} /\ pendingStreams' = {}
         /\ \A q \in Web!Requests : wCall'[q] # wCall[q] => wCall[q] = "posted" /\ wCall'[q] = "error"
<1>0. Web!PendingExact /\ wCall \in [Web!Requests -> Phase] /\ wFatal \in BOOLEAN
      /\ pendingUnary \subseteq Web!Requests \ Streams /\ pendingStreams \subseteq Streams
  BY TypeFacts DEF Web!IInv
<1>1. /\ wCall' \in [Web!Requests -> Phase]
      /\ \A q \in Web!Requests : wCall'[q] = IF ~wFatal /\ q \in pendingUnary \cup pendingStreams
                                        THEN "error" ELSE wCall[q]
  BY <1>0 DEF Web!MarkFatal, Phase, Web!Over
<1>2. wFatal' = TRUE /\ pendingUnary' = {} /\ pendingStreams' = {}
  BY <1>0 DEF Web!MarkFatal, Web!PendingExact
<1>3. \A q \in Web!Requests : wCall[q] = "posted" <=> q \in pendingUnary \cup pendingStreams
  BY <1>0, WebRequestFacts DEF Web!PendingExact
<1>4. \A q \in Web!Requests : wCall'[q] # "posted"
  BY <1>0, <1>1, <1>3 DEF Web!PendingExact
<1>5. Web!PendingExact'
  BY <1>2, <1>4, WebRequestFacts DEF Web!PendingExact
<1> QED  BY <1>1, <1>2, <1>3, <1>5

\* A unary request is posted and noted, or it fails at once.
LEMMA PostUnaryPending ==
  ASSUME Web!IInv, NEW r \in Web!Requests \ Streams, NEW calls \in [Web!Requests -> Phase],
         Web!PostUnary(r, calls), wFatal' = wFatal, calls[r] # "posted",
         pendingUnary = {q \in Web!Requests \ Streams : calls[q] = "posted"},
         pendingStreams' = {q \in Streams : calls[q] = "posted"},
         pendingStreams' \subseteq pendingStreams
  PROVE  Web!PendingExact' /\ wCall' \in [Web!Requests -> Phase]
         /\ wCall'[r] \in {"posted",
         "error"} /\ \A q \in Web!Requests \ {r} : wCall'[q] = calls[q]
<1>0. Web!PendingExact /\ wFatal \in BOOLEAN
  BY TypeFacts DEF Web!IInv
<1>1. /\ wCall' \in [Web!Requests -> Phase]
      /\ wCall'[r] = IF wFatal THEN "error" ELSE "posted"
      /\ \A q \in Web!Requests \ {r} : wCall'[q] = calls[q]
  BY DEF Web!PostUnary, Phase, Web!Over
<1>2. pendingStreams' = {q \in Streams : wCall'[q] = "posted"}
  BY <1>1, WebRequestFacts
<1>3. pendingUnary' = {q \in Web!Requests \ Streams : wCall'[q] = "posted"}
  BY <1>1 DEF Web!PostUnary
<1>4. wFatal => pendingUnary' \cup pendingStreams' = {}
  BY <1>0 DEF Web!PostUnary, Web!PendingExact
<1> QED  BY <1>1, <1>2, <1>3, <1>4 DEF Web!PendingExact

\* Every other action of the page moves one request.
LEMMA OneMoves ==
  ASSUME Web!IInv, NEW r \in Web!Requests, NEW stage \in Phase, wFatal' = wFatal,
         wCall' = [wCall EXCEPT ![r] = stage],
         \/ /\ stage = "posted" /\ ~wFatal /\ r \in Streams /\ pendingUnary' = pendingUnary
            /\ pendingStreams' = pendingStreams \cup {r}
         \/ /\ stage # "posted" /\ r \in Streams /\ pendingUnary' = pendingUnary
            /\ pendingStreams' = pendingStreams \ {r}
         \/ /\ stage # "posted" /\ r \notin Streams /\ pendingStreams' = pendingStreams
            /\ pendingUnary' = pendingUnary \ {r}
         \/ /\ stage # "posted" /\ wCall[r] # "posted"
            /\ UNCHANGED <<pendingUnary, pendingStreams>>
  PROVE  Web!PendingExact' /\ wCall' \in [Web!Requests -> Phase]
<1>0. Web!PendingExact /\ wCall \in [Web!Requests -> Phase] /\ wFatal \in BOOLEAN
  BY TypeFacts DEF Web!IInv
<1>1. /\ wCall' \in [Web!Requests -> Phase] /\ wCall'[r] = stage
      /\ \A q \in Web!Requests \ {r} : wCall'[q] = wCall[q]
  BY <1>0
<1>2. pendingUnary' = {q \in Web!Requests \ Streams : wCall'[q] = "posted"}
  BY <1>0, <1>1 DEF Web!PendingExact
<1>3. pendingStreams' = {q \in Streams : wCall'[q] = "posted"}
  BY <1>0, <1>1, WebRequestFacts DEF Web!PendingExact
<1>4. wFatal' => pendingUnary' \cup pendingStreams' = {}
  BY <1>0 DEF Web!PendingExact
<1> QED  BY <1>1, <1>2, <1>3, <1>4 DEF Web!PendingExact

\* The page waits, posts a call and reads the answers.
LEMMA ClientPending ==
  ASSUME Web!IInv, NEW r \in Web!Requests, Web!Begin(r) \/ Web!Client(r)
  PROVE  Web!PendingExact' /\ wCall' \in [Web!Requests -> Phase]
<1>0. /\ Web!PendingExact /\ wCall \in [Web!Requests -> Phase] /\ wFatal \in BOOLEAN
      /\ messages \in [Web!Requests -> Seq(Response)]
  BY TypeFacts DEF Web!IInv
<1>1. CASE Web!Begin(r)
  <2>1. /\ wCall[r] = "idle" /\ wCall' = [wCall EXCEPT ![r] = "waiting"] /\ wFatal' = wFatal
        /\ UNCHANGED <<pendingUnary, pendingStreams>>
    BY <1>1 DEF Web!Begin, Web!bootState
  <2> QED  BY <2>1, OneMoves DEF Phase
<1>2. CASE Web!WaitReadyThrows(r)
  <2>1. /\ wCall[r] = "waiting" /\ wFatal' = wFatal
        /\ \E p \in {"error", "timeout"} : wCall' = [wCall EXCEPT ![r] = p]
        /\ UNCHANGED <<pendingUnary, pendingStreams>>
    BY <1>2 DEF Web!WaitReadyThrows, Web!bootState
  <2> QED  BY <2>1, OneMoves DEF Phase, Web!Over
<1>3. CASE Web!Proceed(r) /\ r \in Streams
  <2>1. /\ ~wFatal /\ wFatal' = wFatal /\ wCall' = [wCall EXCEPT ![r] = "posted"]
        /\ pendingStreams' = pendingStreams \cup {r} /\ pendingUnary' = pendingUnary
    BY <1>3 DEF Web!Proceed, Web!bootState
  <2> QED  BY <1>3, <2>1, OneMoves DEF Phase
<1>4. CASE Web!Proceed(r) /\ r \notin Streams
  <2>1. /\ wFatal' = wFatal /\ wCall[r] = "waiting" /\ Web!PostUnary(r, wCall)
        /\ pendingStreams' = pendingStreams
    BY <1>4 DEF Web!Proceed, Web!bootState
  <2>2. /\ pendingUnary = {q \in Web!Requests \ Streams : wCall[q] = "posted"}
        /\ pendingStreams' = {q \in Streams : wCall[q] = "posted"}
    BY <1>0, <2>1 DEF Web!PendingExact
  <2> QED  BY <1>0, <1>4, <2>1, <2>2, PostUnaryPending
<1>5. CASE Web!OnUnary(r)
  <2>1. /\ r \notin Streams /\ wFatal' = wFatal /\ pendingStreams' = pendingStreams
        /\ pendingUnary' = pendingUnary \ {r} /\ messages[r] # << >>
        /\ wCall' = [wCall EXCEPT ![r] = IF wCall[r] = "posted" THEN Head(messages[r])
                                       ELSE wCall[r]]
    BY <1>5 DEF Web!OnUnary, Web!TakeMessage, Web!bootState
  <2>2. Head(messages[r]) \in Response
    BY <1>0, <2>1
  <2>3. \E p \in Phase : p # "posted" /\ wCall' = [wCall EXCEPT ![r] = p]
    BY <1>0, <2>1, <2>2 DEF Phase, Web!Over, Response
  <2> QED  BY <2>1, <2>3, OneMoves
<1>6. CASE Web!OnStream(r)
  <2> DEFINE last == Head(messages[r]) = "done" /\ wCall[r] = "posted"
  <2>1. /\ r \in Streams /\ wFatal' = wFatal /\ pendingUnary' = pendingUnary
        /\ pendingStreams' = IF last THEN pendingStreams \ {r} ELSE pendingStreams
        /\ wCall' = [wCall EXCEPT ![r] = IF last THEN "done" ELSE wCall[r]]
    BY <1>6 DEF Web!OnStream, Web!bootState
  <2> HIDE DEF last
  <2>2. CASE last
    BY <2>1, <2>2, OneMoves DEF Phase, Web!Over
  <2>3. CASE ~last
    <3>1. wCall' = wCall /\ pendingStreams' = pendingStreams
      BY <1>0, <2>1, <2>3
    <3> QED  BY <1>0, <2>1, <3>1 DEF Web!PendingExact
  <2> QED  BY <2>2, <2>3
<1> QED  BY <1>1, <1>2, <1>3, <1>4, <1>5, <1>6 DEF Web!Client

\* A cancelled stream is no longer pending, its Cancel is.
LEMMA CancelPending ==
  ASSUME Web!IInv, NEW r \in Web!Requests, Web!CancelStream(r)
  PROVE  /\ Web!PendingExact' /\ wCall' \in [Web!Requests -> Phase]
         /\ wCall'[Stop[r]] \in {"posted", "error"} /\ wCall[Stop[r]] = "idle"
         /\ wCall'[r] = IF wCall[r] = "posted" THEN "cancelled" ELSE wCall[r]
         /\ \A q \in Web!Requests \ {r, Stop[r]} : wCall'[q] = wCall[q]
<1>0. Web!PendingExact /\ wCall \in [Web!Requests -> Phase] /\ wFatal \in BOOLEAN
  BY TypeFacts DEF Web!IInv
<1> DEFINE calls == [wCall EXCEPT ![r] = IF wCall[r] = "posted" THEN "cancelled" ELSE wCall[r]]
<1>1. /\ r \in Streams /\ Stop[r] \in Web!Requests \ Streams /\ wCall[Stop[r]] = "idle"
      /\ Web!PostUnary(Stop[r], calls) /\ wFatal' = wFatal
      /\ pendingStreams' = pendingStreams \ {r}
  BY WebRequestFacts DEF Web!CancelStream, Web!bootState
<1>2. /\ calls \in [Web!Requests -> Phase]
      /\ calls[r] = IF wCall[r] = "posted" THEN "cancelled" ELSE wCall[r]
      /\ \A q \in Web!Requests \ {r} : calls[q] = wCall[q]
  BY <1>0 DEF Phase, Web!Over
<1> HIDE DEF calls
<1>3. Stop[r] # r /\ calls[Stop[r]] # "posted"
  BY <1>1, <1>2
<1>4. pendingUnary = {q \in Web!Requests \ Streams : calls[q] = "posted"}
  BY <1>0, <1>1, <1>2 DEF Web!PendingExact
<1>5. pendingStreams' = {q \in Streams : calls[q] = "posted"}
  BY <1>0, <1>1, <1>2, WebRequestFacts DEF Web!PendingExact
<1>6. /\ Web!PendingExact' /\ wCall' \in [Web!Requests -> Phase]
      /\ wCall'[Stop[r]] \in {"posted", "error"}
      /\ \A q \in Web!Requests \ {Stop[r]} : wCall'[q] = calls[q]
  BY <1>1, <1>2, <1>3, <1>4, <1>5, PostUnaryPending
<1> QED  BY <1>1, <1>2, <1>3, <1>6

\* Init is a unary request.
LEMMA SendInitPending ==
  ASSUME Web!IInv, Web!SendInit
  PROVE  /\ Web!PendingExact' /\ wCall' \in [Web!Requests -> Phase]
         /\ wCall[Boot] = "idle" /\ \A q \in Web!Requests \ {Boot} : wCall'[q] = wCall[q]
<1>0. Web!PendingExact /\ wCall \in [Web!Requests -> Phase] /\ Web!StartedOnce
  BY TypeFacts DEF Web!IInv
<1>1. /\ wCall[Boot] = "idle" /\ Web!PostUnary(Boot, wCall) /\ wFatal' = wFatal
      /\ pendingStreams' = pendingStreams /\ Boot \in Web!Requests \ Streams
  BY <1>0, WebRequestFacts DEF Web!SendInit, Web!StartedOnce
<1>2. /\ pendingUnary = {q \in Web!Requests \ Streams : wCall[q] = "posted"}
      /\ pendingStreams' = {q \in Streams : wCall[q] = "posted"}
  BY <1>0, <1>1 DEF Web!PendingExact
<1> QED  BY <1>0, <1>1, <1>2, PostUnaryPending

-----------------------------------------------------------------------------
(* The reports of the worker.                                              *)

Report == {"done", "fatal", "undefined"}
NoDone(s) == \A i \in 1 .. Len(s) : s[i] # "done"
OneDone(s) == \A i, j \in 1 .. Len(s) : s[i] = "done" /\ s[j] = "done" => i = j

LEMMA ReportAppend ==
  ASSUME NEW s \in Seq(Report), NEW e \in Report
  PROVE  /\ Append(s, e) \in Seq(Report)
         /\ NoDone(s) => OneDone(Append(s, e))
         /\ e # "done" /\ NoDone(s) => NoDone(Append(s, e))
         /\ e # "done" /\ OneDone(s) => OneDone(Append(s, e))
<1> DEFINE t == Append(s, e)
<1>1. /\ t \in Seq(Report) /\ Len(s) \in Nat /\ Len(t) = Len(s) + 1 /\ t[Len(s) + 1] = e
      /\ \A i \in 1 .. Len(s) : t[i] = s[i]
  OBVIOUS
<1> HIDE DEF t
<1>2. \A i \in 1 .. Len(t) : i \in 1 .. Len(s) \/ i = Len(s) + 1
  BY <1>1
<1>3. NoDone(s) => OneDone(t)
  BY <1>1, <1>2 DEF NoDone, OneDone
<1>4. e # "done" /\ NoDone(s) => NoDone(t)
  BY <1>1, <1>2 DEF NoDone
<1>5. e # "done" /\ OneDone(s) => OneDone(t)
  BY <1>1, <1>2 DEF OneDone
<1> QED  BY <1>1, <1>3, <1>4, <1>5 DEF t

LEMMA ReportTwice ==
  ASSUME NEW s \in Seq(Report)
  PROVE  s \o << "fatal", "undefined" >> = Append(Append(s, "fatal"), "undefined")
BY DEF Report

LEMMA ReportTail ==
  ASSUME NEW s \in Seq(Report), s # << >>
  PROVE  /\ Tail(s) \in Seq(Report)
         /\ NoDone(s) => NoDone(Tail(s)) /\ Head(s) # "done"
         /\ OneDone(s) => OneDone(Tail(s))
         /\ OneDone(s) /\ Head(s) = "done" => NoDone(Tail(s))
<1> DEFINE t == Tail(s)
<1>1. /\ t \in Seq(Report) /\ Len(s) \in Nat \ {0} /\ Len(t) = Len(s) - 1
      /\ Head(s) = s[1] /\ \A i \in 1 .. Len(t) : t[i] = s[i + 1]
  OBVIOUS
<1> HIDE DEF t
<1>2. 1 \in 1 .. Len(s) /\ \A i \in 1 .. Len(t) : i + 1 \in 1 .. Len(s) /\ i + 1 # 1
  BY <1>1
<1>3. NoDone(s) => NoDone(t) /\ Head(s) # "done"
  BY <1>1, <1>2 DEF NoDone
<1>4. OneDone(s) => OneDone(t)
  <2> SUFFICES ASSUME OneDone(s), NEW i \in 1 .. Len(t), NEW j \in 1 .. Len(t),
                      t[i] = "done", t[j] = "done"
               PROVE  i = j
    BY DEF OneDone
  <2>1. i + 1 = j + 1
    BY <1>1, <1>2 DEF OneDone
  <2> QED  BY <2>1
<1>5. OneDone(s) /\ Head(s) = "done" => NoDone(t)
  <2> SUFFICES ASSUME OneDone(s), Head(s) = "done", NEW i \in 1 .. Len(t), t[i] = "done"
               PROVE  FALSE
    BY DEF NoDone
  <2>1. s[1] = "done" /\ s[i + 1] = "done"
    BY <1>1
  <2> QED  BY <1>2, <2>1 DEF OneDone
<1> QED  BY <1>1, <1>3, <1>4, <1>5 DEF t

LEMMA StartedIff ==
  Web!StartedOnce <=>
    /\ worker = "loading" => starting = "none"
    /\ worker = "loading" \/ starting # "none" => NoDone(reports)
    /\ OneDone(reports)
    /\ starting \in {"none", "key"} => wCall[Boot] = "idle"
BY DEF Web!StartedOnce, NoDone, OneDone

\* The phases of the start after a step that leaves it alone.
LEMMA PhasesKept ==
  ASSUME Web!IInv, UNCHANGED <<starting, ready>>,
         worker' = "loading" => worker = "loading",
         reports' \in Seq(Report), NoDone(reports) => NoDone(reports'),
         OneDone(reports) => OneDone(reports'),
         wCall[Boot] \in {"idle", "done"} => wCall'[Boot] = wCall[Boot],
         \A q \in Web!Requests : wCall'[q] = "waiting" =>
                               wCall[q] = "waiting" \/ q \in Unary \cup Streams
  PROVE  Web!StartedOnce' /\ Web!Phases'
<1>0. Web!StartedOnce /\ Web!Phases
  BY DEF Web!IInv
<1>1. Web!StartedOnce'
  <2>1. /\ worker' = "loading" => starting' = "none"
        /\ worker' = "loading" \/ starting' # "none" => NoDone(reports')
        /\ OneDone(reports')
        /\ starting' \in {"none", "key"} => wCall'[Boot] = "idle"
    BY <1>0, StartedIff
  <2> QED  BY <2>1 DEF Web!StartedOnce, NoDone, OneDone
<1>2. Web!Phases'
  BY <1>0 DEF Web!Phases
<1> QED  BY <1>1, <1>2

-----------------------------------------------------------------------------
(* The invariant, action by action.                                        *)

\* The types of what an action leaves besides the calls.
LEMMA TypeStep ==
  ASSUME Web!IInv, wCall' \in [Web!Requests -> Phase], Web!PendingExact',
         worker' \in {"loading", "running", "dead"},
         {incomplete', errorEvent', ready', wFatal', lastError'} \subseteq BOOLEAN,
         reports' \in Seq(Report), starting' \in {"none", "key", "init", "over"},
         messages' \in [Web!Requests -> Seq(Response)],
         answered' \in [Web!Requests -> 0 .. MaxItems + 1]
  PROVE  Web!TypeOK'
<1>1. pendingUnary' \subseteq Web!Requests \ Streams /\ pendingStreams' \subseteq Streams
  BY DEF Web!PendingExact
<1> QED  BY <1>1 DEF Web!TypeOK, Phase, Report, Response

LEMMA WorkerSteps ==
  ASSUME Web!IInv, Web!ScriptMissing \/ Web!RunWebWorker \/ Web!Die \/ Web!DieUnreported
  PROVE  Web!IInv'
<1>0. /\ Web!TypeOK /\ Web!StartedOnce /\ Web!Phases /\ Web!PendingExact
      /\ reports \in Seq(Report) /\ wCall \in [Web!Requests -> Phase]
      /\ messages \in [Web!Requests -> Seq(Response)]
  BY TypeFacts DEF Web!IInv, Web!TypeOK, Report
<1>1. UNCHANGED <<wCall, wFatal, ready, starting, pendingUnary, pendingStreams>>
  BY WorkerKeeps
<1>2. Web!PendingExact' /\ wCall' \in [Web!Requests -> Phase] /\ UNCHANGED <<messages,
     answered>>
  BY <1>0, <1>1 DEF Web!PendingExact, Web!ScriptMissing, Web!RunWebWorker, Web!Die,
                    Web!DieUnreported, Web!callState
<1>3. worker' \in {"loading", "running", "dead"} /\ incomplete' \in BOOLEAN
      /\ errorEvent' \in BOOLEAN /\ lastError' \in BOOLEAN
  BY <1>0 DEF Web!ScriptMissing, Web!RunWebWorker, Web!Die, Web!DieUnreported, Web!TypeOK
<1>4. CASE Web!RunWebWorker
  <2>1. worker = "loading" /\ worker' = "running" /\ reports' = Append(reports, "done")
    BY <1>4 DEF Web!RunWebWorker
  <2>2. NoDone(reports) /\ starting = "none" /\ wCall[Boot] = "idle"
    BY <1>0, <2>1, StartedIff
  <2>3. reports' \in Seq(Report) /\ OneDone(reports')
    BY <1>0, <2>1, <2>2, ReportAppend DEF Report
  <2>4. Web!StartedOnce'
    BY <1>1, <2>1, <2>2, <2>3 DEF Web!StartedOnce, OneDone
  <2>5. Web!Phases'
    BY <1>0, <1>1 DEF Web!Phases
  <2>6. Web!TypeOK'
    BY <1>0, <1>1, <1>2, <1>3, <2>3, TypeStep DEF Web!TypeOK
  <2> QED  BY <1>2, <2>4, <2>5, <2>6 DEF Web!IInv
<1>5. CASE Web!ScriptMissing \/ Web!Die \/ Web!DieUnreported
  <2>1. /\ worker' = "loading" => worker = "loading"
        /\ \/ reports' = Append(Append(reports, "fatal"), "undefined")
           \/ reports' = Append(reports, "fatal")
           \/ reports' = reports
    BY <1>0, <1>5, ReportTwice DEF Web!ScriptMissing, Web!Die, Web!DieUnreported
  <2>2. /\ reports' \in Seq(Report) /\ (NoDone(reports) => NoDone(reports'))
        /\ OneDone(reports) => OneDone(reports')
    <3>1. "fatal" \in Report \ {"done"} /\ "undefined" \in Report \ {"done"}
      BY DEF Report
    <3>2. /\ Append(reports, "fatal") \in Seq(Report)
          /\ NoDone(reports) => NoDone(Append(reports, "fatal"))
          /\ OneDone(reports) => OneDone(Append(reports, "fatal"))
      BY <1>0, <3>1, ReportAppend
    <3>3. /\ Append(Append(reports, "fatal"), "undefined") \in Seq(Report)
          /\ NoDone(reports) => NoDone(Append(Append(reports, "fatal"), "undefined"))
          /\ OneDone(reports) => OneDone(Append(Append(reports, "fatal"), "undefined"))
      BY <3>1, <3>2, ReportAppend
    <3> QED  BY <1>0, <2>1, <3>2, <3>3
  <2>3. Web!StartedOnce' /\ Web!Phases'
    BY <1>1, <2>1, <2>2, PhasesKept
  <2>4. Web!TypeOK'
    BY <1>0, <1>1, <1>2, <1>3, <2>2, TypeStep DEF Web!TypeOK
  <2> QED  BY <1>2, <2>3, <2>4 DEF Web!IInv
<1> QED  BY <1>4, <1>5

LEMMA FatalSteps ==
  ASSUME Web!IInv, Web!FetchSettles \/ Web!OnReport
  PROVE  Web!IInv'
<1>0. Web!TypeOK /\ reports \in Seq(Report)
  BY DEF Web!IInv, Web!TypeOK, Report
<1>1. /\ Web!PendingExact' /\ wCall' \in [Web!Requests -> Phase] /\ wFatal' = TRUE
      /\ \A q \in Web!Requests : wCall'[q] # wCall[q] => wCall[q] = "posted" /\ wCall'[q] = "error"
  BY MarkFatalPending DEF Web!FetchSettles, Web!OnReport
<1>2. /\ UNCHANGED <<worker, incomplete, starting, ready, lastError, messages, answered>>
      /\ errorEvent' \in BOOLEAN
      /\ reports' = reports \/ (reports # << >> /\ reports' = Tail(reports))
  BY <1>0 DEF Web!FetchSettles, Web!OnReport, Web!TypeOK
<1>3. /\ reports' \in Seq(Report) /\ (NoDone(reports) => NoDone(reports'))
      /\ OneDone(reports) => OneDone(reports')
  BY <1>0, <1>2, ReportTail
<1>4. Web!StartedOnce' /\ Web!Phases'
  BY <1>1, <1>2, <1>3, PhasesKept, WebRequestFacts
<1>5. Web!TypeOK'
  BY <1>0, <1>1, <1>2, <1>3, TypeStep, TypeFacts DEF Web!TypeOK
<1> QED  BY <1>1, <1>4, <1>5 DEF Web!IInv

LEMMA WebStartSteps ==
  ASSUME Web!IInv, Web!OnWorkerDone \/ Web!SendInit \/ Web!NoKey \/ Web!InitReturns
  PROVE  Web!IInv'
<1>0. /\ Web!TypeOK /\ Web!StartedOnce /\ Web!Phases /\ Web!PendingExact
      /\ reports \in Seq(Report) /\ wCall \in [Web!Requests -> Phase]
      /\ messages \in [Web!Requests -> Seq(Response)]
  BY TypeFacts DEF Web!IInv, Web!TypeOK, Report
<1>1. CASE Web!OnWorkerDone
  <2>1. /\ reports # << >> /\ Head(reports) = "done" /\ reports' = Tail(reports)
        /\ starting' = "key"
        /\ UNCHANGED <<worker, incomplete, errorEvent, ready, wFatal, lastError>>
        /\ UNCHANGED <<wCall, pendingUnary, pendingStreams, messages, answered>>
    BY <1>1 DEF Web!OnWorkerDone, Web!callState
  <2>2. OneDone(reports) /\ ~NoDone(reports)
    BY <1>0, <2>1, StartedIff, ReportTail
  <2>3. worker # "loading" /\ starting = "none" /\ wCall[Boot] = "idle"
    BY <1>0, <2>2, StartedIff
  <2>4. reports' \in Seq(Report) /\ NoDone(reports') /\ OneDone(reports')
    BY <1>0, <2>1, <2>2, ReportTail
  <2>5. Web!StartedOnce'
    BY <2>1, <2>3, <2>4 DEF Web!StartedOnce, NoDone, OneDone
  <2>6. Web!Phases' /\ Web!PendingExact'
    BY <1>0, <2>1, <2>3 DEF Web!Phases, Web!PendingExact
  <2>7. Web!TypeOK'
    BY <1>0, <2>1, <2>4, <2>6, TypeStep DEF Web!TypeOK
  <2> QED  BY <2>5, <2>6, <2>7 DEF Web!IInv
<1>2. CASE Web!SendInit
  <2>1. /\ Web!PendingExact' /\ wCall' \in [Web!Requests -> Phase]
        /\ wCall[Boot] = "idle" /\ \A q \in Web!Requests \ {Boot} : wCall'[q] = wCall[q]
    BY <1>2, SendInitPending
  <2>2. /\ starting = "key" /\ starting' = "init"
        /\ UNCHANGED <<worker, incomplete, errorEvent, reports, ready, wFatal, lastError,
                       pendingStreams, messages, answered>>
    BY <1>2 DEF Web!SendInit
  <2>3. Web!StartedOnce'
    BY <1>0, <2>2 DEF Web!StartedOnce
  <2>4. Web!Phases'
    <3>1. ~ready /\ \A q \in Web!Requests : wCall'[q] = "waiting" => q \in Unary \cup Streams
      <4>1. wCall'[Boot] \in {"posted", "error"}
        BY <1>0, <1>2, WebRequestFacts DEF Web!SendInit, Web!PostUnary
      <4> QED  BY <1>0, <2>1, <2>2, <4>1 DEF Web!Phases
    <3> QED  BY <2>2, <3>1 DEF Web!Phases
  <2>5. Web!TypeOK'
    BY <1>0, <2>1, <2>2, TypeStep DEF Web!TypeOK
  <2> QED  BY <2>1, <2>3, <2>4, <2>5 DEF Web!IInv
<1>3. CASE Web!NoKey \/ Web!InitReturns
  <2>1. /\ starting \in {"key", "init"} /\ starting' = "over"
        /\ ready' = ready \/ (ready' = TRUE /\ wCall[Boot] = "done")
        /\ lastError' \in BOOLEAN
        /\ UNCHANGED <<worker, incomplete, errorEvent, reports, wFatal>>
        /\ UNCHANGED <<wCall, pendingUnary, pendingStreams, messages, answered>>
    BY <1>0, <1>3 DEF Web!NoKey, Web!InitReturns, Web!MicrotaskQueued, Web!callState,
                      Web!TypeOK
  <2>2. Web!StartedOnce'
    BY <1>0, <2>1 DEF Web!StartedOnce
  <2>3. Web!Phases' /\ Web!PendingExact'
    BY <1>0, <2>1 DEF Web!Phases, Web!PendingExact
  <2>4. Web!TypeOK'
    BY <1>0, <2>1, <2>3, TypeStep DEF Web!TypeOK
  <2> QED  BY <2>2, <2>3, <2>4 DEF Web!IInv
<1> QED  BY <1>1, <1>2, <1>3

\* What the steps of one request do to its phase.
LEMMA ClientMoves ==
  ASSUME Web!IInv, NEW r \in Web!Requests, Web!Begin(r) \/ Web!Client(r)
  PROVE  /\ \A q \in Web!Requests \ {r} : wCall'[q] = wCall[q]
         /\ wCall'[r] # wCall[r] => wCall[r] \in {"idle", "waiting", "posted"}
         /\ wCall[r] = "idle" /\ wCall'[r] # wCall[r] => r \in Unary \cup Streams
         /\ wCall'[r] = "waiting" => wCall[r] = "waiting" \/ r \in Unary \cup Streams
<1>0. wCall \in [Web!Requests -> Phase] /\ messages \in [Web!Requests -> Seq(Response)]
  BY TypeFacts DEF Web!IInv
<1>1. CASE Web!Begin(r)
  BY <1>0, <1>1 DEF Web!Begin
<1>2. CASE Web!WaitReadyThrows(r)
  BY <1>0, <1>2 DEF Web!WaitReadyThrows
<1>3. CASE Web!Proceed(r)
  BY <1>0, <1>3 DEF Web!Proceed, Web!PostUnary
<1>4. CASE Web!OnUnary(r)
  <2>1. wCall[r] = "posted" => Head(messages[r]) \in Response
    BY <1>0, <1>4 DEF Web!OnUnary, Web!TakeMessage
  <2> QED  BY <1>0, <1>4, <2>1 DEF Web!OnUnary, Response
<1>5. CASE Web!OnStream(r)
  BY <1>0, <1>5 DEF Web!OnStream
<1> QED  BY <1>1, <1>2, <1>3, <1>4, <1>5 DEF Web!Client

LEMMA RequestSteps ==
  ASSUME Web!IInv, NEW r \in Web!Requests,
  Web!Begin(r) \/ Web!Client(r) \/ Web!CancelStream(r)
  PROVE  Web!IInv'
<1>0. /\ Web!TypeOK /\ Web!StartedOnce /\ Web!Phases /\ reports \in Seq(Report)
      /\ wCall \in [Web!Requests -> Phase] /\ messages \in [Web!Requests -> Seq(Response)]
      /\ answered \in [Web!Requests -> 0 .. MaxItems + 1]
  BY TypeFacts DEF Web!IInv, Web!TypeOK, Report
<1>1. Web!PendingExact' /\ wCall' \in [Web!Requests -> Phase]
  BY ClientPending, CancelPending
<1>2. UNCHANGED Web!bootState /\ answered' = answered
  BY DEF Web!Begin, Web!Client, Web!WaitReadyThrows, Web!Proceed, Web!OnUnary,
         Web!OnStream, Web!CancelStream
<1>3. UNCHANGED <<worker, incomplete, errorEvent, reports, starting, ready, wFatal,
     lastError>>
  BY <1>2 DEF Web!bootState
<1>4. messages' \in [Web!Requests -> Seq(Response)]
  <2>1. CASE messages' = messages
    BY <1>0, <2>1
  <2>2. CASE messages' = [messages EXCEPT ![r] = << >>]
    <3>1. << >> \in Seq(Response)
      OBVIOUS
    <3> QED  BY <1>0, <2>2, <3>1
  <2>3. CASE Web!TakeMessage(r)
    <3>1. Tail(messages[r]) \in Seq(Response)
      BY <1>0, <2>3 DEF Web!TakeMessage
    <3> QED  BY <1>0, <2>3, <3>1 DEF Web!TakeMessage
  <2> QED  BY <2>1, <2>2, <2>3 DEF Web!Begin, Web!Client, Web!WaitReadyThrows,
                                   Web!Proceed, Web!OnUnary,
                                   Web!OnStream, Web!CancelStream
<1>5. Web!TypeOK'
  BY <1>0, <1>1, <1>3, <1>4, <1>2, TypeStep DEF Web!TypeOK
<1>6. /\ wCall[Boot] \in {"idle", "done"} => wCall'[Boot] = wCall[Boot]
      /\ \A q \in Web!Requests : wCall'[q] = "waiting" =>
                               wCall[q] = "waiting" \/ q \in Unary \cup Streams
  <2>1. CASE Web!Begin(r) \/ Web!Client(r)
    BY <2>1, ClientMoves, WebRequestFacts
  <2>2. CASE Web!CancelStream(r)
    <3>1. /\ wCall'[Stop[r]] \in {"posted", "error"} /\ r \in Streams
          /\ wCall'[r] = IF wCall[r] = "posted" THEN "cancelled" ELSE wCall[r]
          /\ \A q \in Web!Requests \ {r, Stop[r]} : wCall'[q] = wCall[q]
      BY <2>2, CancelPending DEF Web!CancelStream
    <3> QED  BY <3>1, WebRequestFacts
  <2> QED  BY <2>1, <2>2
<1>7. Web!StartedOnce' /\ Web!Phases'
  BY <1>0, <1>3, <1>6, PhasesKept
<1> QED  BY <1>1, <1>5, <1>7 DEF Web!IInv

LEMMA AnswerSteps ==
  ASSUME Web!IInv, NEW r \in Web!Requests, Web!Answer(r)
  PROVE  Web!IInv'
<1>0. /\ Web!TypeOK /\ Web!PendingExact /\ reports \in Seq(Report) /\ wCall \in [Web!Requests -> Phase]
      /\ messages \in [Web!Requests -> Seq(Response)]
      /\ answered \in [Web!Requests -> 0 .. MaxItems + 1]
  BY TypeFacts DEF Web!IInv, Web!TypeOK, Report
<1>1. UNCHANGED <<Web!bootState, wCall, pendingUnary, pendingStreams>>
  BY DEF Web!Answer, Web!WorkerDone, Web!WorkerResponds
<1>2. UNCHANGED <<worker, incomplete, errorEvent, reports, starting, ready, wFatal,
     lastError>>
  BY <1>1 DEF Web!bootState
<1>3. messages' \in [Web!Requests -> Seq(Response)]
  <2>1. PICK kind \in Response : Web!Reply(r, kind)
    BY DEF Web!Answer, Web!WorkerDone, Web!WorkerResponds, Response
  <2>2. Append(messages[r], kind) \in Seq(Response)
    BY <1>0
  <2> QED  BY <1>0, <2>1, <2>2 DEF Web!Reply
<1>4. answered' \in [Web!Requests -> 0 .. MaxItems + 1]
  <2>1. CASE Web!WorkerDone(r)
    BY <1>0, <2>1, MaxItemsAssumption DEF Web!WorkerDone
  <2>2. ASSUME NEW kind \in {"value", "error"}, Web!WorkerResponds(r, kind)
        PROVE  answered' \in [Web!Requests -> 0 .. MaxItems + 1]
    <3>1. answered[r] + 1 \in 0 .. MaxItems + 1
      BY <1>0, <2>2, MaxItemsAssumption DEF Web!WorkerResponds, Web!Reply
    <3> QED  BY <1>0, <2>2, <3>1 DEF Web!WorkerResponds
  <2> QED  BY <2>1, <2>2 DEF Web!Answer
<1>5. Web!PendingExact'
  BY <1>0, <1>1, <1>2 DEF Web!PendingExact
<1>6. Web!TypeOK'
  BY <1>0, <1>1, <1>2, <1>3, <1>4, <1>5, TypeStep DEF Web!TypeOK
<1>7. Web!StartedOnce' /\ Web!Phases'
  BY <1>0, <1>1, <1>2, PhasesKept
<1> QED  BY <1>5, <1>6, <1>7 DEF Web!IInv

-----------------------------------------------------------------------------
(* Theorems.                                                               *)

\* Every step of the web bridge keeps its invariant.
LEMMA WebStep ==
  ASSUME Web!IInv, [Web!Next]_(Web!vars)
  PROVE  Web!IInv'
<1>1. CASE Web!ScriptMissing \/ Web!RunWebWorker \/ Web!Die \/ Web!DieUnreported
  BY <1>1, WorkerSteps
<1>2. CASE Web!InitReturns \/ Web!Event
  BY <1>2, WebStartSteps, FatalSteps DEF Web!Event
<1>3. ASSUME NEW r \in Web!Requests, Web!Begin(r) \/ Web!CancelStream(r)
     \/ Web!Client(r) \/ Web!Answer(r)
      PROVE  Web!IInv'
  BY <1>3, RequestSteps, AnswerSteps
<1>4. CASE UNCHANGED Web!vars
  BY <1>4 DEF Web!vars, Web!bootState, Web!callState, Web!IInv, Web!TypeOK,
              Web!StartedOnce, Web!Phases, Web!PendingExact
<1> QED  BY <1>1, <1>2, <1>3, <1>4 DEF Web!Next

\* The inductive invariant of the web bridge holds for any number of calls.
THEOREM WebInvariance == Web!Spec => []Web!IInv
<1> QED  BY WebInitInv, WebStep, PTL DEF Web!Spec

\* _pendingUnary and _pendingStreams hold exactly the requests that wait for
\* the worker, and are empty once the bridge is fatal.
THEOREM PendingExactHolds == Web!Spec => []Web!PendingExact
<1>1. Web!IInv => Web!PendingExact
  BY DEF Web!IInv
<1> QED  BY <1>1, WebInvariance, PTL

\* No step of the web bridge changes the outcome of a call.
LEMMA WebFinal ==
  ASSUME Web!IInv, [Web!Next]_(Web!vars)
  PROVE  [\A r \in Web!Requests : wCall[r] \in Web!Over => wCall'[r] = wCall[r]]_(Web!vars)
<1> SUFFICES ASSUME Web!Next, NEW q \in Web!Requests, wCall[q] \in Web!Over
             PROVE  wCall'[q] = wCall[q]
  OBVIOUS
<1>1. wCall[q] \notin {"idle", "waiting", "posted"}
  BY DEF Web!Over
<1>2. CASE Web!ScriptMissing \/ Web!RunWebWorker \/ Web!Die \/ Web!DieUnreported
           \/ \E r \in Web!Requests : Web!Answer(r)
  BY <1>2, WorkerKeeps
<1>3. CASE Web!FetchSettles \/ Web!OnReport
  BY <1>1, <1>3, MarkFatalPending DEF Web!FetchSettles, Web!OnReport
<1>4. CASE Web!OnWorkerDone \/ Web!NoKey \/ Web!InitReturns
  BY <1>4 DEF Web!OnWorkerDone, Web!NoKey, Web!InitReturns, Web!callState
<1>5. CASE Web!SendInit
  BY <1>1, <1>5, SendInitPending
<1>6. ASSUME NEW r \in Web!Requests, Web!Begin(r) \/ Web!Client(r)
      PROVE  wCall'[q] = wCall[q]
  BY <1>1, <1>6, ClientMoves
<1>7. ASSUME NEW r \in Web!Requests, Web!CancelStream(r)
      PROVE  wCall'[q] = wCall[q]
  BY <1>1, <1>7, CancelPending
<1> QED  BY <1>2, <1>3, <1>4, <1>5, <1>6, <1>7 DEF Web!Next, Web!Event

\* A call that is over keeps its outcome: an answer that was under way when the
\* worker died or the stream was cancelled does not complete it again.
THEOREM WebOutcomesFinalHolds == Web!Spec => Web!OutcomesFinal
<1> QED  BY WebFinal, WebInvariance, PTL DEF Web!Spec, Web!OutcomesFinal

-----------------------------------------------------------------------------
(* An application runs one of the two.                                     *)

\* A step of the application is one of its bridge, and the other rests.
LEMMA OneOfTwo ==
  ASSUME [MCNext]_<<platform, vars, page>>
  PROVE  [Next]_vars /\ [Web!Next]_(Web!vars)
<1>1. UNCHANGED page => UNCHANGED Web!vars
  BY DEF page, Web!vars, Web!bootState, Web!callState
<1> QED  BY <1>1 DEF MCNext

\* Whichever bridge the application loads, what that bridge keeps per request is
\* exact: natively a phase for each call, its port and its containers, on the web
\* the pending sets, which are empty once the worker is dead.
THEOREM BothInvariant == MCSpec => []PendingExact
<1>1. MCInit => PendingExact
  BY InitInv, WebInitInv DEF MCInit, PendingExact
<1>2. PendingExact /\ [MCNext]_<<platform, vars, page>> => PendingExact'
  BY OneOfTwo, NativeStep, WebStep DEF PendingExact
<1> QED  BY <1>1, <1>2, PTL DEF MCSpec

-----------------------------------------------------------------------------
(* The hot path: its messages.                                             *)

\* What scalarType says of a field it takes.
LEMMA ScalarFacts ==
  ASSUME NEW f, ScalarType(f) # Unsupported
  PROVE  /\ ScalarType(f).size \in {1, 4, 8}
         /\ ScalarType(f).goType = "bool" => ScalarType(f).size = 1
<1> DEFINE s == CHOOSE t \in Scalars : t[1] = f.kind
<1>1. \A t \in Scalars : t[3] \in {1, 4, 8} /\ (t[2] = "bool" => t[3] = 1)
  BY DEF Scalars
<1>2. (\E t \in Scalars : t[1] = f.kind) /\ ScalarType(f) = [goType |-> s[2], size |-> s[3]]
  BY DEF ScalarType
<1>3. s \in Scalars
  BY <1>2
<1> HIDE DEF s
<1> QED  BY <1>1, <1>2, <1>3

\* alignUp returns the first multiple of a that is not below x.
LEMMA Aligned ==
  ASSUME NEW x \in Nat, NEW a \in {1, 4, 8}
  PROVE  /\ AlignUp(x, a) \in Nat /\ AlignUp(x, a) % a = 0
         /\ AlignUp(x, a) - x \in 0 .. a - 1
<1>1. CASE a = 1
  BY <1>1 DEF AlignUp
<1>2. CASE a = 4
  BY <1>2 DEF AlignUp
<1>3. CASE a = 8
  BY <1>3 DEF AlignUp
<1> QED  BY <1>1, <1>2, <1>3

LEMMA SmallestNat ==
  ASSUME NEW T, T \subseteq Nat, T # {}
  PROVE  \E n \in T : \A m \in T : n =< m
<1>1. PICK n \in T : \A m \in T : ~(<<m, n>> \in OpToRel(<, Nat))
  BY NatLessThanWellFounded, WFMin
<1>2. \A m \in T : m \in Nat /\ ~(m < n)
  BY <1>1 DEF OpToRel
<1>3. n \in Nat
  OBVIOUS
<1> QED  BY <1>2, <1>3

-----------------------------------------------------------------------------
(* The offsets.  The loop of Compute has a solution for every number of    *)
(* fields, or there were a smallest for which it has none.                 *)

EndStep(g, fs, i) ==
  IF i = 0 THEN 0
  ELSE AlignUp(g[i - 1], ScalarType(fs[i]).size) + ScalarType(fs[i]).size
IsEnds(g, fs, n) == g = [i \in 0 .. n |-> EndStep(g, fs, i)]

LEMMA EndsExist ==
  ASSUME NEW fs, NEW n \in Nat
  PROVE  \E g : IsEnds(g, fs, n)
<1> DEFINE Bad == {m \in Nat : ~ \E g : IsEnds(g, fs, m)}
<1> SUFFICES ASSUME Bad # {} PROVE FALSE
  OBVIOUS
<1>1. PICK m \in Bad : \A k \in Bad : m =< k
  <2>1. Bad \subseteq Nat
    OBVIOUS
  <2> HIDE DEF Bad
  <2> QED  BY <2>1, SmallestNat
<1>2. m \in Nat /\ ~ \E g : IsEnds(g, fs, m)
  OBVIOUS
<1>3. m # 0
  <2> DEFINE e == [i \in 0 .. 0 |-> 0]
  <2>1. e = [i \in 0 .. 0 |-> EndStep(e, fs, i)]
    BY DEF EndStep
  <2> QED  BY <1>2, <2>1 DEF IsEnds
<1>4. m - 1 \in Nat /\ m - 1 \notin Bad
  <2>1. m - 1 \in Nat /\ ~(m =< m - 1)
    BY <1>2, <1>3
  <2> HIDE DEF Bad
  <2> QED  BY <1>1, <2>1
<1>5. PICK h : IsEnds(h, fs, m - 1)
  BY <1>4
<1> DEFINE g == [i \in 0 .. m |-> IF i = m THEN EndStep(h, fs, m) ELSE h[i]]
<1>6. ASSUME NEW i \in 0 .. m PROVE g[i] = EndStep(g, fs, i)
  <2>1. i # 0 => g[i - 1] = h[i - 1]
    <3>1. i # 0 => i - 1 \in 0 .. m /\ i - 1 # m
      BY <1>2
    <3> QED  BY <3>1
  <2>2. g[i] = IF i = m THEN EndStep(h, fs, m) ELSE h[i]
    OBVIOUS
  <2>3. i # m => h[i] = EndStep(h, fs, i)
    <3>1. i # m => i \in 0 .. m - 1
      BY <1>2
    <3> QED  BY <1>5, <3>1 DEF IsEnds
  <2> HIDE DEF g
  <2>4. EndStep(g, fs, i) = EndStep(h, fs, i)
    BY <2>1 DEF EndStep
  <2> QED  BY <2>2, <2>3, <2>4
<1>7. IsEnds(g, fs, m)
  <2>1. g = [i \in 0 .. m |-> g[i]]
    OBVIOUS
  <2> HIDE DEF g
  <2> QED  BY <1>6, <2>1 DEF IsEnds
<1> QED  BY <1>2, <1>7

LEMMA EndsFacts ==
  ASSUME NEW fs, NEW n \in Nat, Len(fs) = n,
         \A i \in 1 .. n : ScalarType(fs[i]).size \in {1, 4, 8}
  PROVE  /\ Ends(fs)[0] = 0
         /\ \A i \in 1 .. n : Ends(fs)[i] = AlignUp(Ends(fs)[i - 1], ScalarType(fs[i]).size)
                                            + ScalarType(fs[i]).size
         /\ \A i \in 0 .. n : Ends(fs)[i] \in Nat
<1> DEFINE g == Ends(fs)
<1>1. g = CHOOSE e : IsEnds(e, fs, n)
  BY DEF Ends, IsEnds, EndStep
<1> HIDE DEF g
<1>2. \A i \in 0 .. n : g[i] = EndStep(g, fs, i)
  <2>1. IsEnds(g, fs, n)
    BY <1>1, EndsExist
  <2> QED  BY <2>1 DEF IsEnds
<1>3. g[0] = 0
  BY <1>2 DEF EndStep
<1>4. \A i \in 1 .. n : g[i] = AlignUp(g[i - 1], ScalarType(fs[i]).size)
                               + ScalarType(fs[i]).size
  BY <1>2 DEF EndStep
<1> DEFINE Bad == {i \in 0 .. n : g[i] \notin Nat}
<1>5. Bad = {}
  <2> SUFFICES ASSUME Bad # {} PROVE FALSE
    OBVIOUS
  <2>1. PICK i \in Bad : \A j \in Bad : i =< j
    <3>1. Bad \subseteq Nat
      OBVIOUS
    <3> HIDE DEF Bad
    <3> QED  BY <3>1, SmallestNat
  <2>2. i \in 1 .. n
    BY <1>3
  <2>3. i - 1 \in 0 .. n /\ i - 1 \notin Bad
    <3>1. i - 1 \in 0 .. n /\ ~(i =< i - 1)
      BY <2>2
    <3> HIDE DEF Bad
    <3> QED  BY <2>1, <3>1
  <2>4. g[i - 1] \in Nat
    BY <2>3
  <2>5. AlignUp(g[i - 1], ScalarType(fs[i]).size) \in Nat
    BY <2>2, <2>4, Aligned
  <2>6. ScalarType(fs[i]).size \in Nat
    BY <2>2
  <2>7. g[i] \in Nat
    BY <1>4, <2>2, <2>5, <2>6
  <2> QED  BY <2>7
<1> QED  BY <1>3, <1>4, <1>5 DEF g

-----------------------------------------------------------------------------
(* The order of the fields.                                                *)

Descriptor(m) ==
  /\ m \in Seq([num : Nat, kind : STRING, shape : Shapes])
  /\ \A i, j \in DOMAIN m : m[i].num = m[j].num => i = j

LEMMA SeqFacts ==
  ASSUME NEW S, NEW s \in Seq(S)
  PROVE  Len(s) \in Nat /\ DOMAIN s = 1 .. Len(s) /\ \A i \in 1 .. Len(s) : s[i] \in S
OBVIOUS

LEMMA DescriptorFacts ==
  ASSUME NEW m, Descriptor(m)
  PROVE  /\ Len(m) \in Nat /\ DOMAIN m = 1 .. Len(m)
         /\ \A i \in 1 .. Len(m) : m[i].num \in Nat
<1> DEFINE S == [num : Nat, kind : STRING, shape : Shapes]
<1>1. m \in Seq(S) /\ \A f \in S : f.num \in Nat
  BY DEF Descriptor
<1> HIDE DEF S
<1> QED  BY <1>1, SeqFacts

\* Fields of different numbers can be put in the order of their numbers: the
\* place of a field is the number of those whose number is not above its own.
LEMMA OrderExists ==
  ASSUME NEW m, Descriptor(m)
  PROVE  \E fs \in [DOMAIN m -> Range(m)] :
           \A i, j \in DOMAIN m : i < j => fs[i].num < fs[j].num
<1> DEFINE n == Len(m)
           below(i) == {j \in 1 .. n : m[j].num =< m[i].num}
           rank == [i \in 1 .. n |-> Cardinality(below(i))]
<1>1. n \in Nat /\ DOMAIN m = 1 .. n /\ \A i \in 1 .. n : m[i].num \in Nat
  BY DescriptorFacts
<1>2. IsFiniteSet(1 .. n) /\ Cardinality(1 .. n) = n
  <2> HIDE DEF n
  <2> QED  BY <1>1, FS_Interval
<1>3. ASSUME NEW i \in 1 .. n
      PROVE  IsFiniteSet(below(i)) /\ rank[i] = Cardinality(below(i)) /\ rank[i] \in 1 .. n
  <2>1. below(i) \subseteq 1 .. n /\ i \in below(i)
    BY <1>1
  <2> HIDE DEF n
  <2>2. IsFiniteSet(below(i)) /\ Cardinality(below(i)) =< n
    BY <1>2, <2>1, FS_Subset
  <2>3. Cardinality(below(i)) \in Nat /\ Cardinality(below(i)) # 0
    BY <2>1, <2>2, FS_CardinalityType, FS_EmptySet
  <2>4. rank[i] = Cardinality(below(i))
    OBVIOUS
  <2> HIDE DEF rank, below
  <2> QED  BY <1>1, <2>2, <2>3, <2>4
<1>4. ASSUME NEW i \in 1 .. n, NEW j \in 1 .. n, m[i].num < m[j].num
      PROVE  rank[i] < rank[j]
  <2>1. below(i) \subseteq below(j) /\ j \in below(j) /\ j \notin below(i)
    BY <1>1, <1>4
  <2>2. IsFiniteSet(below(j))
    BY <1>3
  <2>3. Cardinality(below(i)) < Cardinality(below(j))
    <3> HIDE DEF below
    <3>1. below(i) # below(j)
      BY <2>1
    <3>2. /\ Cardinality(below(i)) =< Cardinality(below(j))
          /\ Cardinality(below(i)) # Cardinality(below(j))
      BY <2>1, <2>2, <3>1, FS_Subset
    <3>3. Cardinality(below(i)) \in Nat /\ Cardinality(below(j)) \in Nat
      BY <1>3, FS_CardinalityType
    <3> QED  BY <3>2, <3>3
  <2> HIDE DEF below, rank
  <2> QED  BY <1>3, <2>3
<1>5. \A i, j \in 1 .. n : rank[i] = rank[j] => i = j
  <2> SUFFICES ASSUME NEW i \in 1 .. n, NEW j \in 1 .. n, i # j PROVE rank[i] # rank[j]
    OBVIOUS
  <2> HIDE DEF rank, n, below
  <2>1. m[i].num < m[j].num \/ m[j].num < m[i].num
    BY <1>1 DEF Descriptor
  <2>2. rank[i] \in Int /\ rank[j] \in Int
    <3>1. rank[i] \in 1 .. n /\ rank[j] \in 1 .. n
      BY <1>3
    <3> QED  BY <1>1, <3>1
  <2> QED  BY <1>4, <2>1, <2>2
<1>6. rank \in [1 .. n -> 1 .. n]
  BY <1>3
<1> HIDE DEF rank, n
<1>7. rank \in Injection(1 .. n, 1 .. n)
  BY <1>5, <1>6 DEF Injection, IsInjective
<1>8. \A k \in 1 .. n : \E i \in 1 .. n : rank[i] = k
  BY <1>2, <1>7, FS_Injection DEF Surjection
<1> DEFINE at == [k \in 1 .. n |-> CHOOSE i \in 1 .. n : rank[i] = k]
           fs == [k \in 1 .. n |-> m[at[k]]]
<1>9. \A k \in 1 .. n : at[k] \in 1 .. n /\ rank[at[k]] = k
  BY <1>8
<1> HIDE DEF at
<1>10. fs \in [DOMAIN m -> Range(m)]
  BY <1>1, <1>9 DEF Range
<1>11. ASSUME NEW i \in 1 .. n, NEW j \in 1 .. n, i < j PROVE fs[i].num < fs[j].num
  <2>1. m[at[i]].num \in Nat /\ m[at[j]].num \in Nat
    BY <1>1, <1>9
  <2>2. ~(m[at[j]].num < m[at[i]].num)
    <3> SUFFICES ASSUME m[at[j]].num < m[at[i]].num PROVE FALSE
      OBVIOUS
    <3>1. /\ at[i] \in 1 .. n /\ rank[at[i]] = i /\ i \in Int
          /\ at[j] \in 1 .. n /\ rank[at[j]] = j /\ j \in Int
      BY <1>1, <1>9
    <3>2. rank[at[j]] < rank[at[i]]
      BY <1>4, <3>1
    <3> QED  BY <1>11, <3>1, <3>2
  <2>3. at[i] # at[j]
    BY <1>1, <1>9, <1>11
  <2>4. m[at[i]].num # m[at[j]].num
    BY <1>1, <1>9, <2>3 DEF Descriptor
  <2>5. fs[i] = m[at[i]] /\ fs[j] = m[at[j]]
    OBVIOUS
  <2> HIDE DEF fs
  <2> QED  BY <2>1, <2>2, <2>4, <2>5
<1> QED  BY <1>1, <1>10, <1>11

\* The order has every field, once.
LEMMA ByNumberFacts ==
  ASSUME NEW m, Descriptor(m)
  PROVE  /\ Len(m) \in Nat /\ DOMAIN m = 1 .. Len(m)
         /\ ByNumber(m) \in [1 .. Len(m) -> Range(m)] /\ Len(ByNumber(m)) = Len(m)
         /\ \A i, j \in 1 .. Len(m) : i < j => ByNumber(m)[i].num < ByNumber(m)[j].num
         /\ \A f \in Range(m) : f.num \in Nat /\ \E i \in 1 .. Len(m) : ByNumber(m)[i] = f
<1> DEFINE n == Len(m)
           fs == ByNumber(m)
<1>1. n \in Nat /\ DOMAIN m = 1 .. n /\ \A f \in Range(m) : f.num \in Nat
  BY DescriptorFacts DEF Range
<1>2. /\ fs \in [1 .. n -> Range(m)]
      /\ \A i, j \in 1 .. n : i < j => fs[i].num < fs[j].num
  BY <1>1, OrderExists DEF ByNumber
<1> HIDE DEF n, fs
<1>3. Len(fs) = n
  <2>1. fs \in Seq(Range(m)) /\ DOMAIN fs = 1 .. n
    BY <1>1, <1>2
  <2> QED  BY <1>1, <2>1
<1>4. fs \in Injection(1 .. n, Range(m))
  <2>1. ASSUME NEW i \in 1 .. n, NEW j \in 1 .. n, i # j PROVE fs[i] # fs[j]
    <3>1. fs[i].num < fs[j].num \/ fs[j].num < fs[i].num
      BY <1>1, <1>2, <2>1
    <3>2. fs[i].num \in Nat /\ fs[j].num \in Nat
      BY <1>1, <1>2
    <3> QED  BY <3>1, <3>2
  <2> QED  BY <1>2, <2>1 DEF Injection, IsInjective
<1>5. IsFiniteSet(1 .. n) /\ Cardinality(1 .. n) = n
  BY <1>1, FS_Interval
<1>6. m \in Surjection(1 .. n, Range(m)) /\ m \in Injection(1 .. n, Range(m))
  <2>1. m \in [1 .. n -> Range(m)]
    BY <1>1 DEF Descriptor, Range
  <2>2. \A i, j \in 1 .. n : m[i] = m[j] => i = j
    BY <1>1 DEF Descriptor
  <2> QED  BY <1>1, <2>1, <2>2 DEF Surjection, Injection, IsInjective, Range
<1>7. IsFiniteSet(Range(m)) /\ Cardinality(Range(m)) = n
  BY <1>5, <1>6, FS_Surjection
<1>8. fs \in Surjection(1 .. n, Range(m))
  BY <1>4, <1>5, <1>7, FS_Injection
<1> QED  BY <1>1, <1>2, <1>3, <1>8 DEF Surjection, n, fs

-----------------------------------------------------------------------------
(* The layout.                                                             *)

\* What the fields of a layout are, besides their places.
Proper(layout) ==
  /\ Len(layout.fields) \in Nat /\ DOMAIN layout.fields = 1 .. Len(layout.fields)
  /\ layout.size \in Nat
  /\ \A i \in 1 .. Len(layout.fields) :
       /\ layout.fields[i].offset \in Nat /\ layout.fields[i].size \in {1, 4, 8}
       /\ layout.fields[i].goType = "bool" => layout.fields[i].size = 1

LEMMA WidestFacts ==
  ASSUME NEW S, S \subseteq {1, 4, 8}
  PROVE  Max({1} \cup S) \in {1, 4, 8}
<1> DEFINE T == {1} \cup S
<1>1. T \subseteq {1, 4, 8} /\ 1 \in T
  OBVIOUS
<1> HIDE DEF T
<1>2. \E x \in T : \A y \in T : x >= y
  <2>1. CASE 8 \in T
    BY <1>1, <2>1
  <2>2. CASE 8 \notin T /\ 4 \in T
    BY <1>1, <2>2
  <2>3. CASE 8 \notin T /\ 4 \notin T
    BY <1>1, <2>3
  <2> QED  BY <2>1, <2>2, <2>3
<1>3. Max(T) \in T
  BY <1>2 DEF Max
<1> QED  BY <1>1, <1>3 DEF T

\* The layout of every message that can be packed is that of a C struct.
LEMMA ComputeCStruct ==
  ASSUME NEW m, Descriptor(m), Compute(m) # Unsupported
  PROVE  CStruct(m, Compute(m)) /\ Proper(Compute(m))
<1> DEFINE n == Len(m)
           fs == ByNumber(m)
           size(i) == ScalarType(fs[i]).size
           end == Ends(fs)
           F == [i \in 1 .. n |-> [desc |-> fs[i], offset |-> AlignUp(end[i - 1], size(i)),
                                   size |-> size(i), goType |-> ScalarType(fs[i]).goType]]
           widest == Max({1} \cup {size(i) : i \in 1 .. n})
           L == Compute(m)
<1>1. /\ n \in Nat /\ DOMAIN m = 1 .. n /\ fs \in [1 .. n -> Range(m)] /\ Len(fs) = n
      /\ \A i, j \in 1 .. n : i < j => fs[i].num < fs[j].num
      /\ \A f \in Range(m) : \E i \in 1 .. n : fs[i] = f
  BY ByNumberFacts
<1>2. ~ \E i \in DOMAIN m : ScalarType(m[i]) = Unsupported
  BY DEF Compute
<1>3. L = [fields |-> F, size |-> AlignUp(end[n], widest)]
  BY <1>1, <1>2 DEF Compute
<1>4. \A i \in 1 .. n : /\ size(i) \in {1, 4, 8}
                        /\ ScalarType(fs[i]).goType = "bool" => size(i) = 1
  <2> SUFFICES ASSUME NEW i \in 1 .. n PROVE ScalarType(fs[i]) # Unsupported
    BY ScalarFacts
  <2>1. \E j \in DOMAIN m : fs[i] = m[j]
    BY <1>1 DEF Range
  <2> QED  BY <1>2, <2>1
<1>5. /\ end[0] = 0 /\ \A i \in 0 .. n : end[i] \in Nat
      /\ \A i \in 1 .. n : end[i] = AlignUp(end[i - 1], size(i)) + size(i)
  BY <1>1, <1>4, EndsFacts
<1>6. widest \in {1, 4, 8}
  <2>1. {size(i) : i \in 1 .. n} \subseteq {1, 4, 8}
    BY <1>4
  <2> HIDE DEF size
  <2> QED  BY <2>1, WidestFacts
<1>7. \A i \in 1 .. n : F[i] = [desc |-> fs[i], offset |-> AlignUp(end[i - 1], size(i)),
                                size |-> size(i), goType |-> ScalarType(fs[i]).goType]
  OBVIOUS
<1>8. DOMAIN F = 1 .. n /\ Len(F) = n
  BY <1>1
<1> HIDE DEF n, fs, end, widest, F, L
<1>9. L.fields = F /\ L.size = AlignUp(end[n], widest)
  BY <1>3
<1>10. ASSUME NEW i \in 1 .. n
       PROVE  /\ F[i].desc = fs[i] /\ F[i].size = size(i)
              /\ F[i].offset = AlignUp(end[i - 1], size(i))
              /\ F[i].goType = ScalarType(fs[i]).goType
  <2>1. F[i] = [desc |-> fs[i], offset |-> AlignUp(end[i - 1], size(i)),
                size |-> size(i), goType |-> ScalarType(fs[i]).goType]
    BY <1>7
  <2> QED  BY <2>1
<1>11. ASSUME NEW i \in 1 .. n
       PROVE  /\ F[i].offset \in Nat /\ F[i].offset % F[i].size = 0
              /\ F[i].offset - end[i - 1] \in 0 .. F[i].size - 1
              /\ end[i] = F[i].offset + F[i].size
  <2>1. i - 1 \in 0 .. n
    BY <1>1
  <2>2. end[i - 1] \in Nat /\ size(i) \in {1, 4, 8}
    BY <1>4, <1>5, <2>1
  <2>3. F[i].size = size(i) /\ F[i].offset = AlignUp(end[i - 1], size(i))
    BY <1>10
  <2>4. end[i] = AlignUp(end[i - 1], size(i)) + size(i)
    BY <1>5
  <2> HIDE DEF size
  <2>5. /\ AlignUp(end[i - 1], size(i)) \in Nat
        /\ AlignUp(end[i - 1], size(i)) % size(i) = 0
        /\ AlignUp(end[i - 1], size(i)) - end[i - 1] \in 0 .. size(i) - 1
    BY <2>2, Aligned
  <2> QED  BY <2>3, <2>4, <2>5
<1>12. /\ L.size \in Nat /\ L.size % widest = 0 /\ L.size - end[n] \in 0 .. widest - 1
  <2>1. n \in 0 .. n
    BY <1>1
  <2>2. end[n] \in Nat
    BY <1>5, <2>1
  <2>3. /\ AlignUp(end[n], widest) \in Nat /\ AlignUp(end[n], widest) % widest = 0
        /\ AlignUp(end[n], widest) - end[n] \in 0 .. widest - 1
    BY <1>6, <2>2, Aligned
  <2> QED  BY <1>9, <2>3
<1>13. ASSUME NEW i \in 1 .. n
       PROVE  F[i].size \in {1, 4, 8} /\ (F[i].goType = "bool" => F[i].size = 1)
  BY <1>4, <1>10
<1>14. Proper(L)
  <2>1. \A i \in 1 .. n : F[i].offset \in Nat
    BY <1>11
  <2> QED  BY <1>1, <1>8, <1>9, <1>12, <1>13, <2>1 DEF Proper
<1>15. CStruct(m, L)
  <2> DEFINE e(i) == IF i = 0 THEN 0 ELSE F[i].offset + F[i].size
  <2>1. \A i \in 0 .. n : end[i] = e(i)
    <3> SUFFICES ASSUME NEW i \in 0 .. n PROVE end[i] = e(i)
      OBVIOUS
    <3>1. i = 0 \/ i \in 1 .. n
      BY <1>1
    <3>2. i \in 1 .. n => end[i] = F[i].offset + F[i].size /\ i # 0
      BY <1>1, <1>11
    <3> QED  BY <1>5, <3>1, <3>2
  <2>2. {F[i].desc : i \in DOMAIN F} = Range(m)
    <3>1. \A i \in 1 .. n : F[i].desc = fs[i]
      BY <1>10
    <3>2. {F[i].desc : i \in 1 .. n} = {fs[i] : i \in 1 .. n}
      BY <3>1
    <3>3. {fs[i] : i \in 1 .. n} = Range(m)
      BY <1>1
    <3> QED  BY <1>8, <3>2, <3>3
  <2>3. \A i, j \in DOMAIN F : i < j => F[i].desc.num < F[j].desc.num
    <3> SUFFICES ASSUME NEW i \in 1 .. n, NEW j \in 1 .. n, i < j
                 PROVE  F[i].desc.num < F[j].desc.num
      BY <1>8
    <3>1. F[i].desc = fs[i] /\ F[j].desc = fs[j]
      BY <1>10
    <3> QED  BY <1>1, <3>1
  <2>4. widest = Max({1} \cup {F[i].size : i \in DOMAIN F})
    <3>1. \A i \in 1 .. n : F[i].size = size(i)
      BY <1>10
    <3>2. {F[i].size : i \in 1 .. n} = {size(i) : i \in 1 .. n}
      BY <3>1
    <3> QED  BY <1>8, <3>2 DEF widest
  <2>5. \A i \in DOMAIN F : /\ F[i].offset % F[i].size = 0
                            /\ F[i].offset - e(i - 1) \in 0 .. F[i].size - 1
    <3> SUFFICES ASSUME NEW i \in 1 .. n
                 PROVE  /\ F[i].offset % F[i].size = 0
                        /\ F[i].offset - e(i - 1) \in 0 .. F[i].size - 1
      BY <1>8
    <3>1. i - 1 \in 0 .. n
      BY <1>1
    <3>2. end[i - 1] = e(i - 1)
      BY <2>1, <3>1
    <3> HIDE DEF e
    <3> QED  BY <1>11, <3>2
  <2>6. L.size % widest = 0 /\ L.size - e(n) \in 0 .. widest - 1
    <3>1. end[n] = e(n)
      BY <1>1, <2>1
    <3> HIDE DEF e
    <3> QED  BY <1>12, <3>1
  <2>7. Len(F) = Len(m)
    BY <1>8 DEF n
  <2>8. CStruct(m, L) <=>
          /\ Len(F) = Len(m) /\ {F[i].desc : i \in DOMAIN F} = Range(m)
          /\ \A i, j \in DOMAIN F : i < j => F[i].desc.num < F[j].desc.num
          /\ \A i \in DOMAIN F : /\ F[i].offset % F[i].size = 0
                                 /\ F[i].offset - e(i - 1) \in 0 .. (F[i].size - 1)
          /\ L.size % Max({1} \cup {F[i].size : i \in DOMAIN F}) = 0
          /\ L.size - e(Len(F)) \in 0 .. (Max({1} \cup {F[i].size : i \in DOMAIN F}) - 1)
    BY <1>9 DEF CStruct
  <2> HIDE DEF e
  <2> QED  BY <1>8, <2>2, <2>3, <2>4, <2>5, <2>6, <2>7, <2>8
<1> QED  BY <1>14, <1>15 DEF L

\* The fields of a C struct do not overlap and lie within its size.
LEMMA Disjoint ==
  ASSUME NEW m, NEW layout, CStruct(m, layout), Proper(layout)
  PROVE  /\ \A i, j \in 1 .. Len(layout.fields) :
              i < j => layout.fields[i].offset + layout.fields[i].size
                         =< layout.fields[j].offset
         /\ \A i \in 1 .. Len(layout.fields) :
              layout.fields[i].offset + layout.fields[i].size =< layout.size
<1> DEFINE F == layout.fields
           n == Len(F)
           end(i) == F[i].offset + F[i].size
           Bad == {j \in 1 .. n : \E i \in 1 .. n : i < j /\ ~(end(i) =< F[j].offset)}
<1>1. /\ n \in Nat /\ DOMAIN F = 1 .. n /\ layout.size \in Nat
      /\ \A i \in 1 .. n : /\ F[i].offset \in Nat
                           /\ end(i) \in Nat /\ F[i].offset < end(i)
  <2>1. /\ n \in Nat /\ DOMAIN F = 1 .. n /\ layout.size \in Nat
        /\ \A i \in 1 .. n : F[i].offset \in Nat /\ F[i].size \in {1, 4, 8}
    BY DEF Proper
  <2> HIDE DEF F, n
  <2> SUFFICES ASSUME NEW i \in 1 .. n
               PROVE  F[i].offset \in Nat /\ end(i) \in Nat /\ F[i].offset < end(i)
    BY <2>1
  <2>2. F[i].offset \in Nat /\ F[i].size \in Nat /\ 0 < F[i].size
    BY <2>1
  <2> QED  BY <2>2
<1>2. \A j \in 1 .. n : j # 1 => end(j - 1) =< F[j].offset
  <2> SUFFICES ASSUME NEW j \in 1 .. n, j # 1 PROVE end(j - 1) =< F[j].offset
    OBVIOUS
  <2>1. F[j].offset - end(j - 1) \in 0 .. F[j].size - 1
    <3>1. j \in DOMAIN F /\ j - 1 # 0
      BY <1>1
    <3> QED  BY <3>1 DEF CStruct
  <2>2. j - 1 \in 1 .. n
    BY <1>1
  <2>3. F[j].offset \in Nat /\ end(j - 1) \in Nat
    BY <1>1, <2>2
  <2> HIDE DEF end, F
  <2> QED  BY <2>1, <2>3
<1> HIDE DEF F, n, end
<1>3. Bad = {}
  <2> SUFFICES ASSUME Bad # {} PROVE FALSE
    OBVIOUS
  <2>1. PICK j \in Bad : \A k \in Bad : j =< k
    <3>1. Bad \subseteq Nat
      OBVIOUS
    <3> HIDE DEF Bad
    <3> QED  BY <3>1, SmallestNat
  <2>2. PICK i \in 1 .. n : i < j /\ ~(end(i) =< F[j].offset)
    OBVIOUS
  <2>3. j \in 1 .. n /\ j # 1 /\ j - 1 \in 1 .. n
    BY <1>1, <2>2
  <2>4. end(j - 1) =< F[j].offset
    BY <1>2, <2>3
  <2>5. j - 1 \notin Bad
    <3>1. ~(j =< j - 1)
      BY <1>1, <2>3
    <3> HIDE DEF Bad
    <3> QED  BY <2>1, <3>1
  <2>6. i = j - 1 \/ i < j - 1
    BY <1>1, <2>2, <2>3
  <2>7. CASE i = j - 1
    BY <2>2, <2>4, <2>7
  <2>8. CASE i < j - 1
    <3>1. end(i) =< F[j - 1].offset
      BY <2>3, <2>5, <2>8
    <3>2. /\ F[j - 1].offset \in Nat /\ end(j - 1) \in Nat /\ F[j - 1].offset < end(j - 1)
          /\ F[j].offset \in Nat /\ end(i) \in Nat
      BY <1>1, <2>3
    <3> QED  BY <2>2, <2>4, <3>1, <3>2
  <2> QED  BY <2>6, <2>7, <2>8
<1>4. ASSUME NEW i \in 1 .. n PROVE end(i) =< layout.size
  <2>1. n \in 1 .. n /\ n # 0 /\ (i = n \/ i < n)
    BY <1>1
  <2>2. layout.size - end(n) \in Nat
    <3>1. layout.size - end(n) \in 0 .. Max({1} \cup {F[k].size : k \in DOMAIN F}) - 1
      BY <2>1 DEF CStruct, F, n, end
    <3> QED  BY <3>1
  <2>3. end(n) =< layout.size
    BY <1>1, <2>1, <2>2
  <2>4. CASE i < n
    <3>1. end(i) =< F[n].offset
      BY <1>3, <2>1, <2>4
    <3>2. F[n].offset < end(n) /\ F[n].offset \in Nat /\ end(n) \in Nat /\ end(i) \in Nat
      BY <1>1, <2>1
    <3> QED  BY <1>1, <2>3, <3>1, <3>2
  <2> QED  BY <2>1, <2>3, <2>4
<1> QED  BY <1>3, <1>4 DEF F, n, end

-----------------------------------------------------------------------------
(* Packing and unpacking.                                                  *)

\* A value has as many bytes as its field, and they tell it from the other.
LEMMA BytesFacts ==
  ASSUME NEW f, f.size \in {1, 4, 8}, f.goType = "bool" => f.size = 1, NEW v, NEW w
  PROVE  /\ BytesOf(f, v) = [k \in 1 .. f.size |-> BytesOf(f, v)[k]]
         /\ BytesOf(f, v) = BytesOf(f, w) => v = w
<1>1. CASE f.goType = "bool"
  <2>1. BytesOf(f, v) = << << 0, v, 0 >> >> /\ BytesOf(f, w) = << << 0, w, 0 >> >>
    BY <1>1 DEF BytesOf
  <2>2. << << 0, v, 0 >> >> = [k \in 1 .. 1 |-> << << 0, v, 0 >> >>[k]]
    OBVIOUS
  <2> QED  BY <1>1, <2>1, <2>2
<1>2. CASE f.goType # "bool"
  <2>1. /\ BytesOf(f, v) = [k \in 1 .. f.size |-> << f.desc.num, v, k >>]
        /\ BytesOf(f, w) = [k \in 1 .. f.size |-> << f.desc.num, w, k >>]
    BY <1>2 DEF BytesOf
  <2>2. 1 \in 1 .. f.size
    OBVIOUS
  <2>3. BytesOf(f, v)[1] = << f.desc.num, v, 1 >> /\ BytesOf(f, w)[1] = << f.desc.num, w, 1 >>
    BY <2>1, <2>2
  <2>4. BytesOf(f, v) = [k \in 1 .. f.size |-> BytesOf(f, v)[k]]
    BY <2>1
  <2> QED  BY <2>3, <2>4
<1> QED  BY <1>1, <1>2

\* What is packed into an empty buffer is read back.
LEMMA PackedKept ==
  ASSUME NEW m, Descriptor(m), NEW layout, CStruct(m, layout), Proper(layout),
         NEW v \in Value(m)
  PROVE  Unpack(layout, Pack(layout, v, Zeroed(layout))) = v
<1> DEFINE F == layout.fields
           n == Len(F)
           end(i) == F[i].offset + F[i].size
           buf == Pack(layout, v, Zeroed(layout))
           nums == {F[i].desc.num : i \in DOMAIN F}
<1>1. /\ n \in Nat /\ DOMAIN F = 1 .. n /\ layout.size \in Nat
      /\ \A i \in 1 .. n : /\ F[i].offset \in Nat /\ F[i].size \in {1, 4, 8}
                           /\ F[i].goType = "bool" => F[i].size = 1
  BY DEF Proper
<1>2. /\ \A i, j \in 1 .. n : i < j => end(i) =< F[j].offset
      /\ \A i \in 1 .. n : end(i) =< layout.size
  BY Disjoint
<1>3. /\ {F[i].desc : i \in DOMAIN F} = Range(m)
      /\ \A i, j \in 1 .. n : i < j => F[i].desc.num < F[j].desc.num
  BY <1>1 DEF CStruct
<1>4. \A i \in 1 .. n : F[i].desc.num \in Nat
  <2>1. \A f \in Range(m) : f.num \in Nat
    BY DescriptorFacts DEF Range
  <2> QED  BY <1>1, <1>3, <2>1
<1>5. v \in [nums -> BOOLEAN]
  <2>1. nums = {m[i].num : i \in DOMAIN m}
    <3>1. nums = {f.num : f \in {F[i].desc : i \in DOMAIN F}}
      OBVIOUS
    <3>2. {m[i].num : i \in DOMAIN m} = {f.num : f \in Range(m)}
      BY DEF Range
    <3> HIDE DEF nums, F
    <3> QED  BY <1>3, <3>1, <3>2
  <2> HIDE DEF nums
  <2> QED  BY <2>1 DEF Value
<1> HIDE DEF F, n, end, buf
<1>6. ASSUME NEW k \in 1 .. n, NEW o \in F[k].offset .. F[k].offset + F[k].size - 1
      PROVE  At(layout, o) = {k} /\ o \in 0 .. layout.size - 1
  <2>1. \A i \in 1 .. n : /\ F[i].offset \in Nat /\ F[i].size \in Nat
                          /\ end(i) = F[i].offset + F[i].size
    <3> SUFFICES ASSUME NEW i \in 1 .. n
                 PROVE  /\ F[i].offset \in Nat /\ F[i].size \in Nat
                        /\ end(i) = F[i].offset + F[i].size
      OBVIOUS
    <3>1. F[i].offset \in Nat /\ F[i].size \in {1, 4, 8}
      BY <1>1
    <3> QED  BY <3>1 DEF end
  <2>2. ASSUME NEW i \in 1 .. n, i # k PROVE ~(o \in F[i].offset .. F[i].offset + F[i].size - 1)
    <3>1. i < k \/ k < i
      BY <1>1, <2>2
    <3>2. end(i) =< F[k].offset \/ end(k) =< F[i].offset
      BY <1>2, <3>1
    <3> QED  BY <2>1, <3>2
  <2>3. At(layout, o) = {i \in 1 .. n : o \in F[i].offset .. F[i].offset + F[i].size - 1}
    BY <1>1 DEF At, F
  <2>4. end(k) =< layout.size
    BY <1>2
  <2>5. o \in 0 .. layout.size - 1
    BY <1>1, <2>1, <2>4
  <2> QED  BY <2>2, <2>3, <2>5
<1>7. ASSUME NEW k \in 1 .. n PROVE ReadField(buf, F[k]) = v[F[k].desc.num]
  <2> DEFINE f == F[k]
             x == v[f.desc.num]
             bytes == [i \in 1 .. f.size |-> buf[f.offset + i - 1]]
  <2>1. f.offset \in Nat /\ f.size \in {1, 4, 8} /\ (f.goType = "bool" => f.size = 1)
    BY <1>1
  <2>2. x \in BOOLEAN
    BY <1>1, <1>5
  <2>3. ASSUME NEW i \in 1 .. f.size PROVE buf[f.offset + i - 1] = BytesOf(f, x)[i]
    <3> DEFINE o == f.offset + i - 1
    <3>1. o \in F[k].offset .. F[k].offset + F[k].size - 1 /\ o - f.offset + 1 = i
      BY <2>1
    <3> HIDE DEF o
    <3>2. At(layout, o) = {k} /\ o \in 0 .. layout.size - 1
      BY <1>6, <3>1
    <3>3. Max({k}) = k
      <4>1. k \in Nat
        BY <1>1
      <4> QED  BY <4>1 DEF Max
    <3>4. o \in DOMAIN Zeroed(layout)
      BY <3>2 DEF Zeroed
    <3>5. buf[o] = BytesOf(f, x)[o - f.offset + 1]
      BY <3>2, <3>3, <3>4 DEF buf, Pack, F
    <3> QED  BY <3>1, <3>5 DEF o
  <2> HIDE DEF f, x
  <2>4. bytes = BytesOf(f, x)
    <3>1. BytesOf(f, x) = [i \in 1 .. f.size |-> BytesOf(f, x)[i]]
      BY <2>1, BytesFacts
    <3> QED  BY <2>3, <3>1
  <2>5. ReadField(buf, f) = IF \E w \in BOOLEAN : BytesOf(f, w) = bytes
                            THEN CHOOSE w \in BOOLEAN : BytesOf(f, w) = bytes ELSE Nothing
    BY DEF ReadField
  <2> HIDE DEF bytes
  <2>6. \A w \in BOOLEAN : BytesOf(f, w) = bytes => w = x
    BY <2>1, <2>4, BytesFacts
  <2>7. ReadField(buf, f) = x
    BY <2>2, <2>4, <2>5, <2>6
  <2> QED  BY <2>7 DEF f, x
<1>8. ASSUME NEW q \in nums
      PROVE  ReadField(buf, CHOOSE f \in Range(F) : f.desc.num = q) = v[q]
  <2>1. PICK k \in 1 .. n : F[k].desc.num = q
    BY <1>1
  <2>2. \A f \in Range(F) : f.desc.num = q => f = F[k]
    <3> SUFFICES ASSUME NEW i \in 1 .. n, F[i].desc.num = q PROVE i = k
      BY <1>1 DEF Range
    <3> QED  BY <1>1, <1>3, <1>4, <2>1
  <2>3. F[k] \in Range(F)
    BY <1>1 DEF Range
  <2>4. (CHOOSE f \in Range(F) : f.desc.num = q) = F[k]
    BY <2>1, <2>2, <2>3
  <2> QED  BY <1>7, <2>1, <2>4
<1>9. Unpack(layout, buf) =
        [q \in nums |-> ReadField(buf, CHOOSE f \in Range(F) : f.desc.num = q)]
  BY DEF Unpack, F
<1> HIDE DEF nums
<1> QED  BY <1>5, <1>8, <1>9 DEF buf

-----------------------------------------------------------------------------
(* A hot call.                                                             *)

\* What is in the two buffers as long as the next reader has not read it.
HotInv ==
  /\ method \in Methods /\ args \in Value(method.input)
  /\ phase \in {"dart", "envelope", "go", "handler", "returned", "failed", "done"}
  /\ phase \in {"go", "handler", "returned", "done"} => method \in HotMethodsFor
  /\ phase = "go" =>
       reqBuf = Pack(Compute(method.input), args, Zeroed(Compute(method.input)))
  /\ phase \in {"handler", "returned", "done"} => req = args
  /\ phase = "handler" => respBuf = Zeroed(Compute(method.output))
  /\ phase = "returned" =>
       /\ answer \in Value(method.output)
       /\ respBuf = Pack(Compute(method.output), answer, Zeroed(Compute(method.output)))
  /\ phase = "done" => output = answer

\* Both messages of a hot method have a layout, and it keeps what is packed.
LEMMA HotMessages ==
  ASSUME NEW h \in HotMethodsFor, NEW m \in {h.input, h.output}
  PROVE  /\ CStruct(m, Compute(m))
         /\ \A v \in Value(m) : Unpack(Compute(m), Pack(Compute(m), v, Zeroed(Compute(m)))) = v
<1>1. h \in Methods /\ Compute(m) # Unsupported
  BY DEF HotMethodsFor
<1>2. Descriptor(m)
  BY <1>1, MethodsAssumption DEF Descriptor
<1>3. CStruct(m, Compute(m)) /\ Proper(Compute(m))
  BY <1>1, <1>2, ComputeCStruct
<1> QED  BY <1>2, <1>3, PackedKept

\* The generators agree on the hot methods.
LEMMA SameMethods == CollectHotMethods = HotMethodsFor
BY DEF CollectHotMethods, HotMethodsFor

LEMMA HotStep == HotInv /\ [HotNext]_hotVars => HotInv'
<1> SUFFICES ASSUME HotInv, [HotNext]_hotVars PROVE HotInv'
  OBVIOUS
<1>1. CASE CallEnvelope
  BY <1>1 DEF CallEnvelope, HotInv
<1>2. CASE CallHot
  BY <1>2 DEF CallHot, HotInv
<1>3. CASE HotRaw
  <2>1. phase = "go" /\ method \in CollectHotMethods
    BY <1>3, SameMethods DEF HotRaw, HotInv
  <2>2. Unpack(Compute(method.input), reqBuf) = args
    BY <2>1, HotMessages DEF HotInv
  <2>3. /\ respBuf' = Zeroed(Compute(method.output)) /\ phase' = "handler" /\ req' = args
        /\ UNCHANGED << method, args >>
    BY <1>3, <2>1, <2>2 DEF HotRaw
  <2> QED  BY <2>1, <2>3 DEF HotInv
<1>4. CASE HandlerFails
  BY <1>4 DEF HandlerFails, HotInv
<1>5. CASE HandlerAnswers
  <2>1. PICK v \in Value(method.output) :
          answer' = v /\ respBuf' = Pack(Compute(method.output), v, respBuf)
    BY <1>5 DEF HandlerAnswers
  <2>2. /\ phase = "handler" /\ phase' = "returned"
        /\ UNCHANGED << method, args, reqBuf, req, output >>
    BY <1>5 DEF HandlerAnswers
  <2> QED  BY <2>1, <2>2 DEF HotInv
<1>6. CASE ReadOutput
  <2>1. phase = "returned" /\ method \in HotMethodsFor /\ answer \in Value(method.output)
    BY <1>6 DEF ReadOutput, HotInv
  <2>2. Unpack(Compute(method.output), respBuf) = answer
    BY <2>1, HotMessages DEF HotInv
  <2>3. /\ output' = answer /\ phase' = "done"
        /\ UNCHANGED << method, args, reqBuf, req, answer, respBuf >>
    BY <1>6, <2>2 DEF ReadOutput
  <2> QED  BY <2>1, <2>3 DEF HotInv
<1>7. CASE UNCHANGED hotVars
  BY <1>7 DEF hotVars, HotInv
<1> QED  BY <1>1, <1>2, <1>3, <1>4, <1>5, <1>6, <1>7 DEF HotNext

\* As long as a buffer is not read, it holds what was packed into it, for any
\* methods.
THEOREM HotInvariance == HotSpec => []HotInv
<1>1. HotInit => HotInv
  BY DEF HotInit, HotInv
<1> QED  BY <1>1, HotStep, PTL DEF HotSpec

\* A hot call keeps what it carries, for messages of any number of fields: both
\* generators take the same methods, their messages have the layout of a C
\* struct, the handler sees the request, the caller gets the response.
THEOREM HotCallExactHolds == HotSpec => []HotCallExact
<1>1. HotInv => HotCallExact
  BY HotMessages, SameMethods DEF HotInv, HotCallExact
<1> QED  BY <1>1, HotInvariance, PTL
=============================================================================
