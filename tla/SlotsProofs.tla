---------------------------- MODULE SlotsProofs ----------------------------
(***************************************************************************)
(* What Slots promises for any teams, calls and limits.                    *)
(***************************************************************************)
EXTENDS Slots, FiniteSetTheorems, SequenceTheorems, TLAPS

-----------------------------------------------------------------------------
\* Types.

LEMMA TypeInit == Init => TypeOK
<1> SUFFICES ASSUME Init PROVE TypeOK
  OBVIOUS
<1>1. /\ queues \in [Teams -> Seq(Calls)]
      /\ order \in Seq(Teams) /\ Len(order) = 0
  BY EmptySeq DEF Init
<1>2. passed \in [Teams -> [Teams -> Nat]]
  BY DEF Init
<1>3. /\ call \in [Calls -> CallStates]
      /\ wakes \in [Calls -> Nat]
  BY DEF Init, CallStates
<1>4. /\ \A i, j \in 1..Len(order) : order[i] = order[j] => i = j
      /\ lastServed \in 0..Len(order)
  BY <1>1 DEF Init
<1>5. dispatching \in BOOLEAN
  BY DEF Init
<1>6. limit \in Limits /\ inUse \in Nat /\ now \in Nat /\ asleepUntil \in Nat
  BY DEF Init
<1> QED
  BY <1>1, <1>2, <1>3, <1>4, <1>5, <1>6 DEF TypeOK

\* What `know` leaves: every team once, the old ones where they were.
LEMMA OrderGrows ==
  ASSUME TypeOK, NEW c \in Calls, Enqueue(c)
  PROVE  /\ order' \in Seq(Teams)
         /\ \A i, j \in 1..Len(order') : order'[i] = order'[j] => i = j
         /\ Len(order) <= Len(order')
         /\ \A i \in 1..Len(order) : order'[i] = order[i]
         /\ \E i \in 1..Len(order') : order'[i] = TeamOf[c]
<1>1. TeamOf[c] \in Teams
  BY CallsAssumption
<1>2. CASE Known(TeamOf[c])
  <2>1. order' = order /\ Len(order) \in Nat
    BY <1>2, LenProperties DEF TypeOK, Enqueue
  <2> QED
    BY <1>2, <2>1 DEF TypeOK, Known
<1>3. CASE ~Known(TeamOf[c])
  <2>1. order' = Append(order, TeamOf[c])
    BY <1>3 DEF Enqueue
  <2>2. /\ order' \in Seq(Teams)
        /\ Len(order') = Len(order) + 1
        /\ \A i \in 1..Len(order) : order'[i] = order[i]
        /\ order'[Len(order) + 1] = TeamOf[c]
    BY <1>1, <2>1, AppendProperties DEF TypeOK
  <2>3. Len(order) \in Nat
    BY LenProperties DEF TypeOK
  <2>4. ASSUME NEW i \in 1..Len(order'), NEW j \in 1..Len(order'),
               order'[i] = order'[j]
        PROVE  i = j
    <3>1. \A k \in 1..Len(order) : order[k] # TeamOf[c]
      BY <1>3 DEF Known
    <3>2. i \in 1..Len(order) \/ i = Len(order) + 1
      BY <2>2, <2>3
    <3>3. j \in 1..Len(order) \/ j = Len(order) + 1
      BY <2>2, <2>3
    <3>4. CASE i \in 1..Len(order) /\ j \in 1..Len(order)
      <4>1. order[i] = order[j]
        BY <2>2, <2>4, <3>4
      <4> QED
        BY <3>4, <4>1 DEF TypeOK
    <3> QED
      BY <2>2, <2>4, <3>1, <3>2, <3>3, <3>4
  <2> QED
    BY <2>2, <2>3, <2>4
<1> QED
  BY <1>2, <1>3

\* The queue of the team that is served is not empty, and loses its head.
LEMMA QueueShrinks ==
  ASSUME TypeOK, NEW i \in WaitingTeams
  PROVE  /\ i \in 1..Len(order)
         /\ order[i] \in Teams
         /\ queues[order[i]] \in Seq(Calls)
         /\ queues[order[i]] # <<>>
         /\ Head(queues[order[i]]) \in Calls
         /\ Head(queues[order[i]]) = queues[order[i]][1]
         /\ Tail(queues[order[i]]) \in Seq(Calls)
         /\ Len(Tail(queues[order[i]])) = Len(queues[order[i]]) - 1
         /\ \A k \in 1..Len(Tail(queues[order[i]])) :
              Tail(queues[order[i]])[k] = queues[order[i]][k + 1]
<1>1. /\ i \in 1..Len(order)
      /\ queues[order[i]] # <<>>
  BY DEF WaitingTeams
<1>2. order[i] \in Teams
  BY <1>1, ElementOfSeq DEF TypeOK
<1>3. queues[order[i]] \in Seq(Calls)
  BY <1>2 DEF TypeOK
<1> QED
  BY <1>1, <1>2, <1>3, HeadTailProperties

LEMMA TypeNext == TypeOK /\ [Next]_vars => TypeOK'
<1> SUFFICES ASSUME TypeOK, [Next]_vars
             PROVE  TypeOK'
  OBVIOUS
<1>1. ASSUME NEW c \in Calls, Look(c)
      PROVE  TypeOK'
  BY <1>1 DEF Look, Becomes, TypeOK, CallStates, placeVars, clockVars
<1>2. ASSUME NEW c \in Calls, Enqueue(c)
      PROVE  TypeOK'
  <2>1. TeamOf[c] \in Teams
    BY CallsAssumption
  <2>2. Append(queues[TeamOf[c]], c) \in Seq(Calls)
    BY <2>1, AppendProperties DEF TypeOK
  <2>3. queues' \in [Teams -> Seq(Calls)]
    BY <1>2, <2>1, <2>2 DEF Enqueue, TypeOK
  <2>4. /\ order' \in Seq(Teams)
        /\ \A i, j \in 1..Len(order') : order'[i] = order'[j] => i = j
        /\ Len(order) <= Len(order')
    BY <1>2, OrderGrows
  <2>5. lastServed' \in 0..Len(order')
    BY <1>2, <2>4, LenProperties DEF Enqueue, TypeOK
  <2> QED
    BY <1>2, <2>3, <2>4, <2>5
       DEF Enqueue, Becomes, TypeOK, CallStates, clockVars
<1>3. ASSUME NEW c \in Calls, Receive(c) \/ GiveUp(c)
      PROVE  TypeOK'
  BY <1>3 DEF Receive, GiveUp, Becomes, TypeOK, CallStates, placeVars, clockVars
<1>4. ASSUME NEW c \in Calls, Return(c)
      PROVE  TypeOK'
  BY <1>4 DEF Return, Becomes, TypeOK, CallStates, clockVars
<1>5. ASSUME NEW c \in Calls, NEW until \in 1..MaxTime, EndRefused(c, until)
      PROVE  TypeOK'
  BY <1>5, TimeAssumption
     DEF EndRefused, Becomes, TypeOK, CallStates, placeVars
<1>6. ASSUME NEW i \in WaitingTeams, Serve(i)
      PROVE  TypeOK'
  <2> DEFINE c == Head(queues[order[i]])
  <2>1. /\ i \in 1..Len(order)
        /\ order[i] \in Teams
        /\ c \in Calls
        /\ Tail(queues[order[i]]) \in Seq(Calls)
    BY QueueShrinks
  <2>2. queues' = [queues EXCEPT ![order[i]] = Tail(@)]
    BY <1>6 DEF Serve
  <2>3. queues' \in [Teams -> Seq(Calls)]
    BY <2>1, <2>2 DEF TypeOK
  <2>4. /\ inUse' \in Nat
        /\ call' \in [Calls -> CallStates]
    <3>1. \/ inUse' = inUse + 1 /\ call' = [call EXCEPT ![c] = "given"]
          \/ inUse' = inUse /\ call' = call
      BY <1>6 DEF Serve, Becomes
    <3>2. inUse \in Nat /\ call \in [Calls -> CallStates]
      BY DEF TypeOK
    <3>3. "given" \in CallStates
      BY DEF CallStates
    <3> HIDE DEF c
    <3> QED
      BY <2>1, <3>1, <3>2, <3>3
  <2>5. passed' \in [Teams -> [Teams -> Nat]]
    <3>1. passed' = [t \in Teams |->
                       IF t = order[i] THEN [u \in Teams |-> 0]
                       ELSE [passed[t] EXCEPT ![order[i]] =
                               IF queues[t] # <<>> THEN @ + 1 ELSE @]]
      BY <1>6 DEF Serve
    <3>2. ASSUME NEW t \in Teams
          PROVE  [passed[t] EXCEPT ![order[i]] =
                    IF queues[t] # <<>> THEN @ + 1 ELSE @] \in [Teams -> Nat]
      <4>1. passed[t] \in [Teams -> Nat]
        BY DEF TypeOK
      <4>2. passed[t][order[i]] \in Nat
        BY <2>1, <4>1
      <4> QED
        BY <2>1, <4>1, <4>2
    <3> QED
      BY <3>1, <3>2
  <2>6. lastServed' \in 0..Len(order) /\ order' = order
    BY <1>6, <2>1 DEF Serve
  <2> QED
    BY <1>6, <2>3, <2>4, <2>5, <2>6 DEF Serve, TypeOK, clockVars
<1>7. CASE Release
  BY <1>7 DEF Release, TypeOK, placeVars, clockVars
<1>8. ASSUME NEW l \in Limits, SetLimit(l)
      PROVE  TypeOK'
  BY <1>8 DEF SetLimit, TypeOK, clockVars
<1>9. CASE Pass
  BY <1>9 DEF Pass, TypeOK, placeVars
<1>10. CASE UNCHANGED vars
  BY <1>10 DEF vars, TypeOK, placeVars, clockVars
<1> QED
  BY <1>1, <1>2, <1>3, <1>4, <1>5, <1>6, <1>7, <1>8, <1>9, <1>10
     DEF Next, CallStep, Dispatch

\* Every state of the places has its type: in particular `order` names every
\* team once, and the team served last is one of it.
THEOREM TypeCorrect == Spec => []TypeOK
  BY TypeInit, TypeNext, PTL DEF Spec

-----------------------------------------------------------------------------
\* The places held.

LEMMA HoldingFinite == IsFiniteSet(Holding)
  BY CallsAssumption, FS_Subset, Holding \subseteq Calls DEF Holding

LEMMA CountedNext == TypeOK /\ PlacesCounted /\ [Next]_vars => PlacesCounted'
<1> SUFFICES ASSUME TypeOK, PlacesCounted, [Next]_vars
             PROVE  PlacesCounted'
  OBVIOUS
<1>1. CASE inUse' = inUse /\ Holding' = Holding
  BY <1>1 DEF PlacesCounted
<1>2. ASSUME NEW c \in Calls, Look(c)
      PROVE  inUse' = inUse /\ Holding' = Holding
  BY <1>2 DEF Look, Becomes, Holding, TypeOK, placeVars
<1>3. ASSUME NEW c \in Calls, Enqueue(c)
      PROVE  inUse' = inUse /\ Holding' = Holding
  BY <1>3 DEF Enqueue, Becomes, Holding, TypeOK
<1>4. ASSUME NEW c \in Calls, Receive(c) \/ GiveUp(c)
      PROVE  inUse' = inUse /\ Holding' = Holding
  BY <1>4 DEF Receive, GiveUp, Becomes, Holding, TypeOK, placeVars
<1>5. ASSUME NEW c \in Calls, Return(c)
      PROVE  PlacesCounted'
  <2>1. c \in Holding
    BY <1>5 DEF Return, Holding
  <2>2. Holding' = Holding \ {c}
    BY <1>5 DEF Return, Becomes, Holding, TypeOK
  <2>3. Cardinality(Holding') = Cardinality(Holding) - 1
    BY <2>1, <2>2, HoldingFinite, FS_RemoveElement
  <2>4. Cardinality(Holding) # 0
    BY <2>1, HoldingFinite, FS_EmptySet
  <2> QED
    BY <1>5, <2>3, <2>4 DEF Return, PlacesCounted, TypeOK
<1>6. ASSUME NEW c \in Calls, NEW until \in 1..MaxTime, EndRefused(c, until)
      PROVE  inUse' = inUse /\ Holding' = Holding
  BY <1>6 DEF EndRefused, Becomes, Holding, TypeOK, placeVars
<1>7. ASSUME NEW i \in WaitingTeams, Serve(i)
      PROVE  PlacesCounted'
  <2> DEFINE c == Head(queues[order[i]])
  <2>1. c \in Calls
    BY QueueShrinks
  <2>2. CASE call[c] # "queued"
    BY <1>1, <1>7, <2>2 DEF Serve, Holding
  <2>3. CASE call[c] = "queued"
    <3>1. inUse' = inUse + 1 /\ call' = [call EXCEPT ![c] = "given"]
      BY <1>7, <2>3 DEF Serve, Becomes
    <3> HIDE DEF c
    <3>2. c \notin Holding /\ Holding' = Holding \cup {c}
      BY <2>1, <2>3, <3>1 DEF Holding, TypeOK
    <3>3. Cardinality(Holding') = Cardinality(Holding) + 1
      BY <3>2, HoldingFinite, FS_AddElement
    <3> QED
      BY <3>1, <3>3 DEF PlacesCounted
  <2> QED
    BY <2>2, <2>3
<1>8. CASE Release \/ Pass \/ UNCHANGED vars
  BY <1>1, <1>8 DEF Release, Pass, vars, placeVars, Holding
<1>9. ASSUME NEW l \in Limits, SetLimit(l)
      PROVE  inUse' = inUse /\ Holding' = Holding
  BY <1>9 DEF SetLimit, Holding
<1> QED
  BY <1>1, <1>2, <1>3, <1>4, <1>5, <1>6, <1>7, <1>8, <1>9
     DEF Next, CallStep, Dispatch

\* `in_use` is the number of places held, on their way to a call or on their way
\* back, whichever calls are dropped and when: `Waiting::drop` loses none.
THEOREM PlacesCountedAlways == Spec => []PlacesCounted
<1>1. Init => PlacesCounted
  <2> SUFFICES ASSUME Init PROVE PlacesCounted
    OBVIOUS
  <2>1. Holding = {}
    BY DEF Init, Holding
  <2> QED
    BY <2>1, FS_EmptySet DEF Init, PlacesCounted
<1> QED
  BY <1>1, TypeCorrect, CountedNext, PTL DEF Spec

\* Only `dispatch` gives a place, and only while one is free.
LEMMA GivenByServe ==
  ASSUME TypeOK, [Next]_vars, NEW c \in Calls,
         call[c] # "given", call'[c] = "given"
  PROVE  HasPlace /\ inUse' = inUse + 1
<1>1. ASSUME NEW d \in Calls, Look(d) \/ Receive(d) \/ GiveUp(d)
      PROVE  FALSE
  BY <1>1 DEF Look, Receive, GiveUp, Becomes, TypeOK
<1>2. ASSUME NEW d \in Calls, Enqueue(d) \/ Return(d)
      PROVE  FALSE
  BY <1>2 DEF Enqueue, Return, Becomes, TypeOK
<1>3. ASSUME NEW d \in Calls, NEW until \in 1..MaxTime, EndRefused(d, until)
      PROVE  FALSE
  BY <1>3 DEF EndRefused, Becomes, TypeOK
<1>4. CASE Release \/ Pass \/ UNCHANGED vars \/ \E l \in Limits : SetLimit(l)
  BY <1>4 DEF Release, Pass, SetLimit, vars
<1>5. ASSUME NEW i \in WaitingTeams, Serve(i)
      PROVE  HasPlace /\ inUse' = inUse + 1
  BY <1>5 DEF Serve
<1> QED
  BY <1>1, <1>2, <1>3, <1>4, <1>5 DEF Next, CallStep, Dispatch

\* No session starts past the limit, however the owner changed it meanwhile and
\* however many sessions run past a limit that was lowered.
THEOREM NoneStartsPastTheLimitAlways == Spec => NoneStartsPastTheLimit
<1> DEFINE Within ==
      \A c \in Calls :
        call[c] # "given" /\ call'[c] = "given" /\ limit # NoLimit
          => Cardinality(Holding') <= limit
<1>1. TypeOK /\ PlacesCounted /\ PlacesCounted' /\ [Next]_vars => [Within]_vars
  <2> SUFFICES ASSUME TypeOK, PlacesCounted', [Next]_vars,
                      NEW c \in Calls,
                      call[c] # "given", call'[c] = "given", limit # NoLimit
               PROVE  Cardinality(Holding') <= limit
    OBVIOUS
  <2>1. HasPlace /\ inUse' = inUse + 1
    BY GivenByServe
  <2>2. limit \in Nat
    BY LimitAssumption DEF TypeOK
  <2> QED
    BY <2>1, <2>2 DEF HasPlace, PlacesCounted, TypeOK
<1>2. NoneStartsPastTheLimit <=> [][Within]_vars
  BY DEF NoneStartsPastTheLimit
<1> HIDE DEF Within
<1> QED
  BY <1>1, <1>2, TypeCorrect, PlacesCountedAlways, PTL DEF Spec

-----------------------------------------------------------------------------
\* Nobody waits beside a free place.

\* A call that waits stands in its team's queue, and `dispatch` knows the team:
\* what makes an empty round mean that nobody waits.
QueuedIsInQueue ==
  \A c \in Calls : call[c] = "queued" =>
    /\ Known(TeamOf[c])
    /\ \E k \in 1..Len(queues[TeamOf[c]]) : queues[TeamOf[c]][k] = c

LEMMA QueuedNext ==
  TypeOK /\ QueuedIsInQueue /\ [Next]_vars => QueuedIsInQueue'
<1> SUFFICES ASSUME TypeOK, QueuedIsInQueue, [Next]_vars
             PROVE  QueuedIsInQueue'
  OBVIOUS
<1>1. ASSUME queues' = queues, order' = order,
             \A c \in Calls : call'[c] = "queued" => call[c] = "queued"
      PROVE  QueuedIsInQueue'
  BY <1>1 DEF QueuedIsInQueue, Known
<1>2. ASSUME NEW c \in Calls, Look(c) \/ Receive(c) \/ GiveUp(c)
      PROVE  QueuedIsInQueue'
  BY <1>1, <1>2 DEF Look, Receive, GiveUp, Becomes, TypeOK, placeVars
<1>3. ASSUME NEW c \in Calls, Enqueue(c)
      PROVE  QueuedIsInQueue'
  <2> SUFFICES ASSUME NEW d \in Calls, call'[d] = "queued"
               PROVE  /\ Known(TeamOf[d])'
                      /\ \E k \in 1..Len(queues'[TeamOf[d]]) :
                           queues'[TeamOf[d]][k] = d
    BY DEF QueuedIsInQueue
  <2>1. TeamOf[c] \in Teams /\ TeamOf[d] \in Teams
    BY CallsAssumption
  <2>2. queues' = [queues EXCEPT ![TeamOf[c]] = Append(@, c)]
    BY <1>3 DEF Enqueue
  <2>3. /\ Len(Append(queues[TeamOf[c]], c)) = Len(queues[TeamOf[c]]) + 1
        /\ \A k \in 1..Len(queues[TeamOf[c]]) :
             Append(queues[TeamOf[c]], c)[k] = queues[TeamOf[c]][k]
        /\ Append(queues[TeamOf[c]], c)[Len(queues[TeamOf[c]]) + 1] = c
    BY <2>1, AppendProperties DEF TypeOK
  <2>4. Len(queues[TeamOf[c]]) \in Nat /\ Len(order) \in Nat
    BY <2>1, LenProperties DEF TypeOK
  <2>5. /\ Len(order) <= Len(order') /\ Len(order') \in Nat
        /\ \A i \in 1..Len(order) : order'[i] = order[i]
        /\ \E i \in 1..Len(order') : order'[i] = TeamOf[c]
    BY <1>3, OrderGrows, LenProperties
  <2>6. CASE d = c
    BY <2>1, <2>2, <2>3, <2>4, <2>5, <2>6 DEF TypeOK, Known
  <2>7. CASE d # c
    <3>1. call[d] = "queued"
      BY <1>3, <2>7 DEF Enqueue, Becomes, TypeOK
    <3>2. /\ \E i \in 1..Len(order) : order[i] = TeamOf[d]
          /\ \E k \in 1..Len(queues[TeamOf[d]]) : queues[TeamOf[d]][k] = d
      BY <3>1 DEF QueuedIsInQueue, Known
    <3>3. Known(TeamOf[d])'
      BY <2>4, <2>5, <3>2 DEF Known
    <3>4. CASE TeamOf[d] = TeamOf[c]
      <4>1. queues'[TeamOf[d]] = Append(queues[TeamOf[c]], c)
        BY <2>1, <2>2, <3>4 DEF TypeOK
      <4>2. PICK k \in 1..Len(queues[TeamOf[c]]) : queues[TeamOf[c]][k] = d
        BY <3>2, <3>4
      <4>3. /\ k \in 1..Len(Append(queues[TeamOf[c]], c))
            /\ Append(queues[TeamOf[c]], c)[k] = d
        BY <2>3, <2>4, <4>2
      <4> QED
        BY <3>3, <4>1, <4>3
    <3>5. CASE TeamOf[d] # TeamOf[c]
      <4>1. queues'[TeamOf[d]] = queues[TeamOf[d]]
        BY <2>1, <2>2, <3>5 DEF TypeOK
      <4> QED
        BY <3>2, <3>3, <4>1
    <3> QED
      BY <3>4, <3>5
  <2> QED
    BY <2>6, <2>7
<1>4. ASSUME NEW c \in Calls, Return(c)
      PROVE  QueuedIsInQueue'
  BY <1>1, <1>4 DEF Return, Becomes, TypeOK
<1>5. ASSUME NEW c \in Calls, NEW until \in 1..MaxTime, EndRefused(c, until)
      PROVE  QueuedIsInQueue'
  BY <1>1, <1>5 DEF EndRefused, Becomes, TypeOK, placeVars
<1>6. ASSUME NEW i \in WaitingTeams, Serve(i)
      PROVE  QueuedIsInQueue'
  <2> DEFINE q == queues[order[i]]
             h == Head(q)
  <2> SUFFICES ASSUME NEW d \in Calls, call'[d] = "queued"
               PROVE  /\ Known(TeamOf[d])'
                      /\ \E k \in 1..Len(queues'[TeamOf[d]]) :
                           queues'[TeamOf[d]][k] = d
    BY DEF QueuedIsInQueue
  <2>1. /\ order[i] \in Teams
        /\ q \in Seq(Calls) /\ q # <<>>
        /\ h \in Calls /\ h = q[1]
        /\ Len(Tail(q)) = Len(q) - 1
        /\ \A k \in 1..Len(Tail(q)) : Tail(q)[k] = q[k + 1]
    BY QueueShrinks
  <2>2. /\ queues' = [queues EXCEPT ![order[i]] = Tail(@)]
        /\ order' = order
        /\ \/ call[h] = "queued" /\ call' = [call EXCEPT ![h] = "given"]
           \/ call[h] # "queued" /\ call' = call
    BY <1>6 DEF Serve, Becomes
  <2> HIDE DEF h
  <2>3. call[d] = "queued" /\ d # h
    BY <2>1, <2>2 DEF TypeOK
  <2>4. /\ Known(TeamOf[d])
        /\ \E k \in 1..Len(queues[TeamOf[d]]) : queues[TeamOf[d]][k] = d
    BY <2>3 DEF QueuedIsInQueue
  <2>5. Known(TeamOf[d])'
    BY <2>2, <2>4 DEF Known
  <2>6. CASE TeamOf[d] = order[i]
    <3>1. PICK k \in 1..Len(q) : q[k] = d
      BY <2>4, <2>6
    <3>2. k # 1 /\ Len(q) \in Nat
      BY <2>1, <2>3, <3>1, LenProperties
    <3>3. k - 1 \in 1..Len(Tail(q)) /\ Tail(q)[k - 1] = d
      BY <2>1, <3>1, <3>2
    <3>4. queues'[TeamOf[d]] = Tail(q)
      BY <2>1, <2>2, <2>6 DEF TypeOK
    <3> QED
      BY <2>5, <3>3, <3>4
  <2>7. CASE TeamOf[d] # order[i]
    <3>1. queues'[TeamOf[d]] = queues[TeamOf[d]]
      BY <2>1, <2>2, <2>7, CallsAssumption DEF TypeOK
    <3> QED
      BY <2>4, <2>5, <3>1
  <2> QED
    BY <2>6, <2>7
<1>7. CASE Release \/ Pass \/ UNCHANGED vars
  BY <1>1, <1>7 DEF Release, Pass, vars, placeVars
<1>8. ASSUME NEW l \in Limits, SetLimit(l)
      PROVE  QueuedIsInQueue'
  BY <1>1, <1>8 DEF SetLimit
<1> QED
  BY <1>2, <1>3, <1>4, <1>5, <1>6, <1>7, <1>8 DEF Next, CallStep, Dispatch

LEMMA IdleNext ==
  TypeOK /\ QueuedIsInQueue /\ NoIdlePlace /\ [Next]_vars => NoIdlePlace'
<1> SUFFICES ASSUME TypeOK, QueuedIsInQueue, NoIdlePlace, [Next]_vars,
                    ~dispatching', HasPlace', NEW c \in Calls,
                    call'[c] = "queued"
             PROVE  FALSE
  BY DEF NoIdlePlace
<1>1. ASSUME ~dispatching, HasPlace, call[c] = "queued"
      PROVE  FALSE
  BY <1>1 DEF NoIdlePlace
<1>2. ASSUME NEW d \in Calls, Look(d) \/ Receive(d) \/ GiveUp(d)
      PROVE  FALSE
  BY <1>1, <1>2
     DEF Look, Receive, GiveUp, Becomes, TypeOK, HasPlace, placeVars
<1>3. ASSUME NEW d \in Calls, Enqueue(d) \/ Return(d)
      PROVE  FALSE
  BY <1>3 DEF Enqueue, Return
<1>4. ASSUME NEW d \in Calls, NEW until \in 1..MaxTime, EndRefused(d, until)
      PROVE  FALSE
  BY <1>1, <1>4 DEF EndRefused, Becomes, TypeOK, HasPlace, placeVars
<1>5. ASSUME NEW i \in WaitingTeams, Serve(i)
      PROVE  FALSE
  BY <1>5 DEF Serve
<1>6. CASE Release
  <2>1. WaitingTeams = {} /\ call[c] = "queued"
    BY <1>6 DEF Release, HasPlace, placeVars
  <2>2. PICK i \in 1..Len(order) : order[i] = TeamOf[c]
    BY <2>1 DEF QueuedIsInQueue, Known
  <2>3. PICK k \in 1..Len(queues[TeamOf[c]]) : queues[TeamOf[c]][k] = c
    BY <2>1 DEF QueuedIsInQueue
  <2>4. queues[TeamOf[c]] # <<>>
    BY <2>3
  <2> QED
    BY <2>1, <2>2, <2>4 DEF WaitingTeams
<1>7. CASE Pass \/ UNCHANGED vars
  BY <1>1, <1>7 DEF Pass, vars, placeVars, HasPlace
<1>8. ASSUME NEW l \in Limits, SetLimit(l)
      PROVE  FALSE
  BY <1>8 DEF SetLimit
<1> QED
  BY <1>2, <1>3, <1>4, <1>5, <1>6, <1>7, <1>8 DEF Next, CallStep, Dispatch

\* Between two holders of the lock nobody waits beside a free place, whichever
\* way it came free: no wake-up is lost.
THEOREM NoIdlePlaceAlways == Spec => []NoIdlePlace
<1>1. Init => QueuedIsInQueue /\ NoIdlePlace
  BY DEF Init, QueuedIsInQueue, NoIdlePlace
<1> QED
  BY <1>1, TypeCorrect, QueuedNext, IdleNext, PTL DEF Spec

-----------------------------------------------------------------------------
\* The teams' turns.

\* A team that was passed by another one still waits, and its turn comes before
\* the other one's next.
PassedIsBefore ==
  \A t, u \in Teams : passed[t][u] # 0 =>
    /\ passed[t][u] = 1
    /\ queues[t] # <<>>
    /\ \E i, j \in 1..Len(order) :
         order[i] = t /\ order[j] = u /\ Turn(i) < Turn(j)

\* Whoever waits is in the round.
WaitersKnown == \A t \in Teams : queues[t] # <<>> => Known(t)

TurnInv == WaitersKnown /\ PassedIsBefore

LEMMA TurnSame ==
  ASSUME TypeOK, TurnInv, queues' = queues, order' = order,
         lastServed' = lastServed, passed' = passed
  PROVE  TurnInv'
<1>1. \A i : Turn(i)' = Turn(i)
  BY DEF Turn
<1> QED
  BY <1>1 DEF TurnInv, WaitersKnown, PassedIsBefore, Known

LEMMA TurnEnqueue ==
  ASSUME TypeOK, TurnInv, NEW c \in Calls, Enqueue(c)
  PROVE  TurnInv'
<1>1. /\ Len(order) <= Len(order') /\ Len(order') \in Nat
      /\ \A i \in 1..Len(order) : order'[i] = order[i]
      /\ \E i \in 1..Len(order') : order'[i] = TeamOf[c]
  BY OrderGrows, LenProperties
<1>2. Len(order) \in Nat /\ lastServed \in 0..Len(order)
  BY LenProperties DEF TypeOK
<1>3. /\ queues' = [queues EXCEPT ![TeamOf[c]] = Append(@, c)]
      /\ passed' = passed /\ lastServed' = lastServed
  BY DEF Enqueue
<1>4. /\ TeamOf[c] \in Teams
      /\ Append(queues[TeamOf[c]], c) # <<>>
  <2>1. TeamOf[c] \in Teams
    BY CallsAssumption
  <2>2. queues[TeamOf[c]] \in Seq(Calls)
    BY <2>1 DEF TypeOK
  <2> QED
    BY <2>1, <2>2, AppendProperties
<1>5. \A t \in Teams : t # TeamOf[c] => queues'[t] = queues[t]
  BY <1>3, <1>4 DEF TypeOK
<1>6. queues'[TeamOf[c]] # <<>>
  BY <1>3, <1>4 DEF TypeOK
<1>7. WaitersKnown'
  BY <1>1, <1>2, <1>5 DEF TurnInv, WaitersKnown, Known
<1>8. ASSUME NEW i \in 1..Len(order), NEW j \in 1..Len(order), Turn(i) < Turn(j)
      PROVE  Turn(i)' < Turn(j)'
  BY <1>1, <1>2, <1>3, <1>8 DEF Turn
<1>9. PassedIsBefore'
  <2> SUFFICES ASSUME NEW t \in Teams, NEW u \in Teams, passed'[t][u] # 0
               PROVE  /\ passed'[t][u] = 1
                      /\ queues'[t] # <<>>
                      /\ \E i, j \in 1..Len(order') :
                           order'[i] = t /\ order'[j] = u /\ Turn(i)' < Turn(j)'
    BY DEF PassedIsBefore
  <2>1. /\ passed[t][u] = 1
        /\ queues[t] # <<>>
    BY <1>3 DEF TurnInv, PassedIsBefore
  <2>2. PICK i \in 1..Len(order), j \in 1..Len(order) :
          order[i] = t /\ order[j] = u /\ Turn(i) < Turn(j)
    BY <1>3 DEF TurnInv, PassedIsBefore
  <2>3. /\ i \in 1..Len(order') /\ j \in 1..Len(order')
        /\ order'[i] = t /\ order'[j] = u
    BY <1>1, <1>2, <2>2
  <2>4. Turn(i)' < Turn(j)'
    BY <1>8, <2>2
  <2>5. queues'[t] # <<>>
    BY <1>5, <1>6, <2>1
  <2> QED
    BY <1>3, <2>1, <2>3, <2>4, <2>5
<1> QED
  BY <1>7, <1>9 DEF TurnInv

LEMMA TurnServe ==
  ASSUME TypeOK, TurnInv, NEW k \in WaitingTeams, Serve(k)
  PROVE  TurnInv'
<1>1. /\ k \in 1..Len(order)
      /\ order[k] \in Teams
  BY QueueShrinks
<1>2. Len(order) \in Nat /\ lastServed \in 0..Len(order)
  BY LenProperties DEF TypeOK
<1>3. /\ queues' = [queues EXCEPT ![order[k]] = Tail(@)]
      /\ order' = order /\ lastServed' = k
      /\ \A j \in WaitingTeams : Turn(k) <= Turn(j)
  BY DEF Serve
<1>4. passed' = [t \in Teams |->
                   IF t = order[k] THEN [u \in Teams |-> 0]
                   ELSE [passed[t] EXCEPT ![order[k]] =
                           IF queues[t] # <<>> THEN @ + 1 ELSE @]]
  BY DEF Serve
<1>5. \A t \in Teams : t # order[k] => queues'[t] = queues[t]
  BY <1>1, <1>3 DEF TypeOK
<1>6. WaitersKnown'
  BY <1>1, <1>3, <1>5 DEF TurnInv, WaitersKnown, Known
<1>7. ASSUME NEW x \in 1..Len(order), x # k
      PROVE  /\ Turn(x)' < Turn(k)'
             /\ Turn(x) # Turn(k)
             /\ Turn(k) < Turn(x) => Turn(x)' = Turn(x) - Turn(k)
  <2>1. /\ Turn(x)' = IF x > k THEN x - k ELSE Len(order) + x - k
        /\ Turn(k)' = IF k > k THEN k - k ELSE Len(order) + k - k
    BY <1>3 DEF Turn
  <2>2. /\ Turn(x) = IF x > lastServed THEN x - lastServed
                     ELSE Len(order) + x - lastServed
        /\ Turn(k) = IF k > lastServed THEN k - lastServed
                     ELSE Len(order) + k - lastServed
    BY DEF Turn
  <2>3. /\ x \in Int /\ k \in Int /\ lastServed \in Int /\ Len(order) \in Int
        /\ 1 <= x /\ x <= Len(order) /\ 1 <= k /\ k <= Len(order)
        /\ 0 <= lastServed /\ lastServed <= Len(order)
    BY <1>1, <1>2
  <2>4. Turn(k)' = Len(order)
    BY <2>1, <2>3
  <2>5. Turn(x)' < Turn(k)'
    BY <1>7, <2>1, <2>3, <2>4
  <2>6. Turn(x) # Turn(k)
    BY <1>7, <2>2, <2>3
  <2>7. ASSUME Turn(k) < Turn(x)
        PROVE  Turn(x)' = Turn(x) - Turn(k)
    <3>1. CASE x > lastServed /\ k > lastServed
      <4>1. Turn(x) = x - lastServed /\ Turn(k) = k - lastServed /\ x > k
        BY <2>2, <2>3, <2>7, <3>1
      <4> QED
        BY <2>1, <2>3, <4>1
    <3>2. CASE ~(x > lastServed) /\ k > lastServed
      <4>1. /\ Turn(x) = Len(order) + x - lastServed
            /\ Turn(k) = k - lastServed
            /\ ~(x > k)
        BY <2>2, <2>3, <3>2
      <4> QED
        BY <2>1, <2>3, <4>1
    <3>3. CASE x > lastServed /\ ~(k > lastServed)
      BY <2>2, <2>3, <2>7, <3>3
    <3>4. CASE ~(x > lastServed) /\ ~(k > lastServed)
      <4>1. /\ Turn(x) = Len(order) + x - lastServed
            /\ Turn(k) = Len(order) + k - lastServed
            /\ x > k
        BY <2>2, <2>3, <2>7, <3>4
      <4> QED
        BY <2>1, <2>3, <4>1
    <3> QED
      BY <3>1, <3>2, <3>3, <3>4
  <2> QED
    BY <2>5, <2>6, <2>7
<1>8. ASSUME NEW x \in 1..Len(order), x # k, queues[order[x]] # <<>>
      PROVE  Turn(k) < Turn(x)
  <2>1. x \in WaitingTeams
    BY <1>8 DEF WaitingTeams
  <2>2. Turn(k) <= Turn(x) /\ Turn(x) # Turn(k)
    BY <1>3, <1>7, <1>8, <2>1
  <2>3. Turn(k) \in Int /\ Turn(x) \in Int
    BY <1>1, <1>2 DEF Turn
  <2> QED
    BY <2>2, <2>3
<1>9. PassedIsBefore'
  <2> SUFFICES ASSUME NEW t \in Teams, NEW u \in Teams, passed'[t][u] # 0
               PROVE  /\ passed'[t][u] = 1
                      /\ queues'[t] # <<>>
                      /\ \E i, j \in 1..Len(order) :
                           order[i] = t /\ order[j] = u /\ Turn(i)' < Turn(j)'
    BY <1>3 DEF PassedIsBefore
  <2>1. t # order[k]
    BY <1>4
  <2>2. passed'[t] = [passed[t] EXCEPT ![order[k]] =
                        IF queues[t] # <<>> THEN @ + 1 ELSE @]
    BY <1>4, <2>1
  <2>3. passed[t] \in [Teams -> Nat]
    BY DEF TypeOK
  <2>4. passed[t][u] # 0 =>
          /\ passed[t][u] = 1
          /\ queues[t] # <<>>
          /\ \E i, j \in 1..Len(order) :
               order[i] = t /\ order[j] = u /\ Turn(i) < Turn(j)
    BY DEF TurnInv, PassedIsBefore
  <2>5. CASE u = order[k]
    <3>1. passed[t][u] = 0
      <4> SUFFICES ASSUME passed[t][u] # 0 PROVE FALSE
        OBVIOUS
      <4>1. PICK i \in 1..Len(order), j \in 1..Len(order) :
              order[i] = t /\ order[j] = u /\ Turn(i) < Turn(j)
        BY <2>4
      <4>2. j = k /\ i # k
        BY <1>1, <2>1, <2>5, <4>1 DEF TypeOK
      <4>3. Turn(k) < Turn(i)
        BY <1>8, <2>4, <4>1, <4>2
      <4>4. Turn(i) \in Int /\ Turn(k) \in Int
        BY <1>1, <1>2 DEF Turn
      <4> QED
        BY <4>1, <4>2, <4>3, <4>4
    <3>2. queues[t] # <<>> /\ passed'[t][u] = 1
      BY <1>1, <2>2, <2>3, <2>5, <3>1
    <3>3. PICK i \in 1..Len(order) : order[i] = t
      BY <3>2 DEF TurnInv, WaitersKnown, Known
    <3>4. Turn(i)' < Turn(k)'
      BY <1>7, <2>1, <3>3
    <3> QED
      BY <1>1, <1>5, <2>1, <2>5, <3>2, <3>3, <3>4
  <2>6. CASE u # order[k]
    <3>1. passed'[t][u] = passed[t][u]
      BY <1>1, <2>2, <2>3, <2>6
    <3>2. PICK i \in 1..Len(order), j \in 1..Len(order) :
            order[i] = t /\ order[j] = u /\ Turn(i) < Turn(j)
      BY <2>4, <3>1
    <3>3. i # k /\ j # k
      BY <2>1, <2>6, <3>2
    <3>4. Turn(k) < Turn(i)
      BY <1>8, <2>4, <3>1, <3>2, <3>3
    <3>5. Turn(i) \in Int /\ Turn(j) \in Int /\ Turn(k) \in Int
      BY <1>1, <1>2 DEF Turn
    <3>6. Turn(k) < Turn(j)
      BY <3>2, <3>4, <3>5
    <3>7. Turn(i)' = Turn(i) - Turn(k) /\ Turn(j)' = Turn(j) - Turn(k)
      BY <1>7, <3>3, <3>4, <3>6
    <3>8. Turn(i)' < Turn(j)'
      BY <3>2, <3>5, <3>7
    <3> QED
      BY <1>5, <2>1, <2>4, <3>1, <3>2, <3>8
  <2> QED
    BY <2>5, <2>6
<1> QED
  BY <1>6, <1>9 DEF TurnInv

LEMMA TurnNext == TypeOK /\ TurnInv /\ [Next]_vars => TurnInv'
<1> SUFFICES ASSUME TypeOK, TurnInv, [Next]_vars
             PROVE  TurnInv'
  OBVIOUS
<1>1. ASSUME NEW c \in Calls, Look(c) \/ Receive(c) \/ GiveUp(c) \/ Return(c)
      PROVE  TurnInv'
  BY <1>1, TurnSame DEF Look, Receive, GiveUp, Return, placeVars
<1>2. ASSUME NEW c \in Calls, NEW until \in 1..MaxTime, EndRefused(c, until)
      PROVE  TurnInv'
  BY <1>2, TurnSame DEF EndRefused, placeVars
<1>3. CASE Release \/ Pass \/ UNCHANGED vars \/ \E l \in Limits : SetLimit(l)
  BY <1>3, TurnSame DEF Release, Pass, SetLimit, vars, placeVars
<1> QED
  BY <1>1, <1>2, <1>3, TurnEnqueue, TurnServe DEF Next, CallStep, Dispatch

\* While a team waits, no other team has its turn twice, whatever teams join the
\* round and whichever calls give up meanwhile (`next_waiting`).
THEOREM InTurnAlways == Spec => []InTurn
<1>1. Init => TurnInv
  BY DEF Init, TurnInv, WaitersKnown, PassedIsBefore
<1>2. TypeOK /\ TurnInv => InTurn
  <2> SUFFICES ASSUME TypeOK, TurnInv, NEW t \in Teams, NEW u \in Teams
               PROVE  passed[t][u] <= 1
    BY DEF InTurn
  <2>1. passed[t] \in [Teams -> Nat]
    BY DEF TypeOK
  <2>2. passed[t][u] = 0 \/ passed[t][u] = 1
    BY <2>1 DEF TurnInv, PassedIsBefore
  <2> QED
    BY <2>2
<1> QED
  BY <1>1, <1>2, TypeCorrect, TurnNext, PTL DEF Spec
=============================================================================
