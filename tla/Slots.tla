-------------------------------- MODULE Slots --------------------------------
(***************************************************************************)
(* The places for agent sessions that the teams of one `catervas serve`    *)
(* share, and the AI account's sleep (crates/runtime/src/slots.rs).        *)
(*                                                                         *)
(* A call of `Slots::take` waits out the account's sleep, then for a place *)
(* in its team's queue; `dispatch` gives the free places to the teams in   *)
(* turn, through a oneshot channel.  What is done under the lock of `Inner`*)
(* is one step, but for `dispatch`, whose rounds are one step each while   *)
(* the lock is held: what needs no lock (a call that receives its place or *)
(* is dropped while it waits) may happen between two of them.              *)
(*                                                                         *)
(* The day's cap, which the same lock guards, is not this module's subject.*)
(***************************************************************************)
EXTENDS Naturals, Sequences, FiniteSets

CONSTANTS
  Teams,       \* the teams of the serve
  Calls,       \* the calls of `take`, each made once
  TeamOf,      \* TeamOf[c]: the team call c is for
  NoLimit,     \* `limit: None`
  Limits,      \* the limits the owner sets, NoLimit among them or not
  GivesUp,     \* the calls that may be dropped before they have their place
  Refused,     \* the calls whose sessions the model provider may refuse
  MaxTime      \* bound: how far the clock goes

ASSUME CallsAssumption ==
  /\ IsFiniteSet(Calls)
  /\ TeamOf \in [Calls -> Teams]
  /\ GivesUp \subseteq Calls
  /\ Refused \subseteq Calls
ASSUME LimitAssumption ==
  /\ Limits # {}
  /\ NoLimit \notin Nat
  /\ Limits \subseteq (Nat \ {0}) \cup {NoLimit}
ASSUME TimeAssumption == MaxTime \in Nat

VARIABLES
  limit,       \* how many sessions run at once
  inUse,       \* `in_use`
  queues,      \* queues[t]: the calls of team t that wait, and those that did
  order,       \* the teams in the order they first asked
  lastServed,  \* the place in `order` of the team served last, or 0
  now,         \* the clock
  asleepUntil, \* when the account's limit resets; asleep while that is ahead
  call,        \* call[c]: how far call c is
  wakes,       \* wakes[c]: when the sleeper of call c returns
  dispatching, \* whether somebody holds the lock, in `dispatch`
  passed       \* passed[t][u]: how often u was served while t waited for its
               \* turn, a history of the steps taken and no state of the code's

placeVars == <<limit, inUse, queues, order, lastServed>>
clockVars == <<now, asleepUntil>>
vars == <<placeVars, clockVars, call, wakes, dispatching, passed>>

\* "new": not made.  "asleep": in the sleeper.  "awake": saw no sleep, not in a
\* queue yet.  "queued": waits on its channel.  "given": its place was sent.
\* "working": it has its place, and its session runs.  "ended": the place is
\* back.  "refused": and the account was put to sleep.  "refunding": it was
\* dropped with its place on its way, which is not back.  "gone": it was dropped,
\* its sender perhaps still in the queue.
CallStates ==
  {"new", "asleep", "awake", "queued", "given", "working", "ended", "refused",
   "refunding", "gone"}

TypeOK ==
  /\ limit \in Limits
  /\ inUse \in Nat
  /\ queues \in [Teams -> Seq(Calls)]
  /\ order \in Seq(Teams)
  /\ \A i, j \in 1..Len(order) : order[i] = order[j] => i = j
  /\ lastServed \in 0..Len(order)
  /\ now \in Nat
  /\ asleepUntil \in Nat
  /\ call \in [Calls -> CallStates]
  /\ wakes \in [Calls -> Nat]
  /\ dispatching \in BOOLEAN
  /\ passed \in [Teams -> [Teams -> Nat]]

Init ==
  /\ limit \in Limits
  /\ inUse = 0
  /\ queues = [t \in Teams |-> <<>>]
  /\ order = <<>>
  /\ lastServed = 0
  /\ now = 0
  /\ asleepUntil = 0
  /\ call = [c \in Calls |-> "new"]
  /\ wakes = [c \in Calls |-> 0]
  /\ dispatching = FALSE
  /\ passed = [t \in Teams |-> [u \in Teams |-> 0]]

Asleep == asleepUntil > now

\* The calls that have a place, or one on its way to them or back.
Holding ==
  {c \in Calls : call[c] \in {"given", "working", "refunding"}}

Becomes(c, state) == call' = [call EXCEPT ![c] = state]

-----------------------------------------------------------------------------
\* `take`.

\* The loop over `asleep_until`: a call sleeps until the time it read, and reads
\* again.
Look(c) ==
  /\ call[c] = "new" \/ (call[c] = "asleep" /\ wakes[c] <= now)
  /\ ~dispatching
  /\ Becomes(c, IF Asleep THEN "asleep" ELSE "awake")
  /\ wakes' = [wakes EXCEPT ![c] = IF Asleep THEN asleepUntil ELSE @]
  /\ UNCHANGED <<placeVars, clockVars, dispatching, passed>>

\* Mistake: a team is known if it was the last to ask for the first time.
KnownIfLast(t) == order # <<>> /\ order[Len(order)] = t

\* `know`.
Known(t) == \E i \in 1..Len(order) : order[i] = t

\* A place in the team's queue, and `dispatch`.
Enqueue(c) ==
  /\ call[c] = "awake"
  /\ ~dispatching
  /\ queues' = [queues EXCEPT ![TeamOf[c]] = Append(@, c)]
  /\ order' = IF Known(TeamOf[c]) THEN order ELSE Append(order, TeamOf[c])
  /\ Becomes(c, "queued")
  /\ dispatching' = TRUE
  /\ UNCHANGED <<limit, inUse, lastServed, clockVars, wakes, passed>>

\* The channel's receiver hears of the place.
Receive(c) ==
  /\ call[c] = "given"
  /\ Becomes(c, "working")
  /\ UNCHANGED <<placeVars, clockVars, wakes, dispatching, passed>>

\* Mistake: a call dropped while its place is on its way lets the place go with
\* it.
GiveUpPlaceAndAll(c) ==
  /\ c \in GivesUp
  /\ call[c] \in {"asleep", "queued", "given"}
  /\ Becomes(c, "gone")
  /\ UNCHANGED <<placeVars, clockVars, wakes, dispatching, passed>>

\* The future of the call is dropped (`Waiting::drop`): the channel is closed,
\* and a place already sent is dropped in turn.
GiveUp(c) ==
  /\ c \in GivesUp
  /\ call[c] \in {"asleep", "queued", "given"}
  /\ Becomes(c, IF call[c] = "given" THEN "refunding" ELSE "gone")
  /\ UNCHANGED <<placeVars, clockVars, wakes, dispatching, passed>>

\* Mistake: a place given back is kept for whoever asks next.
ReturnQuietly(c) ==
  /\ call[c] \in {"working", "refunding"}
  /\ ~dispatching
  /\ inUse' = IF inUse > 0 THEN inUse - 1 ELSE 0
  /\ Becomes(c, IF call[c] = "working" THEN "ended" ELSE "gone")
  /\ UNCHANGED <<limit, queues, order, lastServed, clockVars, wakes, dispatching,
                 passed>>

\* The session is over, or the place reached nobody, and `Place::drop` has the
\* lock: one place less in use, as far as there is one, and `dispatch`.
Return(c) ==
  /\ call[c] \in {"working", "refunding"}
  /\ ~dispatching
  /\ inUse' = IF inUse > 0 THEN inUse - 1 ELSE 0
  /\ Becomes(c, IF call[c] = "working" THEN "ended" ELSE "gone")
  /\ dispatching' = TRUE
  /\ UNCHANGED <<limit, queues, order, lastServed, clockVars, wakes, passed>>

\* A session the provider refused has, once its place is back, the account sleep
\* until a time that is ahead; an earlier one than the one held is ignored
\* (`sleep`, `account_asleep_until`).
EndRefused(c, until) ==
  /\ c \in Refused /\ call[c] = "ended"
  /\ ~dispatching
  /\ until > now
  /\ asleepUntil' = IF until > asleepUntil THEN until ELSE asleepUntil
  /\ Becomes(c, "refused")
  /\ UNCHANGED <<placeVars, now, wakes, dispatching, passed>>

-----------------------------------------------------------------------------
\* `dispatch`.

\* Mistake: as many sessions as the limit, and one.
HasPlaceAndOne == limit # NoLimit => inUse <= limit

HasPlace == limit # NoLimit => inUse < limit

\* The teams with somebody in their queue, by their place in `order`.
WaitingTeams == {i \in 1..Len(order) : queues[order[i]] # <<>>}

\* Mistake: the round begins anew with the team that asked first.
TurnFromTheFirst(i) == i

\* How many teams come before team i in the round after the last one served.
Turn(i) == IF i > lastServed THEN i - lastServed ELSE Len(order) + i - lastServed

\* One round: the next team that waits is served.  Sending fails when the call
\* gave up, and the place is free again.
Serve(i) ==
  LET c == Head(queues[order[i]])
  IN  /\ dispatching
      /\ HasPlace
      /\ \A j \in WaitingTeams : Turn(i) <= Turn(j)
      /\ lastServed' = i
      /\ queues' = [queues EXCEPT ![order[i]] = Tail(@)]
      /\ IF call[c] = "queued"
         THEN inUse' = inUse + 1 /\ Becomes(c, "given")
         ELSE UNCHANGED <<inUse, call>>
      /\ passed' = [t \in Teams |->
                      IF t = order[i] THEN [u \in Teams |-> 0]
                      ELSE [passed[t] EXCEPT ![order[i]] =
                              IF queues[t] # <<>> THEN @ + 1 ELSE @]]
      /\ UNCHANGED <<limit, order, clockVars, wakes, dispatching>>

\* No place is free or nobody waits: the lock is let go.
Release ==
  /\ dispatching
  /\ ~HasPlace \/ WaitingTeams = {}
  /\ dispatching' = FALSE
  /\ UNCHANGED <<placeVars, clockVars, call, wakes, passed>>

-----------------------------------------------------------------------------
\* `set_limit`; sessions that run are never stopped.
SetLimit(l) ==
  /\ ~dispatching
  /\ limit' = l
  /\ dispatching' = TRUE
  /\ UNCHANGED <<inUse, queues, order, lastServed, clockVars, call, wakes, passed>>

Pass ==
  /\ now < MaxTime
  /\ now' = now + 1
  /\ UNCHANGED <<placeVars, asleepUntil, call, wakes, dispatching, passed>>

CallStep(c) ==
  \/ Look(c) \/ Enqueue(c) \/ Receive(c) \/ Return(c)

Dispatch == Release \/ \E i \in WaitingTeams : Serve(i)

Next ==
  \/ \E c \in Calls :
       CallStep(c) \/ GiveUp(c) \/ \E until \in 1..MaxTime : EndRefused(c, until)
  \/ Dispatch
  \/ \E l \in Limits : SetLimit(l)
  \/ Pass

Spec == Init /\ [][Next]_vars

\* The lock is held for the few steps of `dispatch` only, and whoever waits for
\* it comes to it; a session ends (its turns and its time are limited), and time
\* passes.  Nobody has to make a call, to give one up or to be refused.
Fairness ==
  /\ WF_vars(Dispatch)
  /\ WF_vars(Pass)
  /\ \A c \in Calls : SF_vars(call[c] # "new" /\ CallStep(c))

FairSpec == Spec /\ Fairness

-----------------------------------------------------------------------------
\* `in_use` counts the places that are really held, on their way to a call or on
\* their way back: none is lost with a call that is dropped just as its place
\* comes (`Waiting::drop`), and none is counted twice.
PlacesCounted == inUse = Cardinality(Holding)

\* Whenever the lock is free, nobody waits while a place is free: whichever way
\* it came free (a session over, a call given up, the limit raised), whoever
\* waits is told.
NoIdlePlace ==
  ~dispatching /\ HasPlace => \A c \in Calls : call[c] # "queued"

\* A lower limit stops no session, but none starts past the limit.
NoneStartsPastTheLimit ==
  [][\A c \in Calls :
       call[c] # "given" /\ call'[c] = "given" /\ limit # NoLimit
         => Cardinality(Holding') <= limit]_vars

\* While a team waits, no other team has its turn twice (`dispatch`: "one in turn
\* each").
InTurn == \A t, u \in Teams : passed[t][u] <= 1

\* Whoever asks for a place has one at last, or gave up.
EveryCallServed ==
  \A c \in Calls :
    call[c] \in {"asleep", "awake", "queued"} ~> call[c] \in {"working", "refunding", "gone"}
=============================================================================
