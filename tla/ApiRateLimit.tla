------------------------------ MODULE ApiRateLimit ------------------------------
(***************************************************************************)
(* The middleware every request passes first: the table of windows in      *)
(* which it counts the requests of each client, apart for sensitive paths  *)
(* and for all others.  A request refused by its method or its headers is  *)
(* answered before that and leaves the table alone: a stuttering step.     *)
(*                                                                         *)
(* A request is handled in one piece: the middleware awaits nothing.  The  *)
(* clock is read by the middleware and only moves forward here.            *)
(***************************************************************************)
EXTENDS Naturals, Sequences, FiniteSets

CONSTANTS
  Clients,       \* keys of clients: an address, or what a proxy forwards
  WindowLength,
  Limit,         \* requests admitted in a window, by kind of path
  MaxTracked,    \* windows the table may hold
  PruneEvery,    \* 100 in the code
  MaxInstant,    \* bound of the clock
  NoWindow

Kinds == {"sensitive", "global"}
ASSUME RateAssumption ==
  /\ WindowLength \in Nat \ {0} /\ MaxTracked \in Nat \ {0} /\ PruneEvery \in Nat \ {0}
  /\ Limit \in [Kinds -> Nat \ {0}]
  /\ IsFiniteSet(Clients) /\ MaxInstant \in Nat
  /\ NoWindow \notin [count: Nat, resetAt: Nat]

VARIABLES
  instant,     \* the clock
  window,      \* count and end of the window of each bucket
  sincePrune,  \* requests counted since the table was last pruned
  admitted,    \* the instants at which requests of each bucket were let through
  turnedAway   \* buckets refused for want of room, with the windows then alive

rateVars == <<instant, window, sincePrune, admitted, turnedAway>>

Buckets == Clients \X Kinds
Instants == 0..MaxInstant
Window == [count: Nat, resetAt: Nat]
Tracked(w) == {b \in Buckets : w[b] # NoWindow}

RateTypeOK ==
  /\ instant \in Instants
  /\ window \in [Buckets -> Window \cup {NoWindow}]
  /\ sincePrune \in 0..PruneEvery
  /\ admitted \in [Buckets -> Seq(Instants)]
  /\ turnedAway \in SUBSET (Buckets \X (0..MaxTracked))

RateInit ==
  /\ instant = 0
  /\ window = [b \in Buckets |-> NoWindow]
  /\ sincePrune = 0
  /\ admitted = [b \in Buckets |-> <<>>]
  /\ turnedAway = {}

\* Time passes between requests.
Passes ==
  /\ instant < MaxInstant
  /\ instant' = instant + 1
  /\ UNCHANGED <<window, sincePrune, admitted, turnedAway>>

Alive(w, b) == w[b] # NoWindow /\ w[b].resetAt > instant

\* Fault: the table is only pruned now and then, full or not.
PruneDueByCount(w) == sincePrune + 1 >= PruneEvery /\ w = window

PruneDue(w) == sincePrune + 1 >= PruneEvery \/ Cardinality(Tracked(w)) >= MaxTracked

\* The table as the request finds it, pruned of what expired when that is due.
Swept(w) ==
  IF PruneDue(w) THEN [b \in Buckets |-> IF Alive(w, b) THEN w[b] ELSE NoWindow] ELSE w

NeedsWindow(w, b) == ~Alive(w, b)
NoRoom(w, b) == NeedsWindow(w, b) /\ Cardinality(Tracked(w)) >= MaxTracked

\* Fault: every request starts a window of its own.
OpenedAlways(w, b) == [count |-> 0, resetAt |-> instant + WindowLength]

Opened(w, b) ==
  IF NeedsWindow(w, b) THEN [count |-> 0, resetAt |-> instant + WindowLength] ELSE w[b]

\* Fault: pruning does not start the count again.
CountsForever == sincePrune' = sincePrune + 1

CountsRequest == sincePrune' = IF PruneDue(window) THEN 0 ELSE sincePrune + 1

\* 503: no window can be opened for the client.
TurnAway(b) ==
  LET w == Swept(window)
  IN /\ NoRoom(w, b)
     /\ window' = w
     /\ turnedAway' = turnedAway \cup {<<b, Cardinality({c \in Buckets : Alive(w, c)})>>}
     /\ CountsRequest
     /\ UNCHANGED <<instant, admitted>>

\* Counted, then admitted or, past the limit, refused with 429.
Count(b) ==
  LET w == Swept(window)
      counted == [Opened(w, b) EXCEPT !.count = @ + 1]
  IN /\ ~NoRoom(w, b)
     /\ window' = [w EXCEPT ![b] = counted]
     /\ admitted' = IF counted.count > Limit[b[2]] THEN admitted
                    ELSE [admitted EXCEPT ![b] = Append(@, instant)]
     /\ CountsRequest
     /\ UNCHANGED <<instant, turnedAway>>

RateNext ==
  \/ Passes
  \/ \E b \in Buckets : TurnAway(b) \/ Count(b)

RateSpec == RateInit /\ [][RateNext]_rateVars

-----------------------------------------------------------------------------
(* Properties *)

AdmittedFrom(b, t) ==
  {n \in DOMAIN admitted[b] : t <= admitted[b][n] /\ admitted[b][n] < t + WindowLength}

\* However requests fall around the ends of windows, no stretch as long as a window
\* lets through more than twice the limit of a bucket.
LimitIsKept == \A b \in Buckets, t \in Instants : Cardinality(AdmittedFrom(b, t)) <= 2 * Limit[b[2]]

\* The table never outgrows its bound, and a client is turned away for want of room
\* only while every window of it is alive, never because of windows that ended and
\* were not swept.
RoomIsUsed ==
  /\ Cardinality(Tracked(window)) <= MaxTracked
  /\ \A turned \in turnedAway : turned[2] = MaxTracked

\* Both: the limit is kept, and keeping it costs no room.
LimitsHold == LimitIsKept /\ RoomIsUsed
=============================================================================
