------------------------- MODULE EventFeed_proofs -------------------------
(***************************************************************************)
(* Proofs about EventFeed, for any connections, any size of the buffer and  *)
(* any bounds: what subscribers of a run's events, and the person at the    *)
(* terminal UI, can rely on.                                                *)
(***************************************************************************)
EXTENDS EventFeed, FiniteSetTheorems, SequenceTheorems, WellFoundedInduction, TLAPS

-----------------------------------------------------------------------------
(* Subscriptions *)

State == [buffer : Seq(Nat), firstSeq : Nat, nextSeq : Nat, done : BOOLEAN, closed : BOOLEAN,
          consumer : {"awaiting", "hooking", "over"}]

(* Until it is closed, a state's buffer holds the events from firstSeq up to *)
(* nextSeq, and one that is done takes no more of them.                    *)
Buffered(st) ==
    /\ st.done => st.consumer = "over"
    /\ ~st.closed => /\ st.firstSeq <= st.nextSeq /\ Len(st.buffer) = st.nextSeq - st.firstSeq
                     /\ \A i \in 1..Len(st.buffer) : st.buffer[i] = st.firstSeq + i - 1

PumpInv ==
    /\ pump \in Seq(State) /\ Len(pump) > 0
    /\ \A g \in 1..Len(pump) : Buffered(pump[g])

(* A client has heard what its subscription says it has, and if that is done *)
(* with a state that was not closed, it has heard all there will be.       *)
Follows(s) ==
    /\ DOMAIN s = {"pc", "gen", "cursor", "heard"} /\ s.cursor \in Nat /\ s.heard \in Nat
    /\ s.pc # "none" =>
          /\ s.gen \in 1..Len(pump)
          /\ ~pump[s.gen].closed =>
                /\ s.heard = s.cursor
                /\ s.pc = "done" => pump[s.gen].done /\ s.heard >= pump[s.gen].nextSeq

SubInv == DOMAIN sub = Subs /\ \A c \in Subs : Follows(sub[c])

FeedInv == PumpInv /\ SubInv

LEMMA Extreme ==
    ASSUME NEW S, IsFiniteSet(S), S # {}, NEW f \in [S -> Int]
    PROVE  \E m \in S : \A x \in S : f[x] <= f[m]
<1> DEFINE Above(m) == {x \in S : f[m] <= f[x]}
           Ups == {Above(m) : m \in S}
<1>1. IsWellFoundedOn(StrictSubsetOrdering(S), SUBSET S)
  BY FS_StrictSubsetOrderingWellFounded, FS_FiniteSubsetsOfFinite
<1>2. Ups \subseteq SUBSET S /\ Ups # {}
  <2>1. PICK x : x \in S
    OBVIOUS
  <2>2. Above(x) \in Ups /\ \A y \in S : Above(y) \in SUBSET S
    BY <2>1
  <2> HIDE DEF Above
  <2> QED BY <2>2
<1>3. PICK U \in Ups : \A V \in Ups : <<V, U>> \notin StrictSubsetOrdering(S)
  <2> HIDE DEF Ups
  <2> QED BY <1>1, <1>2, WFMin, Zenon
<1>4. PICK m \in S : U = Above(m)
  BY <1>3
<1>5. ASSUME NEW x \in S, ~(f[x] <= f[m]) PROVE FALSE
  <2>1. f[x] \in Int /\ f[m] \in Int /\ f[m] < f[x]
    BY <1>5
  <2>2. ASSUME NEW y \in S, f[x] <= f[y] PROVE f[m] <= f[y]
    <3>1. f[y] \in Int
      OBVIOUS
    <3> QED BY <2>1, <2>2, <3>1
  <2>3. Above(x) \subseteq Above(m)
    BY <2>2
  <2>4. m \in Above(m) /\ m \notin Above(x)
    BY <2>1
  <2>5. <<Above(x), Above(m)>> \in StrictSubsetOrdering(S)
    BY <2>3, <2>4 DEF StrictSubsetOrdering
  <2> QED BY <1>3, <1>4, <2>5
<1> QED BY <1>5

LEMMA LeastAndGreatest ==
    ASSUME NEW S \in SUBSET Nat, NEW n \in Nat, \A x \in S : x <= n, S # {}
    PROVE  /\ \E m \in S : \A x \in S : m <= x
           /\ \E m \in S : \A x \in S : x <= m
<1>1. IsFiniteSet(S)
  <2>1. S \subseteq 0..n
    OBVIOUS
  <2>2. IsFiniteSet(0..n)
    BY FS_Interval
  <2> QED BY <2>1, <2>2, FS_Subset
<1>2. \E m \in S : \A x \in S : x <= m
  <2> DEFINE f == [x \in S |-> x]
  <2>1. f \in [S -> Int]
    OBVIOUS
  <2>2. PICK m \in S : \A x \in S : f[x] <= f[m]
    <3> HIDE DEF f
    <3> QED BY <1>1, <2>1, Extreme
  <2> QED BY <2>2
<1>3. \E m \in S : \A x \in S : m <= x
  <2> DEFINE f == [x \in S |-> 0 - x]
  <2>1. f \in [S -> Int]
    OBVIOUS
  <2>2. PICK m \in S : \A x \in S : f[x] <= f[m]
    <3> HIDE DEF f
    <3> QED BY <1>1, <2>1, Extreme
  <2>3. \A x \in S : m <= x
    BY <2>2
  <2> QED BY <2>3
<1> QED BY <1>2, <1>3

(* Of what the buffer holds the next for a subscription is the event its     *)
(* cursor names, if nothing was evicted beyond it.                         *)
LEMMA NextForCursor ==
    ASSUME NEW s, s.cursor \in Nat, NEW st \in State
    PROVE  /\ NextRetained(s, st) \in Nat
           /\ Buffered(st) /\ ~st.closed /\ st.firstSeq <= s.cursor /\ s.cursor < st.nextSeq
                 => NextRetained(s, st) = s.cursor
<1> DEFINE retained == {q \in s.cursor..st.nextSeq : q - st.firstSeq + 1 \in DOMAIN st.buffer}
<1>1. st.firstSeq \in Nat /\ st.nextSeq \in Nat /\ st.buffer \in Seq(Nat)
  BY DEF State
<1>2. /\ NextRetained(s, st) =
            IF retained = {} THEN st.nextSeq ELSE CHOOSE q \in retained : \A r \in retained : q <= r
      /\ retained \in SUBSET Nat /\ \A x \in retained : x <= st.nextSeq
  BY <1>1 DEF NextRetained
<1>3. Buffered(st) /\ ~st.closed /\ st.firstSeq <= s.cursor /\ s.cursor < st.nextSeq
         => s.cursor \in retained
  BY <1>1 DEF Buffered
<1>4. \A x \in retained : s.cursor <= x
  BY <1>1
<1> HIDE DEF retained
<1>5. CASE retained = {}
  BY <1>1, <1>2, <1>3, <1>5
<1>6. CASE retained # {}
  <2>1. \E m \in retained : \A x \in retained : m <= x
    BY <1>1, <1>2, <1>6, LeastAndGreatest
  <2>2. NextRetained(s, st) \in retained /\ \A x \in retained : NextRetained(s, st) <= x
    BY <1>2, <1>6, <2>1
  <2>3. NextRetained(s, st) \in Nat
    BY <1>2, <2>2
  <2>4. s.cursor \in retained => NextRetained(s, st) = s.cursor
    BY <1>4, <2>2, <2>3
  <2> QED BY <1>3, <2>3, <2>4
<1> QED BY <1>5, <1>6

(* What a step does to the states: none is forgotten, none is opened again,  *)
(* and one that is done gets no more events.                               *)
Onward ==
    /\ Len(pump) <= Len(pump')
    /\ \A g \in 1..Len(pump) :
          ~pump'[g].closed =>
              /\ ~pump[g].closed
              /\ pump[g].done => pump'[g].done /\ pump'[g].nextSeq = pump[g].nextSeq

LEMMA FollowsOnward ==
    ASSUME FeedInv, PumpInv', Onward, NEW c \in Subs,
           \/ sub'[c] = sub[c]
           \/ sub[c].pc = "parked" /\ sub'[c] = [sub[c] EXCEPT !.pc = "top"]
    PROVE  Follows(sub[c])'
<1> Follows(sub[c]) BY DEF FeedInv, SubInv
<1>1. Len(pump) \in Nat /\ Len(pump') \in Nat
  BY DEF FeedInv, PumpInv
<1>2. sub[c].pc # "none" => sub[c].gen \in 1..Len(pump) /\ sub[c].gen \in 1..Len(pump')
  BY <1>1 DEF Follows, Onward
<1> QED BY <1>2 DEF Follows, Onward

LEMMA WokenSubs ==
    ASSUME SubInv, NEW g, Wake(g)
    PROVE  /\ DOMAIN sub' = Subs
           /\ \A c \in Subs :
                 \/ sub'[c] = sub[c]
                 \/ sub[c].pc = "parked" /\ sub'[c] = [sub[c] EXCEPT !.pc = "top"]
BY DEF SubInv, Wake, Woken

LEMMA StateChanges ==
    ASSUME PumpInv, NEW g \in 1..Len(pump), NEW st \in State, Buffered(st),
           pump' = [pump EXCEPT ![g] = st],
           ~st.closed => /\ ~pump[g].closed
                         /\ pump[g].done => st.done /\ st.nextSeq = pump[g].nextSeq
    PROVE  PumpInv' /\ Onward
<1>1. pump' \in Seq(State) /\ Len(pump') = Len(pump) /\ DOMAIN pump = 1..Len(pump)
  BY DEF PumpInv
<1>2. \A h \in 1..Len(pump) : pump'[h] = IF h = g THEN st ELSE pump[h]
  BY <1>1
<1> QED BY <1>1, <1>2 DEF PumpInv, Onward

(* A run of numbers, with one more at its end, and without its first ones.   *)
RunOf(b, first) == \A i \in 1..Len(b) : b[i] = first + i - 1

LEMMA RunGrows ==
    ASSUME NEW b \in Seq(Nat), NEW first \in Nat, RunOf(b, first)
    PROVE  LET grown == Append(b, first + Len(b))
           IN  grown \in Seq(Nat) /\ Len(grown) = Len(b) + 1 /\ RunOf(grown, first)
<1> DEFINE grown == Append(b, first + Len(b))
<1>1. /\ Len(b) \in Nat /\ grown \in Seq(Nat) /\ Len(grown) = Len(b) + 1
      /\ \A i \in 1..Len(b) : grown[i] = b[i]
      /\ grown[Len(b) + 1] = first + Len(b)
  OBVIOUS
<1> HIDE DEF grown
<1>2. ASSUME NEW i \in 1..Len(grown) PROVE grown[i] = first + i - 1
  <2>1. CASE i \in 1..Len(b)
    BY <1>1, <2>1 DEF RunOf
  <2>2. CASE i = Len(b) + 1
    BY <1>1, <2>2
  <2> QED BY <1>1, <2>1, <2>2
<1> QED BY <1>1, <1>2 DEF RunOf, grown

LEMMA RunSlides ==
    ASSUME NEW b \in Seq(Nat), NEW first \in Nat, RunOf(b, first), NEW d \in Nat, d <= Len(b)
    PROVE  LET kept == SubSeq(b, d + 1, Len(b))
           IN  kept \in Seq(Nat) /\ Len(kept) = Len(b) - d /\ RunOf(kept, first + d)
<1> DEFINE kept == SubSeq(b, d + 1, Len(b))
<1>1. Len(b) \in Nat
  OBVIOUS
<1>2. Len(kept) = Len(b) - d /\ \A i \in 1..(Len(b) - d) : kept[i] = b[i + d]
  BY <1>1
<1>3. kept \in Seq(Nat)
  <2>1. \A i \in (d + 1)..Len(b) : b[i] \in Nat
    BY <1>1
  <2>2. d + 1 \in Int /\ Len(b) \in Int
    BY <1>1
  <2> QED BY <2>1, <2>2, SubSeqProperties, Zenon
<1> HIDE DEF kept
<1>4. ASSUME NEW i \in 1..Len(kept) PROVE kept[i] = first + d + i - 1
  <2>1. i + d \in 1..Len(b) /\ kept[i] = b[i + d]
    BY <1>1, <1>2
  <2> QED BY <2>1 DEF RunOf
<1> QED BY <1>2, <1>3, <1>4 DEF RunOf, kept

(* One more event in a buffer that is not closed.                          *)
LEMMA AppendedIsBuffered ==
    ASSUME NEW st \in State, Buffered(st), ~st.closed, ~st.done
    PROVE  LET new == [Appended(st) EXCEPT !.consumer = "hooking"]
           IN  new \in State /\ Buffered(new) /\ ~new.done
<1> DEFINE grown == Append(st.buffer, st.nextSeq)
           dropped == IF Len(grown) > bufferLimit THEN Len(grown) - bufferLimit ELSE 0
           kept == SubSeq(grown, dropped + 1, Len(grown))
           new == [Appended(st) EXCEPT !.consumer = "hooking"]
<1>1. /\ st.firstSeq \in Nat /\ st.nextSeq \in Nat /\ st.buffer \in Seq(Nat)
      /\ st.firstSeq <= st.nextSeq /\ Len(st.buffer) = st.nextSeq - st.firstSeq
      /\ RunOf(st.buffer, st.firstSeq)
  BY DEF State, Buffered, RunOf
<1>2. /\ grown \in Seq(Nat) /\ Len(grown) = st.nextSeq - st.firstSeq + 1
      /\ RunOf(grown, st.firstSeq)
  <2>1. st.nextSeq = st.firstSeq + Len(st.buffer)
    BY <1>1
  <2> QED BY <1>1, <2>1, RunGrows
<1>3. dropped \in Nat /\ dropped < Len(grown)
  <2> HIDE DEF grown
  <2> QED BY <1>1, <1>2, PumpAssumption
<1>4. new = [st EXCEPT !.buffer = kept, !.firstSeq = st.firstSeq + dropped,
                       !.nextSeq = st.nextSeq + 1, !.consumer = "hooking"]
  <2>1. Appended(st) = [st EXCEPT !.buffer = kept, !.firstSeq = st.firstSeq + dropped,
                                  !.nextSeq = st.nextSeq + 1]
    BY DEF Appended
  <2> HIDE DEF kept, dropped
  <2> QED BY <2>1 DEF State
<1> HIDE DEF grown, dropped, new
<1>5. /\ kept \in Seq(Nat) /\ Len(kept) = Len(grown) - dropped
      /\ RunOf(kept, st.firstSeq + dropped)
  BY <1>1, <1>2, <1>3, RunSlides, SMTT(30)
<1> HIDE DEF kept
<1>6. /\ new.buffer = kept /\ new.firstSeq = st.firstSeq + dropped
      /\ new.nextSeq = st.nextSeq + 1 /\ new.done = st.done
  BY <1>4 DEF State
<1>7. new \in State
  <2>1. st.firstSeq + dropped \in Nat /\ st.nextSeq + 1 \in Nat
    BY <1>1, <1>3
  <2>2. new = [buffer |-> kept, firstSeq |-> st.firstSeq + dropped, nextSeq |-> st.nextSeq + 1,
               done |-> st.done, closed |-> st.closed, consumer |-> "hooking"]
    BY <1>4 DEF State
  <2>3. st.done \in BOOLEAN /\ st.closed \in BOOLEAN
    BY DEF State
  <2>4. kept \in Seq(Nat)
    BY <1>5
  <2> QED BY ONLY <2>1, <2>2, <2>3, <2>4 DEF State
<1>8. Buffered(new)
  <2>1. /\ st.firstSeq + dropped <= st.nextSeq + 1
        /\ Len(kept) = st.nextSeq + 1 - (st.firstSeq + dropped)
    <3>1. /\ st.firstSeq \in Nat /\ st.nextSeq \in Nat /\ dropped \in Nat
          /\ dropped < st.nextSeq - st.firstSeq + 1
          /\ Len(kept) = (st.nextSeq - st.firstSeq + 1) - dropped
      BY <1>1, <1>2, <1>3, <1>5
    <3> QED BY ONLY <3>1
  <2>2. ~new.done
    BY <1>6
  <2>3. \A i \in 1..Len(new.buffer) : new.buffer[i] = new.firstSeq + i - 1
    <3>1. RunOf(new.buffer, new.firstSeq)
      BY <1>5, <1>6, Zenon
    <3> QED BY <3>1, Zenon DEF RunOf
  <2>4. new.firstSeq <= new.nextSeq /\ Len(new.buffer) = new.nextSeq - new.firstSeq
    <3>1. /\ st.firstSeq \in Nat /\ st.nextSeq \in Nat /\ dropped \in Nat /\ Len(kept) \in Nat
      BY <1>1, <1>3, <1>5
    <3>2. new.firstSeq \in Nat /\ new.nextSeq \in Nat /\ new.firstSeq <= new.nextSeq
      BY ONLY <1>6, <2>1, <3>1
    <3>3. Len(new.buffer) = Len(kept)
      BY ONLY <1>6
    <3>4. Len(new.buffer) = new.nextSeq - new.firstSeq
      BY ONLY <1>6, <2>1, <3>1, <3>3
    <3> QED BY <3>2, <3>4
  <2> QED BY <2>2, <2>3, <2>4, Zenon DEF Buffered
<1> QED BY <1>6, <1>7, <1>8 DEF new

LEMMA FeedInit == Init => FeedInv
<1> SUFFICES ASSUME Init PROVE FeedInv
  OBVIOUS
<1>1. NewState \in State /\ Buffered(NewState)
  BY DEF NewState, State, Buffered
<1>2. PumpInv
  BY <1>1 DEF Init, PumpInit, PumpInv
<1>3. SubInv
  BY DEF Init, PumpInit, SubInv, Follows, NoSub
<1> QED BY <1>2, <1>3 DEF FeedInv

LEMMA ConsumerKeepsFeed ==
    ASSUME FeedInv, NEW g \in DOMAIN pump,
           \/ \E kind \in Kinds : Consume(g, kind)
           \/ Hooked(g) \/ StreamEnds(g) \/ CancelledStreamEnds(g)
    PROVE  FeedInv'
<1>1. /\ PumpInv /\ SubInv /\ pump \in Seq(State) /\ g \in 1..Len(pump)
      /\ pump[g] \in State /\ Buffered(pump[g])
  BY DEF FeedInv, PumpInv
<1>2. ASSUME NEW st \in State, Buffered(st), pump' = [pump EXCEPT ![g] = st],
             ~st.closed => /\ ~pump[g].closed
                           /\ pump[g].done => st.done /\ st.nextSeq = pump[g].nextSeq,
             Wake(g) \/ UNCHANGED sub
      PROVE  FeedInv'
  <2>1. PumpInv' /\ Onward
    BY <1>1, <1>2, StateChanges
  <2>2. /\ DOMAIN sub' = Subs
        /\ \A c \in Subs :
              \/ sub'[c] = sub[c]
              \/ sub[c].pc = "parked" /\ sub'[c] = [sub[c] EXCEPT !.pc = "top"]
    BY <1>1, <1>2, WokenSubs DEF SubInv
  <2>3. \A c \in Subs : Follows(sub[c])'
    BY <2>1, <2>2, FollowsOnward
  <2> QED BY <2>1, <2>2, <2>3 DEF FeedInv, SubInv
<1>3. ASSUME NEW kind \in Kinds, Consume(g, kind) PROVE FeedInv'
  <2> DEFINE st == [Appended(pump[g]) EXCEPT !.consumer = "hooking"]
  <2>1. /\ ~pump[g].closed /\ pump[g].consumer = "awaiting" /\ sub' = sub
        /\ pump' = [pump EXCEPT ![g] = st]
    BY <1>3 DEF Consume
  <2>2. ~pump[g].done
    BY <1>1, <2>1 DEF Buffered
  <2> HIDE DEF st
  <2>3. st \in State /\ Buffered(st)
    BY <1>1, <2>1, <2>2, AppendedIsBuffered DEF st
  <2> QED BY <1>2, <2>1, <2>2, <2>3
<1>4. CASE Hooked(g)
  <2> DEFINE st == [pump[g] EXCEPT !.consumer = "awaiting"]
  <2>1. pump[g].consumer = "hooking" /\ pump' = [pump EXCEPT ![g] = st] /\ Wake(g)
    BY <1>4 DEF Hooked
  <2>2. st \in State /\ st.closed = pump[g].closed /\ st.done = pump[g].done
        /\ st.nextSeq = pump[g].nextSeq /\ st.firstSeq = pump[g].firstSeq
        /\ st.buffer = pump[g].buffer
    BY <1>1 DEF State
  <2> HIDE DEF st
  <2>3. Buffered(st)
    BY <1>1, <2>1, <2>2 DEF Buffered
  <2> QED BY <1>2, <2>1, <2>2, <2>3
<1>5. CASE StreamEnds(g) \/ CancelledStreamEnds(g)
  <2> DEFINE st == [pump[g] EXCEPT !.done = TRUE, !.consumer = "over"]
  <2>1. pump' = [pump EXCEPT ![g] = st] /\ Wake(g)
    <3>1. Finally(g)
      BY <1>5 DEF StreamEnds, CancelledStreamEnds
    <3> QED BY <1>1, <3>1 DEF Finally, State
  <2>2. st \in State /\ st.closed = pump[g].closed /\ st.done = TRUE /\ st.consumer = "over"
        /\ st.nextSeq = pump[g].nextSeq /\ st.firstSeq = pump[g].firstSeq
        /\ st.buffer = pump[g].buffer
    BY <1>1 DEF State
  <2> HIDE DEF st
  <2>3. Buffered(st)
    BY <1>1, <2>2 DEF Buffered
  <2> QED BY <1>2, <2>1, <2>2, <2>3
<1> QED BY <1>3, <1>4, <1>5

LEMMA ClosedAndEmptied ==
    ASSUME NEW f, NEW n \in DOMAIN f, NEW e
    PROVE  [f EXCEPT ![n].closed = TRUE, ![n].buffer = e] =
           [f EXCEPT ![n] = [f[n] EXCEPT !.closed = TRUE, !.buffer = e]]
OBVIOUS

LEMMA RunKeepsFeed ==
    ASSUME FeedInv, CloseRun \/ ResetRun
    PROVE  FeedInv'
<1> DEFINE n == Len(pump)
<1>1. /\ PumpInv /\ SubInv /\ pump \in Seq(State) /\ n \in 1..Len(pump)
      /\ pump[n] \in State /\ Buffered(pump[n]) /\ n \in Nat
  BY DEF FeedInv, PumpInv
<1>2. Wake(n) /\ PumpInv' /\ Onward
  <2>1. CASE CloseRun
    <3> DEFINE st == [pump[n] EXCEPT !.closed = TRUE, !.buffer = <<>>]
    <3>1. pump' = [pump EXCEPT ![n] = st] /\ Wake(n)
      <4>1. Wake(n) /\ pump' = [pump EXCEPT ![n].closed = TRUE, ![n].buffer = <<>>]
        BY <2>1 DEF CloseRun
      <4>2. n \in DOMAIN pump
        BY <1>1
      <4> HIDE DEF n
      <4> QED BY <4>1, <4>2, ClosedAndEmptied
    <3>2. st \in State /\ st.closed /\ st.done = pump[n].done /\ st.consumer = pump[n].consumer
      <4>1. pump[n] \in State /\ <<>> \in Seq(Nat)
        BY <1>1
      <4> HIDE DEF n
      <4>2. st.closed /\ st.done = pump[n].done /\ st.consumer = pump[n].consumer
        BY <4>1 DEF State
      <4>3. st \in State
        BY ONLY <4>1 DEF State, st
      <4> QED BY <4>2, <4>3
    <3> HIDE DEF st, n
    <3>3. Buffered(st)
      BY <1>1, <3>2 DEF Buffered
    <3> QED BY <1>1, <3>1, <3>2, <3>3, StateChanges
  <2>2. CASE ResetRun
    <3> DEFINE shut == [pump[n] EXCEPT !.closed = TRUE]
               old == [pump EXCEPT ![n] = shut]
    <3>1. pump' = Append(old, NewState) /\ Wake(n)
      BY <1>1, <2>2 DEF ResetRun
    <3>2. shut \in State /\ Buffered(shut) /\ shut.closed
      BY <1>1 DEF Buffered, State
    <3>3. NewState \in State /\ Buffered(NewState)
      BY DEF NewState, State, Buffered
    <3> HIDE DEF shut
    <3>4. /\ old \in Seq(State) /\ Len(old) = Len(pump)
          /\ \A g \in 1..Len(pump) : old[g] = IF g = n THEN shut ELSE pump[g]
      BY <1>1, <3>2
    <3> HIDE DEF old, n
    <3>5. /\ pump' \in Seq(State) /\ Len(pump') = Len(pump) + 1
          /\ pump'[Len(pump) + 1] = NewState
          /\ \A g \in 1..Len(pump) : pump'[g] = old[g]
      BY <3>1, <3>3, <3>4
    <3>6. \A g \in 1..Len(pump) : pump'[g] = IF g = n THEN shut ELSE pump[g]
      BY <3>4, <3>5
    <3>7. PumpInv'
      <4>1. Len(pump) \in Nat /\ \A g \in 1..Len(pump) : Buffered(pump[g])
        BY <1>1 DEF PumpInv
      <4>2. ASSUME NEW g \in 1..Len(pump') PROVE Buffered(pump'[g])
        <5>1. g = Len(pump) + 1 \/ g \in 1..Len(pump)
          BY <3>5, <4>1
        <5> QED BY <3>2, <3>3, <3>5, <3>6, <4>1, <5>1
      <4> QED BY <3>5, <4>1, <4>2 DEF PumpInv
    <3>8. Onward
      <4>1. Len(pump) \in Nat
        BY <1>1
      <4>2. ASSUME NEW g \in 1..Len(pump), ~pump'[g].closed PROVE pump'[g] = pump[g]
        BY <3>2, <3>6, <4>2
      <4> QED BY <3>5, <4>1, <4>2 DEF Onward
    <3> QED BY <3>1, <3>7, <3>8
  <2> QED BY <2>1, <2>2
<1>3. /\ DOMAIN sub' = Subs
      /\ \A c \in Subs :
            \/ sub'[c] = sub[c]
            \/ sub[c].pc = "parked" /\ sub'[c] = [sub[c] EXCEPT !.pc = "top"]
  BY <1>1, <1>2, WokenSubs
<1>4. \A c \in Subs : Follows(sub[c])'
  BY <1>2, <1>3, FollowsOnward
<1> QED BY <1>2, <1>3, <1>4 DEF FeedInv, SubInv

(* A step of one subscription.                                             *)
LEMMA OneSubSteps ==
    ASSUME FeedInv, NEW c \in Subs, pump' = pump, NEW s, sub' = [sub EXCEPT ![c] = s], Follows(s)
    PROVE  FeedInv'
BY DEF FeedInv, PumpInv, SubInv, Follows

LEMMA TurnKeepsFeed ==
    ASSUME FeedInv, NEW c \in Subs, Turn(c)
    PROVE  FeedInv'
<1> DEFINE s == sub[c]
           st == pump[s.gen]
           q == NextRetained(s, st)
<1>1. /\ s.pc \in {"top", "gapped", "inner"} /\ pump' = pump
      /\ sub' = [sub EXCEPT ![c] =
            IF s.pc # "gapped" /\ st.closed THEN [s EXCEPT !.pc = "done"]
            ELSE IF Evicted(s, st)
            THEN [HearsGap(s, st) EXCEPT !.pc = IF s.pc = "top" THEN "gapped" ELSE "inner"]
            ELSE IF s.cursor < st.nextSeq /\ q < st.nextSeq
            THEN [HearsEvent(s, st, q) EXCEPT !.pc = "inner"]
            ELSE [s EXCEPT !.cursor = IF @ < st.nextSeq THEN st.nextSeq ELSE @,
                           !.pc = IF st.done THEN "done" ELSE "parked"]]
  BY DEF Turn
<1>2. Follows(s)
  BY DEF FeedInv, SubInv
<1>3. s.gen \in 1..Len(pump) /\ st \in State /\ Buffered(st)
  BY <1>1, <1>2 DEF Follows, FeedInv, PumpInv
<1>4. /\ st.firstSeq \in Nat /\ st.nextSeq \in Nat /\ st.buffer \in Seq(Nat)
      /\ s.cursor \in Nat /\ s.heard \in Nat /\ DOMAIN s = {"pc", "gen", "cursor", "heard"}
      /\ ~st.closed => s.heard = s.cursor
  BY <1>1, <1>2, <1>3 DEF State, Follows
<1>5. /\ q \in Nat
      /\ ~st.closed /\ st.firstSeq <= s.cursor /\ s.cursor < st.nextSeq => q = s.cursor
  BY <1>3, <1>4, NextForCursor
<1> HIDE DEF q
<1>6. CASE s.pc # "gapped" /\ st.closed
  <2>1. Follows([s EXCEPT !.pc = "done"])
    BY <1>3, <1>4, <1>6 DEF Follows
  <2> QED BY <1>1, <1>6, <2>1, OneSubSteps
<1>7. CASE ~(s.pc # "gapped" /\ st.closed) /\ Evicted(s, st)
  <2> DEFINE pc == IF s.pc = "top" THEN "gapped" ELSE "inner"
             new == [HearsGap(s, st) EXCEPT !.pc = pc]
  <2>1. /\ new.pc = pc /\ new.gen = s.gen /\ new.cursor = st.firstSeq
        /\ new.heard = s.heard + (st.firstSeq - s.cursor)
        /\ DOMAIN new = {"pc", "gen", "cursor", "heard"}
    BY <1>4 DEF HearsGap
  <2>2. sub' = [sub EXCEPT ![c] = new]
    BY <1>1, <1>7
  <2>3. pc # "done"
    OBVIOUS
  <2>4. s.heard + (st.firstSeq - s.cursor) \in Nat
    BY <1>4, <1>7 DEF Evicted
  <2> HIDE DEF new, pc
  <2>5. Follows(new)
    BY <1>3, <1>4, <2>1, <2>3, <2>4 DEF Follows
  <2> QED BY <1>1, <2>2, <2>5, OneSubSteps
<1>8. CASE /\ ~(s.pc # "gapped" /\ st.closed) /\ ~Evicted(s, st)
           /\ s.cursor < st.nextSeq /\ q < st.nextSeq
  <2> DEFINE heard == IF st.buffer[q - st.firstSeq + 1] = s.heard THEN s.heard + 1 ELSE s.heard
             new == [HearsEvent(s, st, q) EXCEPT !.pc = "inner"]
  <2>1. /\ new.pc = "inner" /\ new.gen = s.gen /\ new.cursor = q + 1 /\ new.heard = heard
        /\ DOMAIN new = {"pc", "gen", "cursor", "heard"}
    BY <1>4 DEF HearsEvent
  <2>2. sub' = [sub EXCEPT ![c] = new]
    BY <1>1, <1>8
  <2>3. heard \in Nat
    BY <1>4
  <2>4. ~st.closed => heard = q + 1
    <3> SUFFICES ASSUME ~st.closed PROVE heard = q + 1
      OBVIOUS
    <3>1. st.firstSeq <= s.cursor
      BY <1>4, <1>8 DEF Evicted
    <3>2. q = s.cursor /\ s.heard = q
      BY <1>4, <1>5, <1>8, <3>1
    <3>3. q - st.firstSeq + 1 \in 1..Len(st.buffer)
      BY <1>3, <1>4, <1>8, <3>1, <3>2 DEF Buffered
    <3>4. st.buffer[q - st.firstSeq + 1] = st.firstSeq + (q - st.firstSeq + 1) - 1
      BY <1>3, <3>3 DEF Buffered
    <3>5. st.buffer[q - st.firstSeq + 1] = q
      BY <1>4, <1>5, <3>4
    <3> QED BY <3>2, <3>5
  <2> HIDE DEF new, heard
  <2>5. Follows(new)
    BY <1>3, <1>5, <2>1, <2>3, <2>4 DEF Follows
  <2> QED BY <1>1, <2>2, <2>5, OneSubSteps
<1>9. CASE /\ ~(s.pc # "gapped" /\ st.closed) /\ ~Evicted(s, st)
           /\ ~(s.cursor < st.nextSeq /\ q < st.nextSeq)
  <2> DEFINE cursor == IF s.cursor < st.nextSeq THEN st.nextSeq ELSE s.cursor
             pc == IF st.done THEN "done" ELSE "parked"
             new == [s EXCEPT !.cursor = cursor, !.pc = pc]
  <2>1. new.pc = pc /\ new.gen = s.gen /\ new.cursor = cursor /\ new.heard = s.heard
        /\ DOMAIN new = {"pc", "gen", "cursor", "heard"}
    BY <1>4
  <2>2. sub' = [sub EXCEPT ![c] = new]
    BY <1>1, <1>9
  <2>3. cursor \in Nat /\ (pc = "done" => st.done)
    BY <1>4
  <2>4. ~st.closed => s.heard = cursor /\ s.heard >= st.nextSeq
    <3>1. ~st.closed => st.firstSeq <= s.cursor /\ ~(s.cursor < st.nextSeq)
      BY <1>4, <1>5, <1>9 DEF Evicted
    <3> QED BY <1>4, <3>1
  <2> HIDE DEF new, cursor, pc
  <2>5. Follows(new)
    BY <1>3, <1>4, <2>1, <2>3, <2>4 DEF Follows
  <2> QED BY <1>1, <2>2, <2>5, OneSubSteps
<1> QED BY <1>6, <1>7, <1>8, <1>9

LEMMA FeedStep == FeedInv /\ [Next]_vars => FeedInv'
<1> SUFFICES ASSUME FeedInv, [Next]_vars PROVE FeedInv'
  OBVIOUS
<1>1. CASE UNCHANGED pumpVars
  BY <1>1 DEF pumpVars, FeedInv, PumpInv, SubInv, Follows
<1>2. ASSUME NEW g \in DOMAIN pump,
             \/ \E kind \in Kinds : Consume(g, kind)
             \/ Hooked(g) \/ StreamEnds(g) \/ CancelledStreamEnds(g)
      PROVE  FeedInv'
  BY <1>2, ConsumerKeepsFeed
<1>3. ASSUME NEW c \in Subs, NEW from \in {0, pump[Len(pump)].firstSeq, sub[c].heard},
             Subscribe(c, from)
      PROVE  FeedInv'
  <2> DEFINE s == [pc |-> "top", gen |-> Len(pump), cursor |-> from, heard |-> from]
  <2>1. pump' = pump /\ sub' = [sub EXCEPT ![c] = s]
    BY <1>3 DEF Subscribe
  <2>2. from \in Nat /\ Len(pump) \in 1..Len(pump)
    <3>1. pump \in Seq(State) /\ Len(pump) \in 1..Len(pump)
      BY DEF FeedInv, PumpInv
    <3>2. pump[Len(pump)].firstSeq \in Nat
      <4>1. pump[Len(pump)] \in State
        BY <3>1
      <4> QED BY <4>1 DEF State
    <3>3. sub[c].heard \in Nat
      BY DEF FeedInv, SubInv, Follows
    <3> QED BY <3>1, <3>2, <3>3
  <2>3. Follows(s)
    BY <2>2 DEF Follows
  <2> HIDE DEF s
  <2> QED BY <2>1, <2>3, OneSubSteps
<1>4. ASSUME NEW c \in Subs, Disconnect(c) PROVE FeedInv'
  <2>1. pump' = pump /\ sub' = [sub EXCEPT ![c] = NoSub]
    BY <1>4 DEF Disconnect
  <2>2. Follows(NoSub)
    BY DEF Follows, NoSub
  <2> QED BY <2>1, <2>2, OneSubSteps
<1>5. ASSUME NEW c \in Subs, Turn(c) PROVE FeedInv'
  BY <1>5, TurnKeepsFeed
<1>6. CASE CloseRun \/ ResetRun
  BY <1>6, RunKeepsFeed
<1>7. CASE PumpStep
  BY <1>2, <1>3, <1>4, <1>5, <1>6, <1>7 DEF PumpStep
<1> QED BY <1>1, <1>7 DEF Next, vars

(* By the frames and the gaps it was sent a client knows where it stands, and *)
(* when a stream is done for it, it has heard of every event there was       *)
(* (event-pump.js, subscribe).                                             *)
THEOREM ClientsKnowTheirPlace == Spec => []NothingUnannounced
<1>1. FeedInv => NothingUnannounced
  BY DEF FeedInv, PumpInv, SubInv, Follows, NothingUnannounced
<1> QED BY <1>1, FeedInit, FeedStep, PTL DEF Spec

-----------------------------------------------------------------------------
(* The request a detail view decides on *)

(* The selection is a listed request or none, and a detail view is open only  *)
(* on the selection it was opened for.                                     *)
Decided(u) ==
    /\ DOMAIN u = {"focus", "hidden", "requests", "selected", "opened"}
    /\ u.requests \subseteq Requests
    /\ u.selected # None => u.selected \in u.requests
    /\ u.focus = "requestDetail" => u.selected = u.opened /\ u.selected # None

ViewInv ==
    /\ DOMAIN requests = {"landed", "pending"}
    /\ requests.landed \in Nat /\ requests.pending \subseteq Requests
    /\ DOMAIN slot = Ticks
    /\ \A t \in Ticks : slot[t].pc = "answered" => slot[t].requests \subseteq Requests
    /\ Decided(ui)

LEMMA MaxIsListed ==
    ASSUME NEW S \in SUBSET Requests, S # {}
    PROVE  Max(S) \in S /\ Min(S) \in S
<1>1. S \in SUBSET Nat /\ MaxRequests \in Nat /\ \A x \in S : x <= MaxRequests
  BY TuiAssumption DEF Requests
<1>2. (\E m \in S : \A x \in S : m <= x) /\ \E m \in S : \A x \in S : x <= m
  BY <1>1, LeastAndGreatest
<1>3. \E m \in S : \A x \in S : m >= x
  BY <1>1, <1>2
<1> QED BY <1>2, <1>3 DEF Max, Min

LEMMA RefreshKeepsDecided ==
    ASSUME NEW u, Decided(u), NEW list \in SUBSET Requests
    PROVE  Decided(withRequests(u, list))
<1>1. CASE list = {}
  <2> DEFINE focus == IF u.focus \in {"requests", "requestDetail"} THEN "tree" ELSE u.focus
  <2>1. focus # "requestDetail"
    OBVIOUS
  <2> HIDE DEF focus
  <2>2. withRequests(u, list) =
           [u EXCEPT !.requests = {}, !.hidden = FALSE, !.selected = None, !.focus = focus]
    BY <1>1 DEF withRequests, focus
  <2> QED BY <2>1, <2>2 DEF Decided
<1>2. CASE list # {} /\ u.selected \in list
  BY <1>2 DEF withRequests, Decided
<1>3. CASE list # {} /\ u.selected \notin list
  <2>1. Max(list) \in list
    BY <1>3, MaxIsListed
  <2>2. LeaveDetail(u.focus) # "requestDetail"
    BY DEF LeaveDetail
  <2>3. withRequests(u, list) =
           [u EXCEPT !.requests = list, !.selected = Max(list), !.focus = LeaveDetail(u.focus)]
    BY <1>3 DEF withRequests
  <2> HIDE DEF LeaveDetail
  <2> QED BY <2>1, <2>2, <2>3 DEF Decided
<1> QED BY <1>1, <1>2, <1>3

(* What keys can ask for; only in the panel does a key move the selection.   *)
Elsewhere == {"focusChat", "blurChat", "blurRequests", "treeUp", "treeDown", "openSelected",
              "cyclePane", "closeRequestDetail", "acceptRequest", "declineRequest", "hideRequests"}

LEMMA KeysAsk ==
    ASSUME NEW focus, NEW key \in DOMAIN Bound(focus)
    PROVE  \/ Bound(focus)[key] \in Elsewhere \cup {"toggleRequestsHidden", "openRequestDetail"}
           \/ focus = "requests" /\ Bound(focus)[key] \in {"requestUp", "requestDown"}
<1>1. CASE focus = "chat"
  BY <1>1 DEF Bound, ChatKeys, Elsewhere
<1>2. CASE focus = "requestDetail"
  BY <1>2 DEF Bound, Before, DetailKeys, GlobalKeys, Elsewhere
<1>3. CASE focus = "requests"
  BY <1>3 DEF Bound, Before, RequestKeys, GlobalKeys, Elsewhere
<1>4. CASE focus \notin {"chat", "requestDetail", "requests"}
  BY <1>4 DEF Bound, GlobalKeys, Elsewhere
<1> QED BY <1>1, <1>2, <1>3, <1>4

LEMMA ActionsKeepDecided ==
    ASSUME NEW u, Decided(u), NEW action,
           \/ action \in Elsewhere \cup {"toggleRequestsHidden", "openRequestDetail"}
           \/ u.focus = "requests" /\ action \in {"requestUp", "requestDown"}
    PROVE  Decided(applyAction(u, action))
<1>1. ASSUME NEW focus, focus # "requestDetail", NEW hidden
      PROVE  Decided([u EXCEPT !.focus = focus]) /\ Decided([u EXCEPT !.hidden = hidden, !.focus = focus])
  BY <1>1 DEF Decided
<1>2. CASE action \in Elsewhere
  <2>1. CASE action = "focusChat"
    BY <1>1, <2>1 DEF applyAction
  <2>2. CASE action \in {"blurChat", "blurRequests", "treeUp", "treeDown"}
    BY <1>1, <2>2 DEF applyAction
  <2>3. CASE action \in {"openSelected", "cyclePane"}
    BY <1>1, <2>3 DEF applyAction
  <2>4. CASE action = "closeRequestDetail"
    <3>1. (IF u.hidden THEN "tree" ELSE "requests") # "requestDetail"
      OBVIOUS
    <3>2. applyAction(u, action) = [u EXCEPT !.focus = IF u.hidden THEN "tree" ELSE "requests"]
      BY <2>4 DEF applyAction
    <3> QED BY <1>1, <3>1, <3>2
  <2>5. CASE action \in {"acceptRequest", "declineRequest"}
    BY <1>1, <2>5 DEF applyAction
  <2>6. CASE action = "hideRequests"
    BY <1>1, <2>6 DEF applyAction
  <2> QED BY <1>2, <2>1, <2>2, <2>3, <2>4, <2>5, <2>6 DEF Elsewhere
<1>3. CASE action = "toggleRequestsHidden"
  <2> DEFINE focus == IF ~u.hidden /\ u.focus = "requests" THEN "tree" ELSE u.focus
  <2>1. applyAction(u, action) = [u EXCEPT !.hidden = ~u.hidden, !.focus = focus]
    BY <1>3 DEF applyAction
  <2>2. focus = u.focus \/ focus # "requestDetail"
    OBVIOUS
  <2> HIDE DEF focus
  <2> QED BY <2>1, <2>2 DEF Decided
<1>4. CASE action = "openRequestDetail"
  BY <1>4 DEF applyAction, OpenDetail, Decided
<1>5. CASE u.focus = "requests" /\ action \in {"requestUp", "requestDown"}
  <2>1. applyAction(u, action) = [u EXCEPT !.selected = Neighbour(u, action)]
    BY <1>5 DEF applyAction
  <2>2. Neighbour(u, action) = u.selected \/ Neighbour(u, action) \in u.requests
    <3> DEFINE others == {r \in u.requests : IF action = "requestUp" THEN r > u.selected
                                                                     ELSE r < u.selected}
    <3>1. others \subseteq u.requests /\ others \in SUBSET Requests
      BY DEF Decided
    <3>2. Neighbour(u, action) = IF others = {} THEN u.selected
                                 ELSE IF action = "requestUp" THEN Min(others) ELSE Max(others)
      BY DEF Neighbour
    <3> HIDE DEF others
    <3> QED BY <3>1, <3>2, MaxIsListed
  <2> QED BY <1>5, <2>1, <2>2 DEF Decided
<1> QED BY <1>2, <1>3, <1>4, <1>5

LEMMA ViewInit == Init => ViewInv
<1> SUFFICES ASSUME Init PROVE ViewInv
  OBVIOUS
<1>1. Decided(ui)
  BY DEF Init, TuiInit, initialState, Decided, None
<1> QED BY <1>1 DEF Init, TuiInit, ViewInv, Idle

LEMMA ViewStep == ViewInv /\ [Next]_vars => ViewInv'
<1> SUFFICES ASSUME ViewInv, [Next]_vars PROVE ViewInv'
  OBVIOUS
<1> Decided(ui) BY DEF ViewInv
<1>1. CASE UNCHANGED tuiVars
  BY <1>1 DEF tuiVars, ViewInv, Decided
<1>2. ASSUME UNCHANGED <<slot, requests>>, Decided(ui') PROVE ViewInv'
  BY <1>2 DEF ViewInv, Decided
<1>3. ASSUME NEW t \in Ticks, Tick(t) \/ Fails(t) PROVE ViewInv'
  <2>1. /\ UNCHANGED <<ui, requests>> /\ DOMAIN slot' = Ticks /\ slot'[t].pc # "answered"
        /\ \A o \in Ticks \ {t} : slot'[o] = slot[o]
    BY <1>3 DEF Tick, Fails, ViewInv
  <2> QED BY <2>1 DEF ViewInv, Decided
<1>4. ASSUME NEW t \in Ticks, tuiSnapshot(t) PROVE ViewInv'
  <2>1. /\ UNCHANGED <<ui, requests>> /\ DOMAIN slot' = Ticks
        /\ slot'[t].requests = requests.pending
        /\ \A o \in Ticks \ {t} : slot'[o] = slot[o]
    BY <1>4 DEF tuiSnapshot, ViewInv
  <2> QED BY <2>1 DEF ViewInv, Decided
<1>5. ASSUME NEW t \in Ticks, Apply(t) PROVE ViewInv'
  <2>1. /\ UNCHANGED requests /\ DOMAIN slot' = Ticks /\ slot'[t].pc = "idle"
        /\ \A o \in Ticks \ {t} : slot'[o] = slot[o]
        /\ slot[t].requests \in SUBSET Requests /\ ui' = withRequests(ui, slot[t].requests)
    BY <1>5 DEF Apply, ViewInv, Idle
  <2>2. Decided(ui')
    BY <2>1, RefreshKeepsDecided
  <2>3. \A o \in Ticks : slot'[o].pc = "answered" => slot'[o].requests \subseteq Requests
    BY <2>1 DEF ViewInv
  <2> QED BY <2>1, <2>2, <2>3 DEF ViewInv, Decided
<1>6. ASSUME NEW r \in Requests, Handled(r) PROVE ViewInv'
  BY <1>6 DEF Handled, ViewInv, Decided
<1>7. CASE Lands
  <2>1. requests.landed + 1 \in Requests
    BY <1>7, TuiAssumption DEF Lands, Requests, ViewInv
  <2> QED BY <1>7, <2>1 DEF Lands, ViewInv, Decided
<1>8. ASSUME NEW key, Press(key) PROVE ViewInv'
  <2>1. /\ UNCHANGED <<slot, requests>> /\ key \in DOMAIN Bound(ui.focus)
        /\ ui' = applyAction(ui, Bound(ui.focus)[key])
    BY <1>8 DEF Press
  <2>2. Decided(ui')
    BY <2>1, KeysAsk, ActionsKeepDecided
  <2> QED BY <1>2, <2>1, <2>2
<1>9. ASSUME NEW target \in DOMAIN ClickFocus, Click(target) PROVE ViewInv'
  <2>1. ClickFocus[target] # "requestDetail"
    BY DEF ClickFocus
  <2>2. UNCHANGED <<slot, requests>> /\ ui' = [ui EXCEPT !.focus = ClickFocus[target]]
    BY <1>9 DEF Click
  <2>3. Decided(ui')
    BY <2>1, <2>2 DEF Decided
  <2> QED BY <1>2, <2>2, <2>3
<1>10. ASSUME NEW r \in Requests, NEW fits \in BOOLEAN, ClickRequest(r, fits) PROVE ViewInv'
  <2>1. /\ UNCHANGED <<slot, requests>> /\ r \in ui.requests
        /\ ui' = IF fits THEN [ui EXCEPT !.focus = "requests", !.selected = r] ELSE OpenDetail(ui, r)
    BY <1>10 DEF ClickRequest
  <2>2. r # None
    BY DEF Requests, None
  <2>3. Decided(ui')
    BY <2>1, <2>2 DEF Decided, OpenDetail
  <2> QED BY <1>2, <2>1, <2>3
<1> QED BY <1>1, <1>3, <1>4, <1>5, <1>6, <1>7, <1>8, <1>9, <1>10 DEF Next, TuiStep, vars

(* What an open detail view decides on is what was opened, and is listed,     *)
(* however refreshes, keys and clicks come (withRequests in tui/state.js).   *)
THEOREM DecisionsAreInformed == Spec => []DecidesTheOpened
<1>1. ViewInv => DecidesTheOpened
  BY DEF ViewInv, Decided, DecidesTheOpened
<1> QED BY <1>1, ViewInit, ViewStep, PTL DEF Spec

-----------------------------------------------------------------------------
(* The transcript *)

(* Lines lie between two rows, come in order, and never leave prose in two    *)
(* parts.                                                                  *)
Within(s, first, last) ==
    /\ s \in Seq(Nat \X Nat)
    /\ \A n \in 1..Len(s) : first <= s[n][1] /\ s[n][1] <= s[n][2] /\ s[n][2] <= last
InOrder(s) == \A n \in 2..Len(s) : s[n - 1][2] < s[n][1]
Unbroken(s) ==
    \A n \in 2..Len(s) :
        ~(s[n - 1][2] + 1 = s[n][1] /\ IsDelta(s[n - 1][2]) /\ IsDelta(s[n][1]))
Shows(s, row) == \E n \in 1..Len(s) : row \in s[n][1]..s[n][2]

(* Where a cursor may stand, and the prose that may go on after it.         *)
Settled(cursor) == cursor \in 0..Len(event_log) /\ (cursor # 0 => ~IsDelta(cursor))
Unsettled(rows, cursor) ==
    \A row \in rows : row \in Nat /\ cursor < row /\ row <= Len(event_log) /\ IsDelta(row)

(* What a snapshot adds to a transcript that got as far as `after`.          *)
Continues(slice, after) ==
    /\ slice.skipped \in Nat /\ slice.cursor \in Nat /\ after <= slice.cursor
    /\ Settled(slice.cursor) /\ Unsettled(slice.provisional, slice.cursor)
    /\ LET first == after + slice.skipped + 1
       IN /\ Within(slice.lines, first, slice.cursor)
          /\ InOrder(slice.lines) /\ Unbroken(slice.lines)
          /\ \A row \in first..slice.cursor : Shows(slice.lines, row)

(* Whatever else is under way, the answer on its way to the UI continues the  *)
(* transcript from where it stands, for no other refresh can move it.       *)
TranscriptInv ==
    /\ event_log \in Seq(Kinds)
    /\ Settled(transcript.cursor) /\ Unsettled(transcript.provisional, transcript.cursor)
    /\ Within(transcript.shown, 1, transcript.cursor)
    /\ InOrder(transcript.shown) /\ Unbroken(transcript.shown)
    /\ \A row \in 1..transcript.cursor :
          Shows(transcript.shown, row) \/ row \in transcript.announced
    /\ DOMAIN slot = Ticks
    /\ \A t \in Ticks :
          /\ t # 1 => slot[t].pc = "idle"
          /\ slot[t].pc = "asked" => slot[t].after = transcript.cursor
          /\ slot[t].pc = "answered" => Continues(slot[t].slice, transcript.cursor)

(* Pairs that differ in their first components can be put in order, and an    *)
(* enumeration in order leaves none out.                                   *)
Ordered(s) == \A m, n \in DOMAIN s : m < n => s[m][1] < s[n][1]
Enumerations(S) == {s \in [1..Cardinality(S) -> S] : Ordered(s)}

LEMMA CanBeOrdered ==
    ASSUME NEW S \in SUBSET (Nat \X Nat), IsFiniteSet(S), \A a, b \in S : a[1] = b[1] => a = b
    PROVE  Enumerations(S) # {}
<1> DEFINE Stuck == {T \in SUBSET S : Enumerations(T) = {}}
<1>1. SUFFICES ASSUME Stuck # {} PROVE FALSE
  <2>1. S \in SUBSET S
    OBVIOUS
  <2> QED BY <2>1
<1>2. PICK T \in Stuck : \A U \in Stuck : <<U, T>> \notin StrictSubsetOrdering(S)
  <2>1. IsWellFoundedOn(StrictSubsetOrdering(S), SUBSET S)
    BY FS_StrictSubsetOrderingWellFounded, FS_FiniteSubsetsOfFinite
  <2>2. Stuck \subseteq SUBSET S
    OBVIOUS
  <2> HIDE DEF Stuck
  <2> QED BY <1>1, <2>1, <2>2, WFMin, Zenon
<1>3. T \in SUBSET S /\ IsFiniteSet(T) /\ Enumerations(T) = {}
  <2>1. T \in SUBSET S /\ Enumerations(T) = {}
    BY <1>2
  <2> QED BY <2>1, FS_Subset
<1>4. T # {}
  <2> SUFFICES ASSUME T = {} PROVE FALSE
    OBVIOUS
  <2>1. Cardinality(T) = 0
    BY FS_EmptySet
  <2> DEFINE s == [i \in 1..0 |-> 0]
  <2>2. DOMAIN s = {} /\ s \in [1..Cardinality(T) -> T]
    BY <2>1
  <2> HIDE DEF s
  <2>3. s \in Enumerations(T)
    BY <2>2 DEF Enumerations, Ordered
  <2> QED BY <1>3, <2>3
<1>5. PICK g \in T : \A x \in T : x[1] <= g[1]
  <2> DEFINE f == [x \in T |-> x[1]]
  <2>1. f \in [T -> Int]
    BY <1>3
  <2>2. \E m \in T : \A x \in T : f[x] <= f[m]
    <3> HIDE DEF f
    <3> QED BY <1>3, <1>4, <2>1, Extreme
  <2> QED BY <2>2
<1> DEFINE U == T \ {g}
           k == Cardinality(U)
<1>6. U \in SUBSET S /\ k \in Nat /\ Cardinality(T) = k + 1
  <2>1. U \in SUBSET S /\ IsFiniteSet(U)
    BY <1>3, FS_RemoveElement
  <2>2. Cardinality(U) = Cardinality(T) - 1 /\ Cardinality(T) \in Nat /\ Cardinality(U) \in Nat
    BY <1>3, <2>1, FS_RemoveElement, FS_CardinalityType
  <2> QED BY <2>1, <2>2
<1>7. PICK s \in Enumerations(U) : TRUE
  <2>1. <<U, T>> \in StrictSubsetOrdering(S)
    BY <1>3, <1>6 DEF StrictSubsetOrdering
  <2>2. U \notin Stuck
    BY <1>2, <2>1
  <2> QED BY <1>6, <2>2
<1>8. s \in [1..k -> U] /\ DOMAIN s = 1..k /\ \A m, n \in 1..k : m < n => s[m][1] < s[n][1]
  BY <1>7 DEF Enumerations, Ordered
<1> HIDE DEF k, U
<1> DEFINE t == [i \in 1..(k + 1) |-> IF i = k + 1 THEN g ELSE s[i]]
<1>9. t \in [1..Cardinality(T) -> T]
  <2>1. \A i \in 1..(k + 1) : i = k + 1 \/ i \in 1..k
    BY <1>6
  <2> QED BY <1>6, <1>8, <2>1 DEF U
<1>10. ASSUME NEW m \in 1..(k + 1), NEW n \in 1..(k + 1), m < n PROVE t[m][1] < t[n][1]
  <2>1. m \in 1..k /\ t[m] = s[m] /\ s[m] \in U
    BY <1>6, <1>8, <1>10
  <2>2. CASE n \in 1..k
    <3>1. n # k + 1
      BY <1>6, <2>2
    <3> QED BY <1>8, <1>10, <2>1, <2>2, <3>1
  <2>3. CASE n = k + 1
    <3>1. t[n] = g
      BY <2>3
    <3>2. /\ s[m] \in T /\ s[m] # g /\ s[m] \in S /\ g \in S
      BY <1>3, <2>1 DEF U
    <3>3. s[m][1] \in Nat /\ g[1] \in Nat /\ s[m][1] # g[1] /\ s[m][1] <= g[1]
      BY <1>5, <3>2
    <3> QED BY <2>1, <3>1, <3>3
  <2> QED BY <1>6, <2>2, <2>3
<1>11. t \in Enumerations(T)
  <2>1. DOMAIN t = 1..(k + 1)
    OBVIOUS
  <2> HIDE DEF t
  <2> QED BY <1>9, <1>10, <2>1 DEF Enumerations, Ordered
<1> QED BY <1>3, <1>11

LEMMA NoneLeftOut ==
    ASSUME NEW S, IsFiniteSet(S), S \in SUBSET (Nat \X Nat), NEW s \in Enumerations(S)
    PROVE  \A x \in S : \E n \in 1..Cardinality(S) : s[n] = x
<1> DEFINE k == Cardinality(S)
<1>1. k \in Nat /\ s \in [1..k -> S] /\ Ordered(s)
  BY FS_CardinalityType DEF Enumerations
<1> HIDE DEF k
<1>2. ASSUME NEW m \in 1..k, NEW n \in 1..k, s[m] = s[n] PROVE m = n
  <2>1. s[m][1] \in Nat /\ s[n][1] \in Nat
    BY <1>1
  <2>2. ~(s[m][1] < s[n][1]) /\ ~(s[n][1] < s[m][1])
    BY <1>2, <2>1
  <2>3. ~(m < n) /\ ~(n < m)
    BY <1>1, <2>2 DEF Ordered
  <2> QED BY <2>3
<1>3. s \in Injection(1..k, S)
  BY <1>1, <1>2 DEF Injection, IsInjective
<1>4. Cardinality(1..k) = k /\ IsFiniteSet(1..k)
  BY <1>1, FS_Interval
<1>5. s \in Surjection(1..k, S)
  BY <1>3, <1>4, FS_Injection DEF k
<1> QED BY <1>5 DEF Surjection, k

(* The lines of collapseTranscript, before they are put in order.            *)
Prose(lo, hi) == \A row \in lo..hi : IsDelta(row)
IsLine(first, last, lo, hi) ==
    /\ lo <= hi
    /\ lo = hi \/ Prose(lo, hi)
    /\ ~(lo > first /\ Prose(lo - 1, hi)) /\ ~(hi < last /\ Prose(lo, hi + 1))
Lines(first, last) ==
    {line \in (first..last) \X (first..last) : IsLine(first, last, line[1], line[2])}

(* Two lines that meet are one, and two that follow each other are not both   *)
(* prose.                                                                  *)
LEMMA LinesStayApart ==
    ASSUME NEW first \in Nat, NEW last \in Nat,
           NEW i \in first..last, NEW j \in first..last, IsLine(first, last, i, j),
           NEW k \in first..last, NEW l \in first..last, IsLine(first, last, k, l)
    PROVE  /\ i <= k /\ k <= j => i = k /\ j = l
           /\ ~(j + 1 = k /\ IsDelta(j) /\ IsDelta(k))
<1>1. /\ i \in Nat /\ j \in Nat /\ k \in Nat /\ l \in Nat /\ i <= j /\ k <= l
      /\ first <= i /\ l <= last /\ j <= last
  BY DEF IsLine
<1>2. ASSUME IsDelta(k), IsDelta(k - 1), k - 1 >= first PROVE FALSE
  <2>1. Prose(k, l)
    BY <1>1, <1>2 DEF IsLine, Prose
  <2>2. ASSUME NEW row \in (k - 1)..l PROVE IsDelta(row)
    <3>1. row = k - 1 \/ row \in k..l
      BY <1>1
    <3> QED BY <1>2, <2>1, <3>1 DEF Prose
  <2>3. Prose(k - 1, l) /\ k > first
    BY <1>1, <1>2, <2>2 DEF Prose
  <2> QED BY <2>3 DEF IsLine
<1>3. ~(j + 1 = k /\ IsDelta(j) /\ IsDelta(k))
  <2> SUFFICES ASSUME j + 1 = k, IsDelta(j), IsDelta(k) PROVE FALSE
    OBVIOUS
  <2>1. k - 1 = j /\ k - 1 >= first
    BY <1>1
  <2> QED BY <1>2, <2>1
<1>4. ASSUME i < k, k <= j PROVE FALSE
  <2>1. Prose(i, j)
    BY <1>1, <1>4 DEF IsLine
  <2>2. k \in i..j /\ k - 1 \in i..j /\ k - 1 >= first
    BY <1>1, <1>4
  <2> QED BY <1>2, <2>1, <2>2 DEF Prose
<1>5. ASSUME i = k, j < l PROVE FALSE
  <2>1. Prose(i, l)
    BY <1>1, <1>5 DEF IsLine
  <2>2. \A row \in i..(j + 1) : row \in i..l
    BY <1>1, <1>5
  <2>3. Prose(i, j + 1) /\ j < last
    BY <1>1, <1>5, <2>1, <2>2 DEF Prose
  <2> QED BY <2>3 DEF IsLine
<1>6. ASSUME i = k, l < j PROVE FALSE
  <2>1. Prose(k, j)
    BY <1>1, <1>6 DEF IsLine
  <2>2. \A row \in k..(l + 1) : row \in k..j
    BY <1>1, <1>6
  <2>3. Prose(k, l + 1) /\ l < last
    BY <1>1, <1>6, <2>1, <2>2 DEF Prose
  <2> QED BY <2>3 DEF IsLine
<1>7. ASSUME i <= k, k <= j PROVE i = k /\ j = l
  <2>1. i = k
    BY <1>1, <1>4, <1>7
  <2>2. ~(j < l) /\ ~(l < j)
    BY <1>5, <1>6, <2>1
  <2> QED BY <1>1, <2>1, <2>2
<1> QED BY <1>3, <1>7

(* Every row is in a line.                                                 *)
LEMMA LinesCover ==
    ASSUME NEW first \in Nat, NEW last \in Nat, NEW row \in first..last
    PROVE  \E lo, hi \in first..last : IsLine(first, last, lo, hi) /\ row \in lo..hi
<1>1. row \in Nat /\ first <= row /\ row <= last
  OBVIOUS
<1>2. CASE ~IsDelta(row)
  <2>1. row \in (row - 1)..row /\ row \in row..(row + 1) /\ row \in row..row
    BY <1>1
  <2>2. ~Prose(row - 1, row) /\ ~Prose(row, row + 1)
    BY <1>2, <2>1 DEF Prose
  <2>3. IsLine(first, last, row, row)
    BY <1>1, <2>2 DEF IsLine
  <2> QED BY <2>1, <2>3
<1>3. CASE IsDelta(row)
  <2> DEFINE lows == {lo \in first..row : Prose(lo, row)}
             highs == {hi \in row..last : Prose(row, hi)}
  <2>1. row \in lows /\ row \in highs
    <3>1. \A r \in row..row : r = row
      BY <1>1
    <3> QED BY <1>1, <1>3, <3>1 DEF Prose
  <2>2. /\ lows \in SUBSET Nat /\ \A x \in lows : x <= last
        /\ highs \in SUBSET Nat /\ \A x \in highs : x <= last
    BY <1>1
  <2>3. PICK lo \in lows : \A x \in lows : lo <= x
    <3> HIDE DEF lows
    <3> QED BY <2>1, <2>2, LeastAndGreatest
  <2>4. PICK hi \in highs : \A x \in highs : x <= hi
    <3> HIDE DEF highs
    <3> QED BY <2>1, <2>2, LeastAndGreatest
  <2>5. /\ lo \in Nat /\ hi \in Nat /\ first <= lo /\ lo <= row /\ row <= hi /\ hi <= last
        /\ Prose(lo, row) /\ Prose(row, hi)
    BY <1>1, <2>3, <2>4
  <2>6. Prose(lo, hi)
    <3>1. \A r \in lo..hi : r \in lo..row \/ r \in row..hi
      BY <1>1, <2>5
    <3> QED BY <2>5, <3>1 DEF Prose
  <2>7. ASSUME lo > first, Prose(lo - 1, hi) PROVE FALSE
    <3>1. \A r \in (lo - 1)..row : r \in (lo - 1)..hi
      BY <1>1, <2>5
    <3>2. Prose(lo - 1, row) /\ lo - 1 \in first..row
      BY <1>1, <2>5, <2>7, <3>1 DEF Prose
    <3>3. lo - 1 \in lows /\ ~(lo <= lo - 1)
      BY <2>5, <3>2
    <3> QED BY <2>3, <3>3
  <2>8. ASSUME hi < last, Prose(lo, hi + 1) PROVE FALSE
    <3>1. \A r \in row..(hi + 1) : r \in lo..(hi + 1)
      BY <1>1, <2>5
    <3>2. Prose(row, hi + 1) /\ hi + 1 \in row..last
      BY <1>1, <2>5, <2>8, <3>1 DEF Prose
    <3>3. hi + 1 \in highs /\ ~(hi + 1 <= hi)
      BY <2>5, <3>2
    <3> QED BY <2>4, <3>3
  <2>9. IsLine(first, last, lo, hi)
    BY <2>5, <2>6, <2>7, <2>8 DEF IsLine
  <2>10. lo \in first..last /\ hi \in first..last /\ row \in lo..hi
    BY <1>1, <2>5
  <2> QED BY <2>9, <2>10
<1> QED BY <1>2, <1>3

LEMMA Collapses ==
    ASSUME NEW first \in Nat, NEW last \in Nat
    PROVE  LET s == collapseTranscript(first, last)
           IN  /\ Within(s, first, last) /\ InOrder(s) /\ Unbroken(s)
               /\ \A row \in first..last : Shows(s, row)
<1> DEFINE S == Lines(first, last)
           s == collapseTranscript(first, last)
           k == Cardinality(S)
<1>1. /\ S \in SUBSET (Nat \X Nat) /\ IsFiniteSet(S)
      /\ \A a \in S : a[1] \in first..last /\ a[2] \in first..last /\ IsLine(first, last, a[1], a[2])
  <2>1. IsFiniteSet((first..last) \X (first..last))
    <3>1. IsFiniteSet(first..last)
      BY FS_Interval
    <3> QED BY <3>1, FS_Product, Zenon
  <2>2. S \subseteq (first..last) \X (first..last)
    BY DEF Lines
  <2>3. IsFiniteSet(S)
    BY <2>1, <2>2, FS_Subset
  <2> QED BY <2>2, <2>3 DEF Lines
<1>2. \A a \in S : a \in Nat \X Nat /\ a[1] \in Nat /\ a[2] \in Nat /\ a = <<a[1], a[2]>>
  BY <1>1
<1>3. ASSUME NEW a \in S, NEW b \in S
      PROVE  /\ a[1] <= b[1] /\ b[1] <= a[2] => a = b
             /\ ~(a[2] + 1 = b[1] /\ IsDelta(a[2]) /\ IsDelta(b[1]))
  <2>1. /\ a[1] <= b[1] /\ b[1] <= a[2] => a[1] = b[1] /\ a[2] = b[2]
        /\ ~(a[2] + 1 = b[1] /\ IsDelta(a[2]) /\ IsDelta(b[1]))
    BY <1>1, LinesStayApart
  <2> QED BY <1>2, <2>1
<1>4. \A a, b \in S : a[1] = b[1] => a = b
  BY <1>1, <1>2, <1>3 DEF IsLine
<1>5. s \in Enumerations(S)
  <2>1. s = CHOOSE e \in [1..Cardinality(S) -> S] : Ordered(e)
    <3>1. s = LET lines == {line \in (first..last) \X (first..last) :
                              IsLine(first, last, line[1], line[2])}
              IN CHOOSE e \in [1..Cardinality(lines) -> lines] : Ordered(e)
      BY Zenon DEF collapseTranscript, IsLine, Prose, Ordered
    <3> HIDE DEF s
    <3> QED BY <3>1 DEF Lines
  <2>2. \E e \in [1..Cardinality(S) -> S] : Ordered(e)
    <3> HIDE DEF S
    <3> QED BY <1>1, <1>4, CanBeOrdered DEF Enumerations
  <2> HIDE DEF S, s
  <2> QED BY <2>1, <2>2 DEF Enumerations
<1> HIDE DEF s
<1>6. k \in Nat /\ s \in [1..k -> S] /\ \A m, n \in 1..k : m < n => s[m][1] < s[n][1]
  <2>1. k \in Nat
    BY <1>1, FS_CardinalityType
  <2> QED BY <1>5, <2>1 DEF Enumerations, Ordered
<1> HIDE DEF S, k
<1>7. s \in Seq(Nat \X Nat) /\ Len(s) = k
  BY <1>1, <1>6
<1>8. Within(s, first, last)
  <2>1. ASSUME NEW n \in 1..Len(s) PROVE first <= s[n][1] /\ s[n][1] <= s[n][2] /\ s[n][2] <= last
    <3>1. s[n] \in S
      BY <1>6, <1>7
    <3> QED BY <1>1, <3>1 DEF IsLine
  <2> QED BY <1>7, <2>1 DEF Within
<1>9. ASSUME NEW n \in 2..Len(s)
      PROVE  /\ s[n - 1][2] < s[n][1]
             /\ ~(s[n - 1][2] + 1 = s[n][1] /\ IsDelta(s[n - 1][2]) /\ IsDelta(s[n][1]))
  <2>1. n \in 1..k /\ n - 1 \in 1..k /\ n - 1 < n
    BY <1>6, <1>7
  <2>2. s[n] \in S /\ s[n - 1] \in S /\ s[n - 1][1] < s[n][1]
    BY <1>6, <2>1
  <2>3. s[n][1] \in Nat /\ s[n - 1][1] \in Nat /\ s[n - 1][2] \in Nat
    BY <1>2, <2>2
  <2>4. s[n - 1] # s[n]
    BY <2>2, <2>3
  <2>5. ~(s[n - 1][1] <= s[n][1] /\ s[n][1] <= s[n - 1][2])
    BY <1>3, <2>2, <2>4
  <2> QED BY <1>3, <2>2, <2>3, <2>5
<1>10. ASSUME NEW row \in first..last PROVE Shows(s, row)
  <2>1. PICK lo \in first..last, hi \in first..last :
            IsLine(first, last, lo, hi) /\ row \in lo..hi
    BY LinesCover
  <2>2. <<lo, hi>> \in S
    BY <2>1 DEF S, Lines
  <2>3. PICK n \in 1..k : s[n] = <<lo, hi>>
    BY <1>1, <1>5, <2>2, NoneLeftOut DEF k
  <2>4. s[n][1] = lo /\ s[n][2] = hi /\ n \in 1..Len(s)
    BY <1>7, <2>3
  <2>5. row \in s[n][1]..s[n][2]
    BY <2>1, <2>4
  <2> QED BY <2>4, <2>5 DEF Shows
<1>11. InOrder(s) /\ Unbroken(s)
  BY <1>9 DEF InOrder, Unbroken
<1> QED BY <1>8, <1>10, <1>11 DEF s

LEMMA LinesAreIntervals ==
    ASSUME NEW s, NEW first, NEW last, Within(s, first, last), NEW n \in 1..Len(s)
    PROVE  /\ s[n][1] \in Nat /\ s[n][2] \in Nat
           /\ first <= s[n][1] /\ s[n][1] <= s[n][2] /\ s[n][2] <= last
<1>1. s \in Seq(Nat \X Nat)
  BY DEF Within
<1>2. s[n] \in Nat \X Nat
  BY <1>1
<1> QED BY <1>2 DEF Within

(* An answer continues a transcript that stands where the answer was asked   *)
(* for.                                                                    *)
LEMMA SnapshotContinues ==
    ASSUME event_log \in Seq(Kinds), NEW after, Settled(after)
    PROVE  Continues(transcriptSince(after), after)
<1> DEFINE total == Len(event_log)
           first == IF total - limit > after THEN total - limit + 1 ELSE after + 1
           settled == {row \in first..total : ~IsDelta(row)}
           last == IF settled = {} THEN first - 1 ELSE Max(settled)
           cursor == IF settled = {} THEN after ELSE last
           slice == transcriptSince(after)
<1> SUFFICES Continues(slice, after)
  OBVIOUS
<1>1. total \in Nat /\ after \in Nat /\ after <= total /\ limit \in Nat \ {0}
  BY TuiAssumption DEF Settled
<1>2. first \in Nat /\ after + 1 <= first /\ first <= total + 1 /\ first - after - 1 \in Nat
  BY <1>1
<1> HIDE DEF total, first
<1>3. settled \in SUBSET Nat /\ \A x \in settled : first <= x /\ x <= total /\ ~IsDelta(x)
  BY <1>1, <1>2
<1>4. settled # {} => last \in settled /\ \A x \in settled : x <= last
  <2> SUFFICES ASSUME settled # {} PROVE last \in settled /\ \A x \in settled : x <= last
    OBVIOUS
  <2>1. PICK m \in settled : \A x \in settled : x <= m
    <3> HIDE DEF settled
    <3> QED BY <1>1, <1>3, LeastAndGreatest
  <2>2. last = CHOOSE x \in settled : \A y \in settled : x >= y
    BY DEF Max
  <2>3. \A y \in settled : m >= y
    BY <1>3, <2>1
  <2> HIDE DEF settled, last
  <2>4. last \in settled /\ \A y \in settled : last >= y
    BY <2>2, <2>3
  <2> QED BY <1>3, <2>4
<1>5. /\ last \in Nat /\ first - 1 <= last /\ last <= total
      /\ settled = {} => last = first - 1
      /\ settled # {} => first <= last /\ ~IsDelta(last)
  <2> HIDE DEF settled
  <2>1. CASE settled = {}
    BY <1>1, <1>2, <2>1
  <2>2. CASE settled # {}
    <3>1. last \in settled
      BY <1>4, <2>2
    <3> HIDE DEF last
    <3> QED BY <1>1, <1>2, <1>3, <2>2, <3>1
  <2> QED BY <2>1, <2>2
<1>6. ASSUME NEW row \in (last + 1)..total PROVE row \in Nat /\ last < row /\ row <= total /\ IsDelta(row)
  <2>1. row \in Nat /\ last < row /\ row <= total /\ row \in first..total
    BY <1>1, <1>2, <1>5, SMTT(30)
  <2>2. row \notin settled
    <3> HIDE DEF last, settled
    <3> QED BY <1>3, <1>4, <1>5, <2>1
  <2> QED BY <2>1, <2>2
<1>7. /\ slice.lines = collapseTranscript(first, last) /\ slice.provisional = (last + 1)..total
      /\ slice.cursor = cursor /\ slice.skipped = first - after - 1
      /\ after + slice.skipped + 1 = first
  <2>1. after + (first - after - 1) + 1 = first
    BY <1>1, <1>2
  <2>2. transcriptSince(after) =
           [lines |-> collapseTranscript(first, last), provisional |-> (last + 1)..total,
            cursor |-> cursor, skipped |-> first - after - 1]
    BY <2>1, Zenon DEF transcriptSince, listTier1EventsSince, total, first
  <2> HIDE DEF last, cursor
  <2> QED BY <2>1, <2>2
<1> HIDE DEF slice, settled, last
<1>8. /\ Within(slice.lines, first, last) /\ InOrder(slice.lines) /\ Unbroken(slice.lines)
      /\ \A row \in first..last : Shows(slice.lines, row)
  BY <1>2, <1>5, <1>7, Collapses
<1>9. CASE settled = {}
  <2>1. slice.cursor = after /\ last = first - 1
    BY <1>5, <1>7, <1>9
  <2>2. \A n \in 1..Len(slice.lines) : FALSE
    <3> SUFFICES ASSUME NEW n \in 1..Len(slice.lines) PROVE FALSE
      OBVIOUS
    <3> DEFINE lo == slice.lines[n][1]
               hi == slice.lines[n][2]
    <3>1. lo \in Nat /\ hi \in Nat /\ first <= lo /\ lo <= hi /\ hi <= last
      BY <1>8, LinesAreIntervals
    <3> HIDE DEF lo, hi
    <3> QED BY ONLY <1>2, <1>5, <2>1, <3>1
  <2>3. Within(slice.lines, first, slice.cursor)
    BY <1>8, <2>2 DEF Within
  <2>4. \A row \in first..slice.cursor : FALSE
    BY <1>1, <1>2, <2>1
  <2>5. Unsettled(slice.provisional, slice.cursor)
    <3>1. last >= after
      BY <1>1, <1>2, <2>1
    <3> QED BY <1>1, <1>5, <1>6, <1>7, <2>1, <3>1 DEF Unsettled, total
  <2>6. /\ slice.skipped \in Nat /\ slice.cursor \in Nat /\ after <= slice.cursor
        /\ Settled(slice.cursor)
    <3>1. slice.skipped \in Nat
      BY <1>2, <1>7
    <3>2. Settled(slice.cursor)
      BY <2>1, Zenon
    <3> QED BY <1>1, <2>1, <3>1, <3>2
  <2> QED BY <1>7, <1>8, <2>3, <2>4, <2>5, <2>6, Zenon DEF Continues
<1>10. CASE settled # {}
  <2>1. slice.cursor = last /\ first <= last /\ ~IsDelta(last)
    BY <1>5, <1>7, <1>10
  <2>2. Settled(slice.cursor) /\ after <= slice.cursor
    BY <1>1, <1>2, <1>5, <2>1 DEF Settled, total
  <2>3. Unsettled(slice.provisional, slice.cursor)
    BY <1>5, <1>6, <1>7, <2>1 DEF Unsettled, total
  <2>4. slice.skipped \in Nat /\ slice.cursor \in Nat
    BY <1>2, <1>5, <1>7, <2>1
  <2> QED BY <1>7, <1>8, <2>1, <2>2, <2>3, <2>4, Zenon DEF Continues
<1> QED BY <1>9, <1>10

(* The lines of an answer, after those that are shown.                        *)
LEMMA LinesJoin ==
    ASSUME event_log \in Seq(Kinds), NEW cursor, Settled(cursor),
           NEW s, Within(s, 1, cursor), InOrder(s), Unbroken(s),
           NEW first \in Nat, cursor < first, NEW last \in Nat, cursor <= last,
           NEW t, Within(t, first, last), InOrder(t), Unbroken(t)
    PROVE  /\ Within(s \o t, 1, last) /\ InOrder(s \o t) /\ Unbroken(s \o t)
           /\ \A row : Shows(s, row) \/ Shows(t, row) => Shows(s \o t, row)
<1> DEFINE r == s \o t
           k == Len(s)
           l == Len(t)
<1>1. cursor \in Nat /\ s \in Seq(Nat \X Nat) /\ t \in Seq(Nat \X Nat)
  BY DEF Settled, Within
<1>2. /\ r \in Seq(Nat \X Nat) /\ k \in Nat /\ l \in Nat /\ Len(r) = k + l
      /\ \A n \in 1..k : r[n] = s[n]
      /\ \A n \in 1..l : r[k + n] = t[n]
  <2>1. k \in Nat /\ l \in Nat
    BY <1>1, LenProperties
  <2>2. r \in Seq(Nat \X Nat) /\ Len(r) = k + l
    BY <1>1, ConcatProperties
  <2>3. \A n \in 1..(k + l) : r[n] = IF n <= k THEN s[n] ELSE t[n - k]
    BY <1>1, ConcatProperties
  <2> HIDE DEF r, k, l
  <2>4. ASSUME NEW n \in 1..k PROVE r[n] = s[n]
    <3>1. n \in 1..(k + l) /\ n <= k
      BY <2>1
    <3> QED BY <2>3, <3>1
  <2>5. ASSUME NEW n \in 1..l PROVE r[k + n] = t[n]
    <3>1. k + n \in 1..(k + l) /\ ~(k + n <= k) /\ (k + n) - k = n
      BY <2>1
    <3> QED BY <2>3, <3>1
  <2> QED BY <2>1, <2>2, <2>4, <2>5
<1> HIDE DEF r, k, l
<1>3. k \in Nat /\ l \in Nat /\ Len(r) = k + l /\ Len(s) = k /\ Len(t) = l
  BY <1>2 DEF k, l
<1>4. ASSUME NEW n \in 1..k
      PROVE  /\ s[n][1] \in Nat /\ s[n][2] \in Nat /\ 1 <= s[n][1] /\ s[n][1] <= s[n][2]
             /\ s[n][2] <= cursor /\ r[n] = s[n]
  BY <1>2, LinesAreIntervals DEF k
<1>5. ASSUME NEW n \in 1..l
      PROVE  /\ t[n][1] \in Nat /\ t[n][2] \in Nat /\ first <= t[n][1] /\ t[n][1] <= t[n][2]
             /\ t[n][2] <= last /\ r[k + n] = t[n]
  BY <1>2, LinesAreIntervals DEF l
<1>6. cursor \in Nat /\ (cursor # 0 => ~IsDelta(cursor))
  BY DEF Settled
<1>7. ASSUME NEW n \in 1..Len(r) PROVE 1 <= r[n][1] /\ r[n][1] <= r[n][2] /\ r[n][2] <= last
  <2>1. CASE n \in 1..k
    <3>1. /\ s[n][1] \in Nat /\ s[n][2] \in Nat /\ 1 <= s[n][1] /\ s[n][1] <= s[n][2]
          /\ s[n][2] <= cursor /\ r[n] = s[n]
      BY <1>4, <2>1
    <3> QED BY ONLY <1>6, <3>1, last \in Nat, cursor <= last
  <2>2. CASE n \notin 1..k
    <3> DEFINE m == n - k
    <3>1. m \in 1..l /\ k + m = n
      BY ONLY <1>3, <2>2, n \in 1..Len(r)
    <3> HIDE DEF m
    <3>2. /\ t[m][1] \in Nat /\ t[m][2] \in Nat /\ first <= t[m][1] /\ t[m][1] <= t[m][2]
          /\ t[m][2] <= last /\ r[n] = t[m]
      BY <1>5, <3>1
    <3> QED BY ONLY <1>6, <3>2, first \in Nat, cursor < first
  <2> QED BY <2>1, <2>2
<1>8. ASSUME NEW n \in 2..Len(r)
      PROVE  /\ r[n - 1][2] < r[n][1]
             /\ ~(r[n - 1][2] + 1 = r[n][1] /\ IsDelta(r[n - 1][2]) /\ IsDelta(r[n][1]))
  <2> n \in 2..(k + l)
    BY <1>3
  <2>1. CASE n <= k
    <3>1. n \in 2..k /\ n \in 1..k /\ n - 1 \in 1..k
      BY ONLY <1>3, <2>1, n \in 2..(k + l)
    <3>2. r[n] = s[n] /\ r[n - 1] = s[n - 1]
      BY <1>4, <3>1
    <3> QED BY <1>3, <3>1, <3>2 DEF InOrder, Unbroken
  <2>2. CASE n = k + 1
    <3>1. n - 1 \in 1..k /\ 1 \in 1..l /\ k + 1 = n
      BY ONLY <1>3, <2>2, n \in 2..(k + l)
    <3> DEFINE m == n - 1
               hi == s[m][2]
               lo == t[1][1]
    <3>2. s[m][1] \in Nat /\ hi \in Nat /\ 1 <= s[m][1] /\ s[m][1] <= hi /\ hi <= cursor /\ r[m] = s[m]
      BY <1>4, <3>1
    <3>3. lo \in Nat /\ first <= lo /\ r[n] = t[1]
      BY <1>5, <3>1
    <3> HIDE DEF m, hi, lo
    <3>4. hi < lo /\ (hi + 1 = lo => hi = cursor) /\ 1 <= hi
      BY ONLY <1>6, <3>2, <3>3, first \in Nat, cursor < first
    <3>5. ~(hi + 1 = lo /\ IsDelta(hi))
      BY <1>6, <3>2, <3>4
    <3>6. r[n - 1][2] = hi /\ r[n][1] = lo
      BY <3>2, <3>3 DEF hi, lo, m
    <3> QED BY <3>4, <3>5, <3>6
  <2>3. CASE n > k + 1
    <3> DEFINE m == n - k
    <3>1. /\ m \in 2..l /\ m - 1 \in 1..l /\ m \in 1..l
          /\ k + m = n /\ k + (m - 1) = n - 1
      BY ONLY <1>3, <2>3, n \in 2..(k + l)
    <3> HIDE DEF m
    <3>2. r[n] = t[m] /\ r[n - 1] = t[m - 1]
      BY <1>5, <3>1
    <3> QED BY <1>3, <3>1, <3>2 DEF InOrder, Unbroken
  <2>4. n <= k \/ n = k + 1 \/ n > k + 1
    BY ONLY <1>3, n \in 2..(k + l)
  <2> QED BY <2>1, <2>2, <2>3, <2>4
<1>9. Within(r, 1, last)
  BY <1>2, <1>7 DEF Within
<1>10. InOrder(r) /\ Unbroken(r)
  BY <1>8 DEF InOrder, Unbroken
<1>11. ASSUME NEW row, Shows(s, row) \/ Shows(t, row) PROVE Shows(r, row)
  <2>1. ASSUME NEW n \in 1..k, row \in s[n][1]..s[n][2] PROVE Shows(r, row)
    <3>1. n \in 1..Len(r) /\ r[n] = s[n]
      BY <1>3, <1>4
    <3> QED BY <2>1, <3>1 DEF Shows
  <2>2. ASSUME NEW n \in 1..l, row \in t[n][1]..t[n][2] PROVE Shows(r, row)
    <3>1. k + n \in 1..Len(r) /\ r[k + n] = t[n]
      BY <1>3, <1>5
    <3> QED BY <2>2, <3>1 DEF Shows
  <2> QED BY <1>3, <1>11, <2>1, <2>2 DEF Shows
<1> QED BY <1>9, <1>10, <1>11 DEF r

(* The log only grows, so what was said of its rows goes on to hold.          *)
LogGrows ==
    /\ event_log' \in Seq(Kinds) /\ Len(event_log) <= Len(event_log')
    /\ \A row \in 1..Len(event_log) : event_log'[row] = event_log[row]

LEMMA PumpGrowsLog ==
    ASSUME event_log \in Seq(Kinds), PumpStep
    PROVE  LogGrows
<1>1. CASE UNCHANGED event_log
  BY <1>1 DEF LogGrows
<1>2. ASSUME NEW kind \in Kinds, event_log' = Append(event_log, kind) PROVE LogGrows
  <2>1. /\ Append(event_log, kind) \in Seq(Kinds)
        /\ Len(Append(event_log, kind)) = Len(event_log) + 1 /\ Len(event_log) \in Nat
        /\ \A row \in 1..Len(event_log) : Append(event_log, kind)[row] = event_log[row]
    BY AppendProperties, LenProperties
  <2> QED BY <1>2, <2>1 DEF LogGrows
<1>3. UNCHANGED event_log \/ \E kind \in Kinds : event_log' = Append(event_log, kind)
  BY DEF PumpStep, Consume, recordEvent, Hooked, StreamEnds, CancelledStreamEnds, CloseRun,
         ResetRun, Subscribe, Disconnect, Turn
<1> QED BY <1>1, <1>2, <1>3

LEMMA TranscriptKept ==
    ASSUME TranscriptInv, LogGrows, UNCHANGED tuiVars
    PROVE  TranscriptInv'
<1>1. /\ event_log \in Seq(Kinds) /\ Len(event_log) \in Nat /\ Len(event_log') \in Nat
      /\ UNCHANGED <<transcript, slot>>
  BY LenProperties DEF TranscriptInv, LogGrows, tuiVars
<1>2. \A row \in 1..Len(event_log) :
         /\ row \in 1..Len(event_log')
         /\ event_log'[row] = "assistant.delta" <=> IsDelta(row)
  BY <1>1 DEF LogGrows, IsDelta
<1>3. ASSUME NEW cursor, Settled(cursor)
      PROVE  /\ cursor \in 0..Len(event_log')
             /\ cursor # 0 => event_log'[cursor] # "assistant.delta"
  <2>1. cursor = 0 \/ cursor \in 1..Len(event_log)
    BY <1>1, <1>3 DEF Settled
  <2> QED BY <1>1, <1>2, <1>3, <2>1 DEF Settled
<1>4. ASSUME NEW rows, NEW cursor, cursor \in Nat, Unsettled(rows, cursor), NEW row \in rows
      PROVE  /\ row \in Nat /\ cursor < row /\ row <= Len(event_log')
             /\ event_log'[row] = "assistant.delta"
  <2>1. row \in 1..Len(event_log) /\ cursor < row /\ IsDelta(row)
    BY <1>1, <1>4 DEF Unsettled
  <2> QED BY <1>1, <1>2, <2>1
<1>5. ASSUME NEW s, NEW first \in Nat, 1 <= first, NEW last, Settled(last), Within(s, first, last),
             Unbroken(s), NEW n \in 2..Len(s)
      PROVE  ~(/\ s[n - 1][2] + 1 = s[n][1]
               /\ event_log'[s[n - 1][2]] = "assistant.delta"
               /\ event_log'[s[n][1]] = "assistant.delta")
  <2>1. Len(s) \in Nat /\ last \in Nat /\ last <= Len(event_log)
    BY <1>1, <1>5, LenProperties DEF Settled, Within
  <2>2. n \in 1..Len(s) /\ n - 1 \in 1..Len(s)
    BY <2>1
  <2> DEFINE lo == s[n - 1][2]
             hi == s[n][1]
  <2>3. /\ s[n - 1][1] \in Nat /\ lo \in Nat /\ first <= s[n - 1][1] /\ s[n - 1][1] <= lo /\ lo <= last
        /\ s[n][2] \in Nat /\ hi \in Nat /\ first <= hi /\ hi <= s[n][2] /\ s[n][2] <= last
    BY <1>5, <2>2, LinesAreIntervals
  <2>4. ~(lo + 1 = hi /\ IsDelta(lo) /\ IsDelta(hi))
    BY <1>5 DEF Unbroken
  <2> HIDE DEF lo, hi
  <2>5. lo \in 1..Len(event_log) /\ hi \in 1..Len(event_log)
    BY <1>1, <1>5, <2>1, <2>3, SMTT(30)
  <2>6. ~(lo + 1 = hi /\ event_log'[lo] = "assistant.delta" /\ event_log'[hi] = "assistant.delta")
    BY <1>2, <2>4, <2>5
  <2> QED BY <2>6 DEF lo, hi
<1>6. transcript.cursor \in Nat
  BY DEF TranscriptInv, Settled
<1>7. Settled(transcript.cursor)' /\ Unsettled(transcript.provisional, transcript.cursor)'
  <2>1. Settled(transcript.cursor) /\ Unsettled(transcript.provisional, transcript.cursor)
    BY DEF TranscriptInv
  <2> QED BY <1>1, <1>3, <1>4, <1>6, <2>1 DEF Settled, Unsettled, IsDelta
<1>8. /\ Within(transcript.shown, 1, transcript.cursor)' /\ InOrder(transcript.shown)'
      /\ (\A row \in 1..transcript.cursor :
             Shows(transcript.shown, row) \/ row \in transcript.announced)'
  <2>1. Within(transcript.shown, 1, transcript.cursor)'
    BY <1>1 DEF TranscriptInv, Within
  <2>2. InOrder(transcript.shown)'
    BY <1>1 DEF TranscriptInv, InOrder
  <2>3. (\A row \in 1..transcript.cursor :
            Shows(transcript.shown, row) \/ row \in transcript.announced)'
    BY <1>1 DEF TranscriptInv, Shows
  <2> QED BY <2>1, <2>2, <2>3
<1>9. Unbroken(transcript.shown)'
  <2>1. /\ Settled(transcript.cursor) /\ Within(transcript.shown, 1, transcript.cursor)
        /\ Unbroken(transcript.shown)
    BY DEF TranscriptInv
  <2>2. ASSUME NEW n \in 2..Len(transcript.shown)
        PROVE  ~(/\ transcript.shown[n - 1][2] + 1 = transcript.shown[n][1]
                 /\ event_log'[transcript.shown[n - 1][2]] = "assistant.delta"
                 /\ event_log'[transcript.shown[n][1]] = "assistant.delta")
    BY <1>5, <2>1
  <2> QED BY <1>1, <2>2 DEF Unbroken, IsDelta
<1>10. ASSUME NEW t \in Ticks, slot[t].pc = "answered"
       PROVE  Continues(slot[t].slice, transcript.cursor)'
  <2> DEFINE slice == slot[t].slice
             after == transcript.cursor
             first == after + slice.skipped + 1
  <2>1. Continues(slice, after)
    BY <1>10 DEF TranscriptInv
  <2>2. /\ slice.skipped \in Nat /\ slice.cursor \in Nat /\ after <= slice.cursor
        /\ Settled(slice.cursor) /\ Unsettled(slice.provisional, slice.cursor)
        /\ Within(slice.lines, first, slice.cursor)
        /\ InOrder(slice.lines) /\ Unbroken(slice.lines)
        /\ \A row \in first..slice.cursor : Shows(slice.lines, row)
    BY <2>1 DEF Continues
  <2>3. first \in Nat /\ 1 <= first
    BY <1>6, <2>2
  <2>4. Settled(slice.cursor)' /\ Unsettled(slice.provisional, slice.cursor)'
    BY <1>1, <1>3, <1>4, <2>2 DEF Settled, Unsettled, IsDelta
  <2>5. Unbroken(slice.lines)'
    BY <1>1, <1>5, <2>2, <2>3 DEF Unbroken, IsDelta
  <2>6. UNCHANGED <<slice, after>>
    BY <1>1
  <2> QED BY <2>2, <2>4, <2>5, <2>6 DEF Continues, Within, InOrder, Shows
<1>11. event_log' \in Seq(Kinds) /\ DOMAIN slot' = Ticks
       /\ \A t \in Ticks : /\ t # 1 => slot'[t].pc = "idle"
                           /\ slot'[t].pc = "asked" => slot'[t].after = transcript'.cursor
  BY <1>1 DEF TranscriptInv, LogGrows
<1>12. \A t \in Ticks : (slot[t].pc = "answered" => Continues(slot[t].slice, transcript.cursor))'
  BY <1>1, <1>10
<1> QED BY <1>7, <1>8, <1>9, <1>11, <1>12 DEF TranscriptInv

LEMMA TranscriptInit == Init => TranscriptInv
<1> SUFFICES ASSUME Init PROVE TranscriptInv
  OBVIOUS
<1>1. /\ event_log = <<>> /\ Len(event_log) = 0 /\ slot = [t \in Ticks |-> Idle]
      /\ transcript = [shown |-> <<>>, announced |-> {}, cursor |-> 0, provisional |-> {}]
  BY DEF Init, PumpInit, TuiInit
<1>2. /\ Settled(transcript.cursor) /\ Unsettled(transcript.provisional, transcript.cursor)
      /\ \A row \in 1..transcript.cursor : FALSE
  BY <1>1 DEF Settled, Unsettled
<1>3. /\ Within(transcript.shown, 1, transcript.cursor) /\ InOrder(transcript.shown)
      /\ Unbroken(transcript.shown)
  BY <1>1 DEF Within, InOrder, Unbroken
<1>4. event_log \in Seq(Kinds) /\ DOMAIN slot = Ticks /\ \A t \in Ticks : slot[t].pc = "idle"
  BY <1>1 DEF Idle
<1> QED BY <1>2, <1>3, <1>4 DEF TranscriptInv

LEMMA AppliedAnswer ==
    ASSUME TranscriptInv, NEW t \in Ticks, Apply(t), UNCHANGED event_log
    PROVE  /\ Settled(transcript.cursor)' /\ Unsettled(transcript.provisional, transcript.cursor)'
           /\ Within(transcript.shown, 1, transcript.cursor)'
           /\ InOrder(transcript.shown)' /\ Unbroken(transcript.shown)'
           /\ (\A row \in 1..transcript.cursor :
                  Shows(transcript.shown, row) \/ row \in transcript.announced)'
<1> DEFINE slice == slot[t].slice
           cursor == transcript.cursor
           first == cursor + slice.skipped + 1
           shown == transcript.shown \o slice.lines
           announced == transcript.announced \cup (cursor + 1)..(cursor + slice.skipped)
<1>1. /\ event_log \in Seq(Kinds) /\ Settled(cursor) /\ Continues(slice, cursor)
      /\ Within(transcript.shown, 1, cursor) /\ InOrder(transcript.shown)
      /\ Unbroken(transcript.shown)
      /\ \A row \in 1..cursor : Shows(transcript.shown, row) \/ row \in transcript.announced
  BY DEF TranscriptInv, Apply
<1>2. /\ slice.skipped \in Nat /\ slice.cursor \in Nat /\ cursor <= slice.cursor
      /\ Settled(slice.cursor) /\ Unsettled(slice.provisional, slice.cursor)
      /\ Within(slice.lines, first, slice.cursor) /\ InOrder(slice.lines) /\ Unbroken(slice.lines)
      /\ \A row \in first..slice.cursor : Shows(slice.lines, row)
  BY <1>1 DEF Continues
<1>3. cursor \in Nat /\ first \in Nat /\ cursor < first
  <2>1. cursor \in Nat
    BY <1>1 DEF Settled
  <2> QED BY <1>2, <2>1
<1>4. transcript' = [shown |-> shown, announced |-> announced, cursor |-> slice.cursor,
                     provisional |-> slice.provisional]
  <2>1. (IF slice.cursor > cursor THEN slice.cursor ELSE cursor) = slice.cursor
    BY <1>2, <1>3
  <2> QED BY <2>1 DEF Apply, applyTranscripts
<1> HIDE DEF slice, cursor, first
<1>5. /\ Within(shown, 1, slice.cursor) /\ InOrder(shown) /\ Unbroken(shown)
      /\ \A row : Shows(transcript.shown, row) \/ Shows(slice.lines, row) => Shows(shown, row)
  BY <1>1, <1>2, <1>3, LinesJoin
<1>6. ASSUME NEW row \in 1..slice.cursor PROVE Shows(shown, row) \/ row \in announced
  <2>1. row \in 1..cursor \/ row \in (cursor + 1)..(cursor + slice.skipped) \/ row \in first..slice.cursor
    BY <1>2, <1>3 DEF first
  <2> QED BY <1>1, <1>2, <1>5, <2>1
<1> HIDE DEF shown, announced
<1> QED BY <1>2, <1>4, <1>5, <1>6
        DEF Settled, Unsettled, Within, InOrder, Unbroken, Shows, IsDelta

LEMMA TranscriptStep == TranscriptInv /\ [Next]_vars => TranscriptInv'
<1> SUFFICES ASSUME TranscriptInv, [Next]_vars PROVE TranscriptInv'
  OBVIOUS
<1>1. CASE UNCHANGED vars
  <2>1. LogGrows /\ UNCHANGED tuiVars
    BY <1>1, LenProperties DEF vars, pumpVars, LogGrows, TranscriptInv
  <2> QED BY <2>1, TranscriptKept
<1>2. CASE PumpStep /\ UNCHANGED tuiVars
  BY <1>2, PumpGrowsLog, TranscriptKept DEF TranscriptInv
<1>3. ASSUME UNCHANGED <<event_log, transcript>>
      PROVE  /\ event_log' \in Seq(Kinds)
             /\ Settled(transcript.cursor)' /\ Unsettled(transcript.provisional, transcript.cursor)'
             /\ Within(transcript.shown, 1, transcript.cursor)'
             /\ InOrder(transcript.shown)' /\ Unbroken(transcript.shown)'
             /\ (\A row \in 1..transcript.cursor :
                    Shows(transcript.shown, row) \/ row \in transcript.announced)'
  <2>1. event_log' \in Seq(Kinds) /\ Settled(transcript.cursor)'
    BY <1>3 DEF TranscriptInv, Settled, IsDelta
  <2>2. Unsettled(transcript.provisional, transcript.cursor)'
    BY <1>3 DEF TranscriptInv, Unsettled, IsDelta
  <2>3. Within(transcript.shown, 1, transcript.cursor)'
    BY <1>3 DEF TranscriptInv, Within
  <2>4. InOrder(transcript.shown)' /\ Unbroken(transcript.shown)'
    BY <1>3 DEF TranscriptInv, InOrder, Unbroken, IsDelta
  <2>5. (\A row \in 1..transcript.cursor :
            Shows(transcript.shown, row) \/ row \in transcript.announced)'
    BY <1>3 DEF TranscriptInv, Shows
  <2> QED BY <2>1, <2>2, <2>3, <2>4, <2>5
<1>4. ASSUME UNCHANGED <<event_log, transcript>>, NEW t \in Ticks,
             Continues(slot'[t].slice, transcript.cursor)
      PROVE  Continues(slot[t].slice, transcript.cursor)'
  BY <1>4 DEF Settled, Unsettled, Within, InOrder, Unbroken, Shows, Continues, IsDelta
<1>5. ASSUME NEW t \in Ticks, UNCHANGED <<event_log, transcript>>, DOMAIN slot' = Ticks,
             \A o \in Ticks \ {t} : slot'[o] = slot[o],
             t # 1 => slot'[t].pc = "idle",
             slot'[t].pc = "asked" => slot'[t].after = transcript.cursor,
             slot'[t].pc = "answered" => Continues(slot'[t].slice, transcript.cursor)
      PROVE  TranscriptInv'
  <2>1. ASSUME NEW o \in Ticks, slot'[o].pc = "answered"
        PROVE  Continues(slot[o].slice, transcript.cursor)'
    <3>1. Continues(slot'[o].slice, transcript.cursor)
      BY <1>5, <2>1 DEF TranscriptInv
    <3> QED BY <1>4, <1>5, <3>1
  <2>2. \A o \in Ticks : /\ o # 1 => slot'[o].pc = "idle"
                         /\ slot'[o].pc = "asked" => slot'[o].after = transcript'.cursor
    BY <1>5 DEF TranscriptInv
  <2> QED BY <1>3, <1>5, <2>1, <2>2 DEF TranscriptInv
<1>6. ASSUME UNCHANGED <<event_log, transcript, slot>> PROVE TranscriptInv'
  <2>1. \A t \in Ticks : (slot[t].pc = "answered" => Continues(slot[t].slice, transcript.cursor))'
    BY <1>4, <1>6 DEF TranscriptInv
  <2> QED BY <1>3, <1>6, <2>1 DEF TranscriptInv
<1>7. ASSUME UNCHANGED event_log, NEW t \in Ticks, Tick(t) PROVE TranscriptInv'
  BY <1>5, <1>7 DEF Tick, SingleFlight, TranscriptInv
<1>8. ASSUME UNCHANGED event_log, NEW t \in Ticks, tuiSnapshot(t) PROVE TranscriptInv'
  <2>1. slot[t].after = transcript.cursor /\ (t # 1 => slot[t].pc = "idle")
    BY <1>8 DEF tuiSnapshot, TranscriptInv
  <2>2. Continues(transcriptSince(slot[t].after), transcript.cursor)
    BY <2>1, SnapshotContinues DEF TranscriptInv
  <2>3. /\ t = 1 /\ UNCHANGED transcript /\ DOMAIN slot' = Ticks /\ slot'[t].pc = "answered"
        /\ slot'[t].slice = transcriptSince(slot[t].after)
        /\ \A o \in Ticks \ {t} : slot'[o] = slot[o]
    BY <1>8, <2>1 DEF tuiSnapshot, TranscriptInv
  <2> QED BY <1>5, <1>8, <2>2, <2>3
<1>9. ASSUME UNCHANGED event_log, NEW t \in Ticks, Fails(t) PROVE TranscriptInv'
  <2>1. /\ t # 1 => slot[t].pc = "idle"
        /\ slot[t].pc = "asked" /\ UNCHANGED transcript /\ DOMAIN slot' = Ticks
        /\ slot'[t].pc \in {"idle", "hung"} /\ \A o \in Ticks \ {t} : slot'[o] = slot[o]
    BY <1>9 DEF Fails, TranscriptInv
  <2> QED BY <1>5, <1>9, <2>1
<1>10. ASSUME UNCHANGED event_log, NEW t \in Ticks, Apply(t) PROVE TranscriptInv'
  <2>1. /\ t # 1 => slot[t].pc = "idle"
        /\ slot[t].pc = "answered" /\ DOMAIN slot' = Ticks /\ slot'[t] = Idle
        /\ \A o \in Ticks \ {t} : slot'[o] = slot[o] /\ slot[o].pc = "idle"
    BY <1>10 DEF Apply, TranscriptInv, Ticks
  <2>2. \A o \in Ticks : slot'[o].pc = "idle"
    BY <2>1 DEF Idle
  <2>3. event_log' \in Seq(Kinds)
    BY <1>10 DEF TranscriptInv
  <2> QED BY <1>10, <2>1, <2>2, <2>3, AppliedAnswer DEF TranscriptInv
<1>11. CASE TuiStep /\ UNCHANGED pumpVars
  <2>1. UNCHANGED event_log
    BY <1>11 DEF pumpVars
  <2>2. (\E t \in Ticks : Tick(t) \/ tuiSnapshot(t) \/ Fails(t) \/ Apply(t))
        \/ UNCHANGED <<transcript, slot>>
    BY <1>11 DEF TuiStep, Handled, ClickRequest, Lands, Press, Click
  <2> QED BY <1>6, <1>7, <1>8, <1>9, <1>10, <2>1, <2>2
<1>12. CASE UNCHANGED vars
  BY <1>6, <1>12 DEF vars, pumpVars, tuiVars
<1> QED BY <1>2, <1>11, <1>12 DEF Next

(* A pane keeps what it has seen and says what it has not, whenever its       *)
(* snapshots are taken and however they fail (transcriptSince in             *)
(* runtime/supervisor.js, applyTranscripts in tui/state.js).                *)
THEOREM TranscriptsAreWhole == Spec => []TranscriptWhole
<1>1. ASSUME TranscriptInv PROVE TranscriptWhole
  <2> DEFINE shown == transcript.shown
             cursor == transcript.cursor
  <2>1. /\ Within(shown, 1, cursor) /\ InOrder(shown) /\ Unbroken(shown) /\ cursor \in Nat
        /\ Unsettled(transcript.provisional, cursor)
        /\ \A row \in 1..cursor : Shows(shown, row) \/ row \in transcript.announced
    BY <1>1 DEF TranscriptInv, Settled
  <2>2. shown \in Seq(Nat \X Nat) /\ Len(shown) \in Nat /\ DOMAIN shown = 1..Len(shown)
    BY <2>1, LenProperties DEF Within
  <2>3. DOMAIN shown \ {1} = 2..Len(shown)
    BY <2>2
  <2>4. ASSUME NEW row \in transcript.provisional, NEW n \in DOMAIN shown, row \in shown[n][1]..shown[n][2]
        PROVE  FALSE
    <3> DEFINE lo == shown[n][1]
               hi == shown[n][2]
    <3>1. lo \in Nat /\ hi \in Nat /\ hi <= cursor
      BY <2>1, <2>2, LinesAreIntervals
    <3>2. row \in Nat /\ cursor < row
      BY <2>1 DEF Unsettled
    <3>3. row \in lo..hi
      BY <2>4
    <3> HIDE DEF lo, hi
    <3> QED BY <2>1, <3>1, <3>2, <3>3
  <2>5. \A row \in transcript.provisional : IsDelta(row) /\ row > cursor
    BY <2>1 DEF Unsettled
  <2>6. /\ \A n \in 2..Len(shown) : shown[n - 1][2] < shown[n][1]
        /\ \A n \in 2..Len(shown) :
              ~(shown[n - 1][2] + 1 = shown[n][1] /\ IsDelta(shown[n - 1][2]) /\ IsDelta(shown[n][1]))
        /\ \A row \in 1..cursor : (\E n \in DOMAIN shown : row \in shown[n][1]..shown[n][2])
                                     \/ row \in transcript.announced
    BY <2>1, <2>2 DEF InOrder, Unbroken, Shows
  <2> HIDE DEF shown, cursor
  <2>7. /\ \A n \in DOMAIN shown \ {1} : shown[n - 1][2] < shown[n][1]
        /\ \A n \in DOMAIN shown \ {1} :
              ~(shown[n - 1][2] + 1 = shown[n][1] /\ IsDelta(shown[n - 1][2]) /\ IsDelta(shown[n][1]))
    BY <2>3, <2>6
  <2> QED BY <2>4, <2>5, <2>6, <2>7, Zenon DEF TranscriptWhole, shown, cursor
<1> QED BY <1>1, TranscriptInit, TranscriptStep, PTL DEF Spec
=============================================================================
