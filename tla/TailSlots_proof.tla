---- MODULE TailSlots_proof ----
(***************************************************************************)
(* For every finite set of streams and every limit, with failures and      *)
(* expiries anywhere: what the Redis counter of the tail streams of a key  *)
(* does keep, although it does not keep the cap.                           *)
(*                                                                         *)
(* The invariant says that the counter counts placed streams only and that *)
(* those not refused exceed the limit by no more than what it forgot.      *)
(* LostHasEnded makes it inductive: a stream that lost its place never     *)
(* acts again, so each action moves at most one stream in or out of        *)
(* Placed, which one lemma per kind of action says.                        *)
(***************************************************************************)
EXTENDS TailSlots, FiniteSetTheorems, TLAPS

LostHasEnded == \A s \in lost : pc[s] = "failed"

SlotInv == TypeOK /\ LostHasEnded /\ NoPhantomPlace /\ CapUpToForgotten

LEMMA TypeStep == TypeOK /\ [Next]_vars => TypeOK'
<1> SUFFICES ASSUME TypeOK, [Next]_vars PROVE TypeOK'
  OBVIOUS
<1> USE TailAssumption DEF TypeOK, Places, Ends, Goto, Touched
<1>1. ASSUME NEW s \in Streams, Incr(s) PROVE TypeOK'
  BY <1>1 DEF Incr
<1>2. ASSUME NEW s \in Streams, Expire(s) PROVE TypeOK'
  BY <1>2 DEF Expire
<1>3. ASSUME NEW s \in Streams, Decr(s) PROVE TypeOK'
  BY <1>3 DEF Decr
<1>4. ASSUME NEW s \in Streams, Audit(s) PROVE TypeOK'
  BY <1>4 DEF Audit
<1>5. ASSUME NEW s \in Streams, Close(s) PROVE TypeOK'
  BY <1>5 DEF Close
<1>6. ASSUME NEW s \in Streams, Release(s) PROVE TypeOK'
  BY <1>6 DEF Release
<1>7. ASSUME NEW s \in Streams, Delete(s) PROVE TypeOK'
  BY <1>7 DEF Delete
<1>8. ASSUME NEW s \in Streams, Lose(s) PROVE TypeOK'
  BY <1>8 DEF Lose
<1>9. CASE Expiry
  BY <1>9 DEF Expiry
<1>10. CASE UNCHANGED vars
  BY <1>10 DEF vars
<1> QED
  BY <1>1, <1>2, <1>3, <1>4, <1>5, <1>6, <1>7, <1>8, <1>9, <1>10 DEF Next, Step

LEMMA LostStep == TypeOK /\ LostHasEnded /\ [Next]_vars => LostHasEnded'
<1> SUFFICES ASSUME TypeOK, LostHasEnded, [Next]_vars PROVE LostHasEnded'
  OBVIOUS
<1> USE DEF TypeOK, LostHasEnded, Places, Goto
<1>1. ASSUME NEW s \in Streams, Step(s) PROVE LostHasEnded'
  BY <1>1 DEF Step, Incr, Expire, Decr, Audit, Close, Release, Delete
<1>2. ASSUME NEW s \in Streams, Lose(s) PROVE LostHasEnded'
  BY <1>2 DEF Lose
<1>3. CASE Expiry \/ UNCHANGED vars
  BY <1>3 DEF Expiry, vars
<1> QED
  BY <1>1, <1>2, <1>3 DEF Next

----------------------------------------------------------------------------
(* How the actions move streams in and out of Placed *)

LEMMA PlacedFinite == TypeOK => /\ Placed \in SUBSET Streams
                                /\ IsFiniteSet(Placed)
                                /\ IsFiniteSet(Placed \ over)
                                /\ Cardinality(Placed) \in Nat
                                /\ Cardinality(Placed \ over) \in Nat
                                /\ Cardinality(Placed \ over) <= Cardinality(Placed)
<1> SUFFICES ASSUME TypeOK
             PROVE /\ Placed \in SUBSET Streams
                   /\ IsFiniteSet(Placed)
                   /\ IsFiniteSet(Placed \ over)
                   /\ Cardinality(Placed) \in Nat
                   /\ Cardinality(Placed \ over) \in Nat
                   /\ Cardinality(Placed \ over) <= Cardinality(Placed)
  OBVIOUS
<1>1. Placed \in SUBSET Streams
  BY DEF TypeOK, Placed
<1>2. IsFiniteSet(Placed) /\ IsFiniteSet(Placed \ over)
  BY <1>1, TailAssumption, FS_Subset
<1> QED
  BY <1>1, <1>2, FS_CardinalityType, FS_Subset

LEMMA IncrPlaces ==
    ASSUME TypeOK, LostHasEnded, NEW s \in Streams, Incr(s)
    PROVE  s \notin Placed /\ s \notin over /\ Placed' = Placed \union {s}
BY DEF TypeOK, LostHasEnded, Incr, Placed, Places, Goto

LEMMA DecrDisplaces ==
    ASSUME TypeOK, LostHasEnded, NEW s \in Streams, Decr(s) \/ Release(s)
    PROVE  s \in Placed /\ Placed' = Placed \ {s} /\ UNCHANGED over
BY DEF TypeOK, LostHasEnded, Decr, Release, Placed, Places, Goto

LEMMA OthersKeepPlaces ==
    ASSUME TypeOK, LostHasEnded, NEW s \in Streams,
           Expire(s) \/ Audit(s) \/ Close(s) \/ Delete(s) \/ Lose(s)
    PROVE  UNCHANGED <<Placed, over>>
<1> USE DEF TypeOK, LostHasEnded, Placed, Places, Goto
<1>1. CASE Expire(s)
  BY <1>1 DEF Expire
<1>2. CASE Audit(s)
  BY <1>2 DEF Audit
<1>3. CASE Close(s)
  BY <1>3 DEF Close
<1>4. CASE Delete(s)
  BY <1>4 DEF Delete
<1>5. CASE Lose(s)
  BY <1>5 DEF Lose
<1> QED
  BY <1>1, <1>2, <1>3, <1>4, <1>5

----------------------------------------------------------------------------
(* The counter against Placed, one lemma per kind of step *)

Kept == NoPhantomPlace' /\ CapUpToForgotten'

\* A step at which the key vanishes forgets every placed stream.
LEMMA VanishStep ==
    ASSUME SlotInv, UNCHANGED <<Placed, over>>, count' = 0
    PROVE  Kept
<1>1. Cardinality(Placed) \in Nat /\ Cardinality(Placed \ over) <= Cardinality(Placed)
      /\ Cardinality(Placed \ over) \in Nat
  BY PlacedFinite DEF SlotInv
<1> QED
  BY <1>1, TailAssumption DEF Kept, NoPhantomPlace, CapUpToForgotten, Forgotten

\* INCR admits only what the limit leaves room for.
LEMMA IncrStep ==
    ASSUME SlotInv, NEW s \in Streams, Incr(s)
    PROVE  Kept /\ Forgotten' = Forgotten
           /\ (s \in over' => Cardinality(Placed \union {s}) > Limit)
<1> DEFINE Admitted == Placed \ over
<1>1. s \notin Placed /\ s \notin over /\ Placed' = Placed \union {s}
  BY IncrPlaces DEF SlotInv
<1>2. /\ IsFiniteSet(Placed) /\ IsFiniteSet(Admitted)
      /\ Cardinality(Placed) \in Nat /\ Cardinality(Admitted) \in Nat
      /\ Cardinality(Admitted) <= Cardinality(Placed)
  BY PlacedFinite DEF SlotInv
<1>3. Cardinality(Placed') = Cardinality(Placed) + 1
  BY <1>1, <1>2, FS_AddElement
<1>4. count \in Int /\ count' = count + 1 /\ Limit \in Nat
  BY TailAssumption DEF SlotInv, TypeOK, Incr
<1>5. Forgotten \in Int /\ Forgotten' = Forgotten /\ Forgotten >= 0
  BY <1>2, <1>3, <1>4 DEF Forgotten, SlotInv, NoPhantomPlace
<1>6. CASE count' > Limit
  <2>1. over' = over \union {s}
    BY <1>6 DEF Incr
  <2>2. (Placed \ over)' = Admitted
    BY <1>1, <2>1
  <2>3. Cardinality(Placed \union {s}) > Limit
    BY <1>1, <1>2, <1>3, <1>4, <1>5, <1>6 DEF Forgotten
  <2> QED
    BY <1>4, <1>5, <2>2, <2>3 DEF Kept, SlotInv, NoPhantomPlace, CapUpToForgotten
<1>7. CASE ~(count' > Limit)
  <2>1. over' = over
    BY <1>7 DEF Incr
  <2>2. (Placed \ over)' = Admitted \union {s} /\ s \notin Admitted
    BY <1>1, <2>1
  <2>3. Cardinality((Placed \ over)') = Cardinality(Admitted) + 1
    BY <1>2, <2>2, FS_AddElement
  <2>4. Cardinality(Admitted) + 1 <= Limit + Forgotten
    BY <1>2, <1>4, <1>7 DEF Forgotten
  <2> QED
    BY <1>1, <1>5, <2>1, <2>3, <2>4, <1>4 DEF Kept, NoPhantomPlace, CapUpToForgotten
<1> QED
  BY <1>6, <1>7, <1>5

\* DECR takes one off the counter and one stream out of Placed.
LEMMA DecrStep ==
    ASSUME SlotInv, NEW s \in Streams, Decr(s) \/ Release(s)
    PROVE  Kept /\ Forgotten' = Forgotten
<1> DEFINE Admitted == Placed \ over
<1>1. s \in Placed /\ Placed' = Placed \ {s} /\ over' = over
  BY DecrDisplaces DEF SlotInv
<1>2. /\ IsFiniteSet(Placed) /\ IsFiniteSet(Admitted)
      /\ Cardinality(Placed) \in Nat /\ Cardinality(Admitted) \in Nat
  BY PlacedFinite DEF SlotInv
<1>3. Cardinality(Placed') = Cardinality(Placed) - 1
  BY <1>1, <1>2, FS_RemoveElement
<1>4. count \in Int /\ count' = count - 1 /\ Limit \in Nat
  BY TailAssumption DEF SlotInv, TypeOK, Decr, Release
<1>5. Forgotten \in Int /\ Forgotten' = Forgotten /\ Forgotten >= 0
  BY <1>2, <1>3, <1>4 DEF Forgotten, SlotInv, NoPhantomPlace
<1>6. (Placed \ over)' \subseteq Admitted
  BY <1>1
<1>7. Cardinality((Placed \ over)') <= Cardinality(Admitted)
      /\ Cardinality((Placed \ over)') \in Nat
  BY <1>2, <1>6, FS_Subset, FS_CardinalityType
<1> QED
  BY <1>2, <1>4, <1>5, <1>7 DEF Kept, SlotInv, NoPhantomPlace, CapUpToForgotten

\* Steps that leave the counter, Placed and the refused streams alone.
LEMMA QuietStep ==
    ASSUME SlotInv, UNCHANGED <<Placed, over, count>>
    PROVE  Kept /\ Forgotten' = Forgotten
BY DEF SlotInv, Kept, NoPhantomPlace, CapUpToForgotten, Forgotten

LEMMA SlotInit == Init => SlotInv
<1> SUFFICES ASSUME Init PROVE SlotInv
  OBVIOUS
<1>1. TypeOK /\ LostHasEnded
  BY DEF Init, TypeOK, LostHasEnded
<1>2. Placed = {}
  BY DEF Init, Placed, Places
<1>3. Cardinality(Placed) = 0 /\ Cardinality(Placed \ over) = 0
  BY <1>2, FS_EmptySet
<1> QED
  BY <1>1, <1>3, TailAssumption
  DEF Init, SlotInv, NoPhantomPlace, CapUpToForgotten, Forgotten

LEMMA SlotStep == SlotInv /\ [Next]_vars => SlotInv'
<1> SUFFICES ASSUME SlotInv, [Next]_vars PROVE SlotInv'
  OBVIOUS
<1>1. TypeOK' /\ LostHasEnded'
  BY TypeStep, LostStep DEF SlotInv
<1>2. ASSUME NEW s \in Streams, Step(s) \/ Lose(s) PROVE Kept
  <2>1. CASE Incr(s)
    BY <2>1, IncrStep
  <2>2. CASE Decr(s) \/ Release(s)
    BY <2>2, DecrStep
  <2>3. CASE Delete(s)
    BY <2>3, OthersKeepPlaces, VanishStep DEF SlotInv, Delete
  <2>4. CASE Expire(s) \/ Audit(s) \/ Close(s) \/ Lose(s)
    <3>1. UNCHANGED <<Placed, over>>
      BY <2>4, OthersKeepPlaces DEF SlotInv
    <3>2. count' = count
      BY <2>4 DEF Expire, Audit, Close, Lose
    <3> QED
      BY <3>1, <3>2, QuietStep
  <2> QED
    BY <1>2, <2>1, <2>2, <2>3, <2>4 DEF Step
<1>3. CASE Expiry
  <2>1. UNCHANGED <<Placed, over>> /\ count' = 0
    BY <1>3 DEF Expiry, Placed
  <2> QED
    BY <1>1, <2>1, VanishStep DEF SlotInv, Kept
<1>4. CASE UNCHANGED vars
  <2>1. UNCHANGED <<Placed, over, count>>
    BY <1>4 DEF vars, Placed
  <2> QED
    BY <1>1, <2>1, QuietStep DEF SlotInv, Kept
<1> QED
  BY <1>1, <1>2, <1>3, <1>4 DEF Next, SlotInv, Kept

LEMMA SlotInvariant == Spec => []SlotInv
BY SlotInit, SlotStep, PTL DEF Spec

----------------------------------------------------------------------------

\* The types, for every set of streams; no refused stream gets to its audit
\* event.
THEOREM TypeCorrect == Spec => []TypeOK
BY SlotInvariant, PTL DEF SlotInv

\* The counter never counts a stream that gave its place back.
THEOREM NoPhantom == Spec => []NoPhantomPlace
BY SlotInvariant, PTL DEF SlotInv

\* The cap is exceeded by no more than what the counter forgot.
THEOREM CapKept == Spec => []CapUpToForgotten
BY SlotInvariant, PTL DEF SlotInv

\* A stream is refused only when the limit is reached by streams placed before.
THEOREM RefusalJustified == Spec => RefusedForCause
<1> DEFINE Justified == \A s \in Streams :
                          s \in over' \ over => Cardinality(Placed \union {s}) > Limit
<1>1. SlotInv /\ [Next]_vars => [Justified]_vars
  <2> SUFFICES ASSUME SlotInv, [Next]_vars, NEW s \in Streams, s \in over' \ over
               PROVE Cardinality(Placed \union {s}) > Limit
    OBVIOUS
  <2>1. Incr(s)
    BY DEF Next, Step, Incr, Expire, Decr, Audit, Close, Release, Delete, Lose, Expiry, vars
  <2> QED
    BY <2>1, IncrStep
<1> QED
  BY <1>1, SlotInvariant, PTL DEF Spec, RefusedForCause

\* The counter forgets streams only when its key is deleted or expires.
THEOREM ForgettingIsDeletion == Spec => ForgetsOnlyWithKey
<1> DEFINE Honest == Forgotten' > Forgotten => key' = "absent"
<1>1. SlotInv /\ [Next]_vars => [Honest]_vars
  <2> SUFFICES ASSUME SlotInv, Next PROVE Honest
    BY DEF vars
  <2>0. Forgotten \in Int
    BY PlacedFinite DEF SlotInv, TypeOK, Forgotten
  <2>1. ASSUME NEW s \in Streams, Step(s) \/ Lose(s) PROVE Honest
    <3>1. CASE Incr(s)
      <4>1. Forgotten' = Forgotten
        BY <3>1, IncrStep
      <4> QED
        BY <2>0, <4>1
    <3>2. CASE Decr(s) \/ Release(s)
      BY <2>0, <3>2, DecrStep
    <3>3. CASE Delete(s)
      BY <3>3 DEF Delete
    <3>4. CASE Expire(s) \/ Audit(s) \/ Close(s) \/ Lose(s)
      <4>1. UNCHANGED <<Placed, over>>
        BY <3>4, OthersKeepPlaces DEF SlotInv
      <4>2. count' = count
        BY <3>4 DEF Expire, Audit, Close, Lose
      <4> QED
        BY <2>0, <4>1, <4>2, QuietStep
    <3> QED
      BY <2>1, <3>1, <3>2, <3>3, <3>4 DEF Step
  <2>2. CASE Expiry
    BY <2>2 DEF Expiry
  <2> QED
    BY <2>1, <2>2 DEF Next
<1> QED
  BY <1>1, SlotInvariant, PTL DEF Spec, ForgetsOnlyWithKey
====
