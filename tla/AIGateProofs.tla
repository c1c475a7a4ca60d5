----------------------------- MODULE AIGateProofs -----------------------------
(***************************************************************************)
(* AIGate for every set of callers, every limit and every number of        *)
(* attempts: types, the count of the slots in use, and the absence of lost *)
(* wake-ups.                                                               *)
(***************************************************************************)
EXTENDS AIGate, TLAPS, FiniteSetTheorems, SequenceTheorems

(* The array of waiters holds each waiting caller once.  Release needs it: *)
(* the caller it wakes must not be holding a slot, or be woken twice.      *)
WaitersWait ==
  /\ \A i \in 1..Len(waiting) : at[waiting[i]] = "waiting"
  /\ \A i, j \in 1..Len(waiting) : waiting[i] = waiting[j] => i = j

(* A caller that delays has an attempt left.                               *)
DelayedHaveAttempts ==
  \A c \in Callers : at[c] = "delaying" => attempt[c] < MaxAttempts

(* The callers a placement f puts at some places.                          *)
PlacedAt(f, places) == {x \in Callers : f[x] \in places}

Slots == Cardinality(PlacedAt(at, Holding))

Woken == Cardinality(PlacedAt(at, {"resuming"}))

(* ActiveCounts and NoLostWakeup, in these terms.                          *)
SlotsCounted == active = Slots

WakeupKept == waiting # <<>> => active + Woken >= Limit

Inv ==
  /\ TypeOK
  /\ WaitersWait
  /\ DelayedHaveAttempts
  /\ SlotsCounted
  /\ WakeupKept

(* Such a set is finite.                                                   *)
LEMMA PlacedAtFinite ==
  ASSUME NEW f, NEW places
  PROVE  /\ IsFiniteSet(PlacedAt(f, places))
         /\ Cardinality(PlacedAt(f, places)) \in Nat
BY GateAssumption, FS_Subset, FS_CardinalityType DEF PlacedAt

(* A caller that moves changes the count of the callers at some places by  *)
(* one when it enters or leaves them, and not otherwise.                   *)
LEMMA PlacedAtMove ==
  ASSUME NEW places, NEW f, NEW g, NEW c \in Callers,
         \A x \in Callers \ {c} : g[x] = f[x]
  PROVE  /\ f[c] \notin places /\ g[c] \in places =>
              Cardinality(PlacedAt(g, places)) =
                Cardinality(PlacedAt(f, places)) + 1
         /\ f[c] \in places /\ g[c] \notin places =>
              Cardinality(PlacedAt(g, places)) =
                Cardinality(PlacedAt(f, places)) - 1
         /\ (f[c] \in places <=> g[c] \in places) =>
              PlacedAt(g, places) = PlacedAt(f, places)
<1>1. ASSUME f[c] \notin places, g[c] \in places
      PROVE  Cardinality(PlacedAt(g, places)) =
               Cardinality(PlacedAt(f, places)) + 1
  <2>1. /\ PlacedAt(g, places) = PlacedAt(f, places) \cup {c}
        /\ c \notin PlacedAt(f, places)
    BY <1>1 DEF PlacedAt
  <2> QED
    BY <2>1, PlacedAtFinite, FS_AddElement
<1>2. ASSUME f[c] \in places, g[c] \notin places
      PROVE  Cardinality(PlacedAt(g, places)) =
               Cardinality(PlacedAt(f, places)) - 1
  <2>1. /\ PlacedAt(g, places) = PlacedAt(f, places) \ {c}
        /\ c \in PlacedAt(f, places)
    BY <1>2 DEF PlacedAt
  <2> QED
    BY <2>1, PlacedAtFinite, FS_RemoveElement
<1>3. ASSUME f[c] \in places <=> g[c] \in places
      PROVE  PlacedAt(g, places) = PlacedAt(f, places)
  BY <1>3 DEF PlacedAt
<1> QED
  BY <1>1, <1>2, <1>3

(* What such a move does to the slots in use and to the woken callers.     *)
LEMMA CountsMove ==
  ASSUME NEW c \in Callers, \A x \in Callers \ {c} : at'[x] = at[x]
  PROVE  /\ Slots' = IF at[c] \in Holding
                     THEN IF at'[c] \in Holding THEN Slots ELSE Slots - 1
                     ELSE IF at'[c] \in Holding THEN Slots + 1 ELSE Slots
         /\ Woken' = IF at[c] = "resuming"
                     THEN IF at'[c] = "resuming" THEN Woken ELSE Woken - 1
                     ELSE IF at'[c] = "resuming" THEN Woken + 1 ELSE Woken
<1>1. Slots' = Cardinality(PlacedAt(at', Holding))
  BY DEF Slots
<1>2. Woken' = Cardinality(PlacedAt(at', {"resuming"}))
  BY DEF Woken
<1>3. /\ at[c] \notin Holding /\ at'[c] \in Holding =>
           Cardinality(PlacedAt(at', Holding)) =
             Cardinality(PlacedAt(at, Holding)) + 1
      /\ at[c] \in Holding /\ at'[c] \notin Holding =>
           Cardinality(PlacedAt(at', Holding)) =
             Cardinality(PlacedAt(at, Holding)) - 1
      /\ (at[c] \in Holding <=> at'[c] \in Holding) =>
           PlacedAt(at', Holding) = PlacedAt(at, Holding)
  BY PlacedAtMove
<1>4. /\ at[c] \notin {"resuming"} /\ at'[c] \in {"resuming"} =>
           Cardinality(PlacedAt(at', {"resuming"})) =
             Cardinality(PlacedAt(at, {"resuming"})) + 1
      /\ at[c] \in {"resuming"} /\ at'[c] \notin {"resuming"} =>
           Cardinality(PlacedAt(at', {"resuming"})) =
             Cardinality(PlacedAt(at, {"resuming"})) - 1
      /\ (at[c] \in {"resuming"} <=> at'[c] \in {"resuming"}) =>
           PlacedAt(at', {"resuming"}) = PlacedAt(at, {"resuming"})
  BY PlacedAtMove
<1>5. Slots = Cardinality(PlacedAt(at, Holding))
  BY DEF Slots
<1>6. Woken = Cardinality(PlacedAt(at, {"resuming"}))
  BY DEF Woken
<1> QED
  BY <1>1, <1>2, <1>3, <1>4, <1>5, <1>6

LEMMA InitInv == Init => Inv
<1> SUFFICES ASSUME Init PROVE Inv
  OBVIOUS
<1>1. TypeOK
  BY GateAssumption DEF Init, TypeOK, Place
<1>2. PlacedAt(at, Holding) = {}
  BY DEF Init, PlacedAt, Holding
<1>3. SlotsCounted
  BY <1>2, FS_EmptySet DEF Init, SlotsCounted, Slots
<1> QED
  BY <1>1, <1>3 DEF Init, Inv, WaitersWait, DelayedHaveAttempts, WakeupKept

(* Steps that neither take nor give a slot, nor touch the waiters.         *)
LEMMA OutsideInv ==
  ASSUME Inv, NEW c \in Callers, Arrive(c) \/ Provider(c)
  PROVE  Inv'
<1> USE DEF Inv, Arrive, Provider, Settle, Retry, Delayed
<1>1. TypeOK'
  <2>1. Append(microtasks, c) \in Seq(Callers)
    BY AppendProperties DEF TypeOK
  <2>2. at' \in [Callers -> Place]
    BY DEF TypeOK, Place
  <2>3. attempt' \in [Callers -> 1..MaxAttempts]
    BY GateAssumption DEF TypeOK, DelayedHaveAttempts
  <2> QED
    BY <2>1, <2>2, <2>3 DEF Queue, TypeOK
<1>2. WaitersWait'
  BY DEF TypeOK, WaitersWait
<1>3. DelayedHaveAttempts'
  BY DEF TypeOK, DelayedHaveAttempts
<1>4. Slots' = Slots /\ Woken' = Woken
  <2>1. /\ \A x \in Callers \ {c} : at'[x] = at[x]
        /\ at[c] \in Holding <=> at'[c] \in Holding
        /\ at[c] # "resuming" /\ at'[c] # "resuming"
    BY DEF Holding, TypeOK
  <2> QED
    BY <2>1, CountsMove
<1>5. SlotsCounted' /\ WakeupKept'
  BY <1>4 DEF SlotsCounted, WakeupKept
<1> QED
  BY <1>1, <1>2, <1>3, <1>5

LEMMA AcquireInv == ASSUME Inv, NEW c \in Callers, Acquire(c) PROVE Inv'
<1> USE DEF Inv, Acquire, Runs
<1>1. TypeOK'
  <2>1. /\ Tail(microtasks) \in Seq(Callers)
        /\ Append(waiting, c) \in Seq(Callers)
    BY HeadTailProperties, AppendProperties DEF TypeOK
  <2>2. active' \in Nat /\ waiting' \in Seq(Callers)
    <3>1. \/ active' = active + 1 /\ waiting' = waiting
          \/ active' = active /\ waiting' = Append(waiting, c)
      OBVIOUS
    <3>2. active \in Nat /\ waiting \in Seq(Callers)
      BY DEF TypeOK
    <3>3. active + 1 \in Nat
      BY <3>2
    <3> HIDE DEF Acquire, Runs, Inv
    <3> QED
      BY <2>1, <3>1, <3>2, <3>3
  <2>3. at' \in [Callers -> Place]
    BY DEF TypeOK, Place
  <2>4. attempt' \in [Callers -> 1..MaxAttempts]
    <3>1. attempt' = [attempt EXCEPT ![c] = 1] \/ attempt' = attempt
      OBVIOUS
    <3> QED
      BY <3>1, GateAssumption DEF TypeOK
  <2> QED
    BY <2>1, <2>2, <2>3, <2>4 DEF TypeOK
<1>2. DelayedHaveAttempts'
  BY DEF TypeOK, DelayedHaveAttempts
<1>3. CASE active < Limit
  <2>1. /\ active' = active + 1
        /\ waiting' = waiting
        /\ at' = [at EXCEPT ![c] = "calling"]
    BY <1>3, GateAssumption DEF TypeOK
  <2>2. WaitersWait'
    BY <2>1 DEF TypeOK, WaitersWait
  <2>3. Slots' = Slots + 1 /\ Woken' = Woken
    <3>1. at'[c] = "calling" /\ \A x \in Callers \ {c} : at'[x] = at[x]
      BY <2>1 DEF TypeOK
    <3> QED
      BY <3>1, CountsMove DEF Holding
  <2>4. SlotsCounted'
    BY <2>1, <2>3 DEF SlotsCounted
  <2>5. WakeupKept'
    BY <2>1, <2>3, PlacedAtFinite, GateAssumption
       DEF WakeupKept, TypeOK, Woken
  <2> QED
    BY <1>1, <1>2, <2>2, <2>4, <2>5
<1>4. CASE active >= Limit
  <2>1. /\ active' = active
        /\ waiting' = Append(waiting, c)
        /\ at' = [at EXCEPT ![c] = "waiting"]
    BY <1>4, GateAssumption DEF TypeOK
  <2>2. WaitersWait'
    <3>1. \A i \in 1..Len(waiting) : waiting[i] # c
      BY DEF WaitersWait
    <3>2. /\ Len(waiting') = Len(waiting) + 1 /\ Len(waiting) \in Nat
          /\ waiting'[Len(waiting) + 1] = c
          /\ \A i \in 1..Len(waiting) : waiting'[i] = waiting[i]
      BY <2>1 DEF TypeOK
    <3>3. at'[c] = "waiting" /\ \A x \in Callers \ {c} : at'[x] = at[x]
      BY <2>1 DEF TypeOK
    <3>4. \A i \in 1..Len(waiting) :
            waiting[i] \in Callers /\ waiting'[i] # c
            /\ at'[waiting'[i]] = "waiting"
      BY <3>1, <3>2, <3>3 DEF TypeOK, WaitersWait
    <3>5. \A i \in 1..Len(waiting') :
            i = Len(waiting) + 1 \/ i \in 1..Len(waiting)
      BY <3>2
    <3>6. \A i \in 1..Len(waiting') : at'[waiting'[i]] = "waiting"
      BY <3>2, <3>3, <3>4, <3>5
    <3>7. \A i, k \in 1..Len(waiting') :
            waiting'[i] = waiting'[k] => i = k
      BY <3>2, <3>4, <3>5 DEF WaitersWait
    <3> QED
      BY <3>6, <3>7 DEF WaitersWait
  <2>3. Slots' = Slots /\ Woken' = Woken
    <3>1. at'[c] = "waiting" /\ \A x \in Callers \ {c} : at'[x] = at[x]
      BY <2>1 DEF TypeOK
    <3> QED
      BY <3>1, CountsMove DEF Holding
  <2>4. SlotsCounted'
    BY <2>1, <2>3 DEF SlotsCounted
  <2>5. WakeupKept'
    BY <1>4, <2>1, <2>3, PlacedAtFinite, GateAssumption
       DEF WakeupKept, TypeOK, Woken
  <2> QED
    BY <1>1, <1>2, <2>2, <2>4, <2>5
<1> QED
  BY <1>3, <1>4, GateAssumption DEF TypeOK

(* The woken caller counts itself: the sum of both counts stays.           *)
LEMMA ResumeInv == ASSUME Inv, NEW c \in Callers, Resume(c) PROVE Inv'
<1> USE DEF Inv, Resume, Runs
<1>1. TypeOK'
  <2>1. Tail(microtasks) \in Seq(Callers)
    BY HeadTailProperties DEF TypeOK
  <2> QED
    BY <2>1, GateAssumption DEF TypeOK, Place
<1>2. WaitersWait' /\ DelayedHaveAttempts'
  BY DEF TypeOK, WaitersWait, DelayedHaveAttempts
<1>3. Slots' = Slots + 1 /\ Woken' = Woken - 1
  <2>1. at'[c] = "calling" /\ \A x \in Callers \ {c} : at'[x] = at[x]
    BY DEF TypeOK
  <2> QED
    BY <2>1, CountsMove DEF Holding
<1>4. SlotsCounted'
  BY <1>3 DEF SlotsCounted
<1>5. WakeupKept'
  BY <1>3, PlacedAtFinite, GateAssumption DEF WakeupKept, TypeOK, Woken
<1> QED
  BY <1>1, <1>2, <1>4, <1>5

(* One caller leaves and another one is woken.                             *)
LEMMA WakeMove ==
  ASSUME NEW c \in Callers, NEW w \in Callers, c # w,
         at[c] = "leaving", at'[c] = "idle",
         at[w] = "waiting", at'[w] = "resuming",
         \A x \in Callers \ {c, w} : at'[x] = at[x]
  PROVE  Slots' = Slots - 1 /\ Woken' = Woken + 1
<1>1. /\ PlacedAt(at', Holding) = PlacedAt(at, Holding) \ {c}
      /\ c \in PlacedAt(at, Holding)
  BY DEF PlacedAt, Holding
<1>2. /\ PlacedAt(at', {"resuming"}) = PlacedAt(at, {"resuming"}) \cup {w}
      /\ w \notin PlacedAt(at, {"resuming"})
  BY DEF PlacedAt
<1>3. Cardinality(PlacedAt(at', Holding)) =
        Cardinality(PlacedAt(at, Holding)) - 1
  BY <1>1, PlacedAtFinite, FS_RemoveElement
<1>4. Cardinality(PlacedAt(at', {"resuming"})) =
        Cardinality(PlacedAt(at, {"resuming"})) + 1
  BY <1>2, PlacedAtFinite, FS_AddElement
<1> QED
  BY <1>3, <1>4 DEF Slots, Woken

(* Release gives its slot to the caller it wakes, which has yet to count   *)
(* it: again the sum of both counts stays.                                 *)
LEMMA ReleaseInv == ASSUME Inv, NEW c \in Callers, Release(c) PROVE Inv'
<1> USE DEF Inv, Release, Runs
<1>1. active > 0 /\ active' = active - 1
  <2>1. c \in PlacedAt(at, Holding)
    BY DEF PlacedAt, Holding
  <2>2. Slots # 0 /\ Slots \in Nat
    BY <2>1, PlacedAtFinite, FS_EmptySet DEF Slots
  <2> QED
    BY <2>2 DEF SlotsCounted, TypeOK
<1>2. CASE waiting = <<>>
  <2>1. waiting' = <<>> /\ at' = [at EXCEPT ![c] = "idle"]
    BY <1>2
  <2>2. TypeOK'
    <3>1. Tail(microtasks) \in Seq(Callers)
      BY HeadTailProperties DEF TypeOK
    <3>2. at' \in [Callers -> Place]
      BY <2>1 DEF TypeOK, Place
    <3>3. active' \in Nat
      BY <1>1 DEF TypeOK
    <3> QED
      BY <1>2, <2>1, <3>1, <3>2, <3>3 DEF TypeOK
  <2>3. Slots' = Slots - 1
    <3>1. at'[c] = "idle" /\ \A x \in Callers \ {c} : at'[x] = at[x]
      BY <2>1 DEF TypeOK
    <3> QED
      BY <3>1, CountsMove DEF Holding
  <2>4. SlotsCounted' /\ WakeupKept'
    BY <1>1, <2>1, <2>3 DEF SlotsCounted, WakeupKept
  <2>5. WaitersWait' /\ DelayedHaveAttempts'
    BY <2>1 DEF WaitersWait, DelayedHaveAttempts, TypeOK
  <2> QED
    BY <2>2, <2>4, <2>5
<1>3. CASE waiting # <<>>
  <2> DEFINE w == Head(waiting)
  <2>1. /\ w \in Callers /\ at[w] = "waiting" /\ w # c
        /\ waiting' = Tail(waiting)
        /\ microtasks' = Append(Tail(microtasks), w)
        /\ at' = [at EXCEPT ![c] = "idle", ![w] = "resuming"]
    BY <1>3 DEF WaitersWait, TypeOK
  <2>2. TypeOK'
    <3>1. Tail(microtasks) \in Seq(Callers) /\ Tail(waiting) \in Seq(Callers)
      BY <1>3, HeadTailProperties DEF TypeOK
    <3>2. Append(Tail(microtasks), w) \in Seq(Callers)
      BY <2>1, <3>1, AppendProperties
    <3>3. at' \in [Callers -> Place]
      BY <2>1 DEF TypeOK, Place
    <3>4. active' \in Nat
      BY <1>1 DEF TypeOK
    <3> QED
      BY <2>1, <3>1, <3>2, <3>3, <3>4 DEF TypeOK
  <2>3. WaitersWait'
    <3>1. \A i \in 1..Len(waiting') :
             /\ i + 1 \in 1..Len(waiting)
             /\ waiting'[i] = waiting[i + 1]
      BY <1>3, <2>1 DEF TypeOK
    <3>2. \A i \in 1..Len(waiting') : waiting'[i] # w
      BY <1>3, <3>1 DEF TypeOK, WaitersWait
    <3>3. \A i \in 1..Len(waiting') : at'[waiting'[i]] = "waiting"
      BY <2>1, <3>1, <3>2 DEF TypeOK, WaitersWait
    <3>4. \A i, j \in 1..Len(waiting') : waiting'[i] = waiting'[j] => i = j
      BY <3>1 DEF WaitersWait, TypeOK
    <3> QED
      BY <3>3, <3>4 DEF WaitersWait
  <2>4. /\ at[c] = "leaving" /\ at'[c] = "idle" /\ at'[w] = "resuming"
        /\ \A x \in Callers \ {c, w} : at'[x] = at[x]
    BY <2>1 DEF TypeOK
  <2> HIDE DEF w
  <2>5. Slots' = Slots - 1 /\ Woken' = Woken + 1
    BY <2>1, <2>4, WakeMove
  <2>6. SlotsCounted'
    BY <1>1, <2>5 DEF SlotsCounted
  <2>7. WakeupKept'
    BY <1>1, <1>3, <2>5, PlacedAtFinite, GateAssumption
       DEF WakeupKept, TypeOK, Woken
  <2>8. DelayedHaveAttempts'
    BY <2>1 DEF DelayedHaveAttempts, TypeOK
  <2> QED
    BY <2>2, <2>3, <2>6, <2>7, <2>8
<1> QED
  BY <1>2, <1>3

(* Every step of the gate keeps the invariant.                             *)
LEMMA NextInv == Inv /\ [Next]_vars => Inv'
<1> SUFFICES ASSUME Inv, [Next]_vars PROVE Inv'
  OBVIOUS
<1>1. CASE UNCHANGED vars
  BY <1>1 DEF vars, Inv, TypeOK, WaitersWait, DelayedHaveAttempts,
              SlotsCounted, WakeupKept, Slots, Woken
<1>2. CASE Next
  BY <1>2, OutsideInv, AcquireInv, ResumeInv, ReleaseInv DEF Next, Continue
<1> QED
  BY <1>1, <1>2

LEMMA AlwaysInv == Spec => []Inv
BY InitInv, NextInv, PTL DEF Spec

(* The types hold, and no caller makes more attempts than configured, for  *)
(* any number of callers.                                                  *)
THEOREM GateTypeOK == Spec => []TypeOK
<1>1. Inv => TypeOK
  BY DEF Inv
<1> QED
  BY <1>1, AlwaysInv, PTL

(* `active` is the number of callers between acquire and release, however  *)
(* many there are: no slot is leaked or given back twice.                  *)
THEOREM GateActiveCounts == Spec => []ActiveCounts
<1>1. Inv => ActiveCounts
  BY DEF Inv, SlotsCounted, Slots, PlacedAt, ActiveCounts, CallersAt
<1> QED
  BY <1>1, AlwaysInv, PTL

(* No caller is left waiting beside a free slot: the slots in use and the  *)
(* callers on their way to one make up the limit.                          *)
THEOREM GateNoLostWakeup == Spec => []NoLostWakeup
<1>1. Inv => NoLostWakeup
  BY DEF Inv, WakeupKept, Woken, PlacedAt, NoLostWakeup, CallersAt
<1> QED
  BY <1>1, AlwaysInv, PTL
=============================================================================
