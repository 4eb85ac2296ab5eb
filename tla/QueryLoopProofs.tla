-------------------------- MODULE QueryLoopProofs --------------------------
(* Theorems about QueryLoop for every interval and refresh duration. *)
EXTENDS QueryLoop, TLAPS

LEMMA OlderType == \A t \in 0 .. Horizon : Older(t) \in 0 .. Horizon
BY TimingAssumption DEF Older

\* Ages below the horizon are exact.
LEMMA OlderExact == \A t \in Nat : t < Horizon => Older(t) = t + 1
BY DEF Older

\* Older keeps the order of two ages.
LEMMA OlderMonotone ==
    \A s, t \in 0 .. Horizon : s <= t => Older(s) <= Older(t)
BY TimingAssumption DEF Older

LEMMA InvInit == Init => IInv
BY TimingAssumption DEF Init, IInv, TypeOK, QuietSpan, BusySpan, StampNotYounger

LEMMA TypeNext == TypeOK /\ [Next]_vars => TypeOK'
<1> SUFFICES ASSUME TypeOK, [Next]_vars PROVE TypeOK'
    OBVIOUS
<1> USE TimingAssumption DEF TypeOK
<1>1. CASE Pass
  <2>1. age' \in 0 .. Horizon /\ sinceAttempt' \in 0 .. Horizon
        BY <1>1, OlderType DEF Pass
  <2>2. sinceFire' \in 0 .. Interval - 1 /\ pending' \in BOOLEAN
    <3>1. CASE sinceFire + 1 = Interval
          BY <1>1, <3>1 DEF Pass
    <3>2. CASE sinceFire + 1 # Interval
      <4>1. sinceFire + 1 \in 0 .. Interval - 1
            BY <3>2
      <4>2. QED BY <1>1, <3>2, <4>1 DEF Pass
    <3>3. QED BY <3>1, <3>2
  <2>3. elapsed' \in 0 .. MaxRefresh
        BY <1>1 DEF Pass
  <2>4. QED BY <1>1, <2>1, <2>2, <2>3 DEF Pass
<1>2. CASE SkipTick
      BY <1>2 DEF SkipTick
<1>3. CASE QueryOnTick
  <2>1. elapsed' \in 0 .. MaxRefresh /\ refresh' \in {"none", "loop", "manual"}
        BY <1>3 DEF QueryOnTick
  <2>2. pending' \in BOOLEAN
        BY <1>3 DEF QueryOnTick
  <2>3. QED BY <1>3, <2>1, <2>2 DEF QueryOnTick
<1>4. CASE FindBusy
      BY <1>4 DEF FindBusy
<1>5. CASE ManualRefresh
      BY <1>5 DEF ManualRefresh
<1>6. CASE Complete
      BY <1>6 DEF Complete
<1>7. CASE Fail
      BY <1>7 DEF Fail
<1>8. CASE UNCHANGED vars
      BY <1>8 DEF vars
<1>9. QED BY <1>1, <1>2, <1>3, <1>4, <1>5, <1>6, <1>7, <1>8 DEF Next

LEMMA InvBounds == IInv => RefreshesKeepComing
BY TimingAssumption
DEF IInv, TypeOK, QuietSpan, BusySpan, RefreshesKeepComing

LEMMA InvNext == IInv /\ [Next]_vars => IInv'
<1> SUFFICES ASSUME IInv, [Next]_vars PROVE IInv'
    OBVIOUS
<1>t. TypeOK /\ TypeOK'
      BY TypeNext DEF IInv
<1> SUFFICES (QuietSpan /\ BusySpan /\ StampNotYounger)'
    BY <1>t DEF IInv
<1> USE <1>t, TimingAssumption
    DEF IInv, TypeOK, QuietSpan, BusySpan, StampNotYounger
<1>1. CASE Pass
  <2>1. sinceAttempt' = sinceAttempt + 1
    <3>1. sinceAttempt < Horizon
          BY InvBounds DEF RefreshesKeepComing
    <3>2. QED BY <1>1, <3>1, OlderExact DEF Pass
  <2>2. StampNotYounger'
        BY <1>1, OlderMonotone DEF Pass
  <2>3. QuietSpan'
    <3>1. SUFFICES ASSUME refresh = "none"
                   PROVE  sinceAttempt' < IF pending' THEN 2 * Interval
                                                      ELSE sinceFire' + Interval
          BY <1>1 DEF Pass
    <3>2. ~pending /\ sinceAttempt < sinceFire + Interval
          BY <1>1, <3>1 DEF Pass, LoopReady
    <3>3. CASE sinceFire + 1 = Interval
      <4>1. pending' = TRUE /\ sinceFire' = 0
            BY <1>1, <3>3 DEF Pass
      <4>2. QED BY <2>1, <3>2, <3>3, <4>1
    <3>4. CASE sinceFire + 1 # Interval
      <4>1. pending' = FALSE /\ sinceFire' = sinceFire + 1
            BY <1>1, <3>2, <3>4 DEF Pass
      <4>2. QED BY <2>1, <3>2, <4>1
    <3>5. QED BY <3>3, <3>4
  <2>4. BusySpan'
        BY <1>1, <2>1 DEF Pass
  <2>5. QED BY <2>2, <2>3, <2>4
<1>2. CASE SkipTick
      BY <1>2 DEF SkipTick
<1>3. CASE QueryOnTick
  <2>1. sinceAttempt < 2 * Interval + elapsed'
        BY <1>3 DEF QueryOnTick, LoopReady
  <2>2. QED BY <1>3, <2>1 DEF QueryOnTick
<1>4. CASE FindBusy
      BY <1>4 DEF FindBusy
<1>5. CASE ManualRefresh
      BY <1>5 DEF ManualRefresh
<1>6. CASE Complete
      BY <1>6 DEF Complete
<1>7. CASE Fail
      BY <1>7 DEF Fail
<1>8. CASE UNCHANGED vars
      BY <1>8 DEF vars
<1>9. QED BY <1>1, <1>2, <1>3, <1>4, <1>5, <1>6, <1>7, <1>8 DEF Next

\* The inductive invariant holds in every reachable state.
THEOREM Invariance == Spec => []IInv
<1>1. Init => IInv
      BY InvInit
<1>2. IInv /\ [Next]_vars => IInv'
      BY InvNext
<1>3. QED BY <1>1, <1>2, PTL DEF Spec

\* Whatever the interval and the longest refresh, the ends of two refreshes
\* are less than two intervals and one refresh apart.
THEOREM Punctual == Spec => []RefreshesKeepComing
<1>1. IInv => RefreshesKeepComing
      BY InvBounds
<1>2. QED BY <1>1, Invariance, PTL
=============================================================================
