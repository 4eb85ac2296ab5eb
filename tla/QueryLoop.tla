----------------------------- MODULE QueryLoop -----------------------------
(***************************************************************************)
(* The timing of one provider's QueryResources loop: its time.Ticker, the  *)
(* lastRefresh stamp that the loop compares with the query interval, and   *)
(* the manual refreshes (Refresh buttons, mounting components) that stamp  *)
(* it too and hold the same lock.                                          *)
(*                                                                         *)
(* Time is discrete.  The loop takes a pending tick at once, and a refresh *)
(* (the query, and informing the subscribers) ends within MaxRefresh units *)
(* of time, one way or the other.  Ages are counted up to Horizon, beyond  *)
(* which the code does not tell them apart.  The loop never stops: nothing *)
(* closes quitQueryChannel and nothing clears connectedToGateway once      *)
(* Start has set it.                                                       *)
(***************************************************************************)
EXTENDS Naturals

CONSTANTS
    Interval,    \* queryInterval
    MaxRefresh,  \* the longest a refresh takes
    Horizon      \* ages are counted up to here

ASSUME TimingAssumption ==
    /\ Interval \in Nat \ {0}
    /\ MaxRefresh \in Nat
    /\ Horizon \in Nat
    /\ Horizon > 2 * Interval + MaxRefresh

VARIABLES
    sinceFire,    \* time since the ticker fired
    pending,      \* whether its channel, of capacity 1, holds a tick
    age,          \* time.Since(lastRefresh)
    refresh,      \* who holds refreshMutex: "none", "loop" or "manual"
    elapsed,      \* how long that refresh has been running
    lastBy,       \* history: who made the refresh stamped in lastRefresh
    sinceAttempt  \* history: time since a refresh ended, or since Start

vars == <<sinceFire, pending, age, refresh, elapsed, lastBy, sinceAttempt>>

Older(t) == IF t < Horizon THEN t + 1 ELSE Horizon

\* The ticker runs from the construction of the provider, so at the start of
\* the loop it is anywhere in its period and may have fired; lastRefresh is
\* the zero time, or that of an earlier manual refresh.
Init ==
    /\ sinceFire \in 0 .. Interval - 1
    /\ pending \in BOOLEAN
    /\ age \in 0 .. Horizon
    /\ refresh = "none"
    /\ elapsed = 0
    /\ lastBy = "manual"
    /\ sinceAttempt = 0

\* The loop, blocked in its select, has a tick to take.
LoopReady == pending /\ refresh # "loop"

\* A tick is lost when the channel still holds the one before.
Pass ==
    /\ ~LoopReady
    /\ refresh # "none" => elapsed < MaxRefresh
    /\ IF sinceFire + 1 = Interval
          THEN sinceFire' = 0 /\ pending' = TRUE
          ELSE sinceFire' = sinceFire + 1 /\ pending' = pending
    /\ age' = Older(age)
    /\ sinceAttempt' = Older(sinceAttempt)
    /\ elapsed' = IF refresh = "none" THEN 0 ELSE elapsed + 1
    /\ UNCHANGED <<refresh, lastBy>>

\* Mutant: every tick is skipped.
SkipEveryTick ==
    /\ LoopReady
    /\ pending' = FALSE
    /\ UNCHANGED <<sinceFire, age, refresh, elapsed, lastBy, sinceAttempt>>

\* Mutant: a refresh that is a whole interval old still counts as recent.
SkipTickAtInterval ==
    /\ LoopReady
    /\ age <= Interval
    /\ pending' = FALSE
    /\ UNCHANGED <<sinceFire, age, refresh, elapsed, lastBy, sinceAttempt>>

\* "If we've manually refreshed ... since the last query interval": continue.
SkipTick ==
    /\ LoopReady
    /\ age < Interval
    /\ pending' = FALSE
    /\ UNCHANGED <<sinceFire, age, refresh, elapsed, lastBy, sinceAttempt>>

QueryOnTick ==
    /\ LoopReady
    /\ age >= Interval
    /\ refresh = "none"
    /\ pending' = FALSE
    /\ refresh' = "loop"
    /\ elapsed' = 0
    /\ UNCHANGED <<sinceFire, age, lastBy, sinceAttempt>>

\* TryLock fails: a manual refresh is under way.
FindBusy ==
    /\ LoopReady
    /\ age >= Interval
    /\ refresh = "manual"
    /\ pending' = FALSE
    /\ UNCHANGED <<sinceFire, age, refresh, elapsed, lastBy, sinceAttempt>>

ManualRefresh ==
    /\ refresh = "none"
    /\ refresh' = "manual"
    /\ elapsed' = 0
    /\ UNCHANGED <<sinceFire, pending, age, lastBy, sinceAttempt>>

\* RefreshOccurred stamps lastRefresh, then the lock is released.
Complete ==
    /\ refresh # "none"
    /\ age' = 0
    /\ lastBy' = refresh
    /\ refresh' = "none"
    /\ elapsed' = 0
    /\ sinceAttempt' = 0
    /\ UNCHANGED <<sinceFire, pending>>

\* The query failed: the stamp stays.
Fail ==
    /\ refresh # "none"
    /\ refresh' = "none"
    /\ elapsed' = 0
    /\ sinceAttempt' = 0
    /\ UNCHANGED <<sinceFire, pending, age, lastBy>>

Next ==
    \/ Pass \/ SkipTick \/ QueryOnTick \/ FindBusy
    \/ ManualRefresh \/ Complete \/ Fail

Spec == Init /\ [][Next]_vars

-----------------------------------------------------------------------------
(* Properties. *)

\* Type correctness.
TypeOK ==
    /\ sinceFire \in 0 .. Interval - 1
    /\ pending \in BOOLEAN
    /\ age \in 0 .. Horizon
    /\ refresh \in {"none", "loop", "manual"}
    /\ elapsed \in 0 .. MaxRefresh
    /\ lastBy \in {"loop", "manual"}
    /\ sinceAttempt \in 0 .. Horizon

\* However manual refreshes, skipped ticks, lost ticks and busy locks fall,
\* less than two intervals and one refresh go by between the ends of two
\* refreshes: the displayed state is never older than that as long as
\* queries succeed, and a failed query is retried within that time.
RefreshesKeepComing == sinceAttempt < 2 * Interval + MaxRefresh

\* A tick is passed over only when someone refreshed manually since the
\* last query interval.
SkipsOnlyAfterManual == [][SkipTick => lastBy = "manual"]_vars

-----------------------------------------------------------------------------
(* The inductive invariant behind RefreshesKeepComing. *)

\* Since a refresh last ended: less than an interval before the ticker's last
\* firing, if that tick was passed over; less than two if it is still unread.
QuietSpan ==
    refresh = "none" =>
        sinceAttempt < IF pending THEN 2 * Interval ELSE sinceFire + Interval

\* During a refresh: two intervals may have been used up at its start.
BusySpan == refresh # "none" => sinceAttempt < 2 * Interval + elapsed

\* The stamp is never younger than the last refresh that ended.
StampNotYounger == sinceAttempt <= age

IInv ==
    /\ TypeOK
    /\ QuietSpan
    /\ BusySpan
    /\ StampNotYounger
=============================================================================
