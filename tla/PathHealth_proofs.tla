-------------------------- MODULE PathHealth_proofs --------------------------
(***************************************************************************)
(* Proofs about Reconnect and PathHealth for every choice of the flags,    *)
(* the defaults and the width of a duration: the delays stay in range, an  *)
(* absent path is redialled in time, a path whose writes fail rests, and   *)
(* not for too long.                                                       *)
(***************************************************************************)
EXTENDS PathHealth, PathSet_proofs, TLAPS

(* While the goroutine sleeps, what is left of its timer and what the path *)
(* has waited already add up to one delay at most; and nobody has waited   *)
(* for a path that is there.                                               *)
WaitInv ==
  /\ 2 * maxDelay <= MaxDuration
  /\ present \/ pc = "dial" => missing = 0
  /\ pc = "poll" => missing + timer <= minDelay
  /\ pc = "backoff" => missing + timer <= maxDelay

DelayInv == TypeOK /\ WaitInv

(* The count of failures is the row of failed writes, and the rest of the  *)
(* cooldown with the time since the last failure covers the cooldown of    *)
(* that row, but no more than the longest one.                             *)
HealthInv ==
  /\ sender \in {"idle", "mark", "remove"}
  /\ stale \in BOOLEAN /\ other \in BOOLEAN
  /\ fails \in 0..LongestRow /\ row = fails
  /\ cooldown \in 0..Longest /\ since \in 0..Longest
  /\ cooldown = 0 \/ cooldown + since <= Longest
  /\ row > 0 => cooldown + since >= CooldownAfter(row)

-----------------------------------------------------------------------------
(* Durations.                                                              *)

LEMMA DurationBounds ==
  /\ MaxDuration \in Nat
  /\ DefaultMin \in 1..MaxDuration /\ DefaultMax \in DefaultMin..MaxDuration
  /\ \A d \in Durations : d \in Int /\ d <= MaxDuration /\ 2 * d <= MaxDuration
  /\ 2 * DefaultMax <= MaxDuration
<1> HIDE DEF MaxDuration
<1>1. MaxDuration \in Nat /\ Durations \subseteq -MaxDuration..MaxDuration
  BY DurationsAssumption
<1> QED
  BY <1>1, DefaultsAssumption, NoOverflowAssumption

LEMMA SmallModulo ==
  ASSUME NEW m \in Nat \ {0}, NEW a \in 0..(m - 1)
  PROVE  a % m = a
OBVIOUS

(* A number that is a Duration is not changed by its width.                *)
LEMMA WrapKeepsDurations ==
  ASSUME NEW n \in 0..MaxDuration
  PROVE  Wrap(n) = n
<1> HIDE DEF MaxDuration
<1>1. MaxDuration \in Nat
  BY DurationBounds
<1>2. /\ 2 * (MaxDuration + 1) \in Nat \ {0}
      /\ n + MaxDuration + 1 \in 0..(2 * (MaxDuration + 1) - 1)
  BY <1>1
<1>3. (n + MaxDuration + 1) % (2 * (MaxDuration + 1)) = n + MaxDuration + 1
  BY <1>2, SmallModulo
<1> QED
  BY <1>1, <1>3 DEF Wrap

(* The doubled delay stays between the delay and the maximum.              *)
LEMMA NextCurrentInRange ==
  ASSUME DelayInv
  PROVE  NextCurrent \in current..maxDelay
<1> HIDE DEF MaxDuration
<1>1. /\ MaxDuration \in Nat /\ minDelay \in 1..MaxDuration
      /\ maxDelay \in minDelay..MaxDuration /\ current \in minDelay..maxDelay
      /\ 2 * maxDelay <= MaxDuration
  BY DurationBounds DEF DelayInv, TypeOK, WaitInv
<1>2. 2 * current \in 0..MaxDuration
  BY <1>1
<1>3. Wrap(2 * current) = 2 * current
  BY <1>2, WrapKeepsDurations
<1> QED
  BY <1>1, <1>3 DEF NextCurrent, Smaller

-----------------------------------------------------------------------------
(* The goroutine.                                                          *)

LEMMA DelayInit == Init => DelayInv
<1> HIDE DEF MaxDuration
<1> SUFFICES ASSUME Init PROVE DelayInv
  OBVIOUS
<1>1. PICK lo \in Durations, hi \in Durations :
        /\ Accepted(NormalMin(lo), NormalMax(hi))
        /\ minDelay = NormalMin(lo) /\ maxDelay = NormalMax(hi)
  BY DEF Init
<1>2. /\ minDelay \in Int /\ maxDelay \in Int /\ 0 < minDelay /\ minDelay <= maxDelay
      /\ maxDelay <= MaxDuration /\ 2 * maxDelay <= MaxDuration
  <2>1. /\ lo \in Int /\ hi \in Int /\ DefaultMin \in Int /\ DefaultMax \in Int
        /\ 0 < DefaultMin /\ DefaultMax <= MaxDuration /\ 2 * DefaultMax <= MaxDuration
        /\ hi <= MaxDuration /\ 2 * hi <= MaxDuration
    BY DurationBounds
  <2> QED
    BY <1>1, <2>1 DEF Accepted, NormalMin, NormalMax
<1>3. MaxDuration \in Nat /\ MaxFailures \in Nat
  BY DurationBounds, DurationsAssumption
<1> QED
  BY <1>2, <1>3 DEF Init, DelayInv, TypeOK, WaitInv

LEMMA DelayNext ==
  ASSUME DelayInv, [Next]_vars
  PROVE  DelayInv'
<1> USE DEF DelayInv, TypeOK, WaitInv, config, history
<1> HIDE DEF MaxDuration
<1>1. MaxDuration \in Nat /\ MaxFailures \in Nat
  BY DurationBounds, DurationsAssumption
<1>2. CASE PathFails
  BY <1>2 DEF PathFails
<1>3. CASE Check
  BY <1>1, <1>3 DEF Check
<1>4. CASE DialFails
  <2>1. current' \in minDelay..maxDelay
    BY <1>1, <1>4, NextCurrentInRange DEF DialFails
  <2> QED
    BY <1>1, <1>4, <2>1 DEF DialFails, Smaller
<1>5. CASE DialSucceeds
  BY <1>1, <1>5 DEF DialSucceeds
<1>6. CASE Wake
  BY <1>6 DEF Wake
<1>7. CASE Tick
  BY <1>1, <1>7 DEF Tick, Sleeping, Smaller
<1>8. CASE UNCHANGED vars
  BY <1>8 DEF vars
<1> QED
  BY <1>2, <1>3, <1>4, <1>5, <1>6, <1>7, <1>8 DEF Next

(* The delays stay in the configured range however long a server is away   *)
(* (reconnectBackoff.next, client.go:655-664).                             *)
THEOREM DelaysInRange == Spec => []TypeOK
<1>1. DelayInv => TypeOK
  BY DEF DelayInv
<1> QED
  BY <1>1, DelayInit, DelayNext, PTL DEF Spec

(* An absent path is dialled again after the maximum delay at the latest,  *)
(* and after the minimum if it was lost while the goroutine slept on it    *)
(* (reconnectClientPath, client.go:607-630).                               *)
THEOREM RedialsInTime == Spec => []RedialInTime
<1>1. DelayInv => RedialInTime
  BY DEF DelayInv, TypeOK, WaitInv, RedialInTime
<1> QED
  BY <1>1, DelayInit, DelayNext, PTL DEF Spec

-----------------------------------------------------------------------------
(* The schedule of the delays.                                             *)

LEMMA DoubledValues ==
  /\ Doubled[0] = 1
  /\ \A n \in Nat : Doubled[n] \in Nat /\ Doubled[n + 1] = 2 * Doubled[n]
<1> DEFINE step == [n \in Nat |-> [x \in Nat |-> 2 * x]]
<1>1. 1 \in Nat /\ step \in [Nat -> [Nat -> Nat]]
  OBVIOUS
<1>2. PICK f \in [Nat -> Nat] : Solves(f, 1, step)
  <2> HIDE DEF step
  <2> QED
    BY <1>1, Recursion
<1>3. f = [n \in Nat |-> IF n = 0 THEN 1 ELSE 2 * f[n - 1]]
  <2>1. ASSUME NEW n \in Nat \ {0} PROVE f[n] = 2 * f[n - 1]
    <3>1. n - 1 \in Nat /\ f[n - 1] \in Nat /\ f[n] = step[n][f[n - 1]]
      BY <1>2 DEF Solves
    <3> QED
      BY <3>1
  <2>2. f[0] = 1
    BY <1>2 DEF Solves
  <2> HIDE DEF step
  <2> QED
    BY <2>1, <2>2
<1>4. Doubled = [n \in Nat |-> IF n = 0 THEN 1 ELSE 2 * Doubled[n - 1]]
  <2> HIDE DEF step
  <2> QED
    BY <1>3, Zenon DEF Doubled
<1>5. Doubled[0] = 1 /\ \A n \in Nat : Doubled[n + 1] = 2 * Doubled[n]
  <2> SUFFICES ASSUME NEW n \in Nat
               PROVE  Doubled[0] = 1 /\ Doubled[n + 1] = 2 * Doubled[n]
    OBVIOUS
  <2>1. n + 1 \in Nat /\ n + 1 # 0 /\ n + 1 - 1 = n
    OBVIOUS
  <2> QED
    BY <1>4, <2>1
<1> DEFINE Bad == {n \in Nat : Doubled[n] \notin Nat}
<1>6. Bad = {}
  <2> SUFFICES ASSUME Bad # {} PROVE FALSE
    OBVIOUS
  <2>1. PICK m \in Bad : \A n \in Bad : m <= n
    <3>1. Bad \in SUBSET Nat
      OBVIOUS
    <3> HIDE DEF Bad
    <3> QED
      BY <3>1, LeastNumber
  <2>2. m # 0 /\ m - 1 \in Nat /\ m - 1 \notin Bad /\ m = (m - 1) + 1
    BY <1>5, <2>1
  <2> QED
    BY <1>5, <2>2
<1> QED
  BY <1>5, <1>6

LEMMA ScheduleInit == Init => BackoffSchedule
<1> SUFFICES ASSUME Init PROVE current = Smaller(minDelay * Doubled[failures], maxDelay)
  BY DEF BackoffSchedule
<1>1. /\ minDelay \in Int /\ maxDelay \in Int /\ minDelay <= maxDelay
      /\ current = minDelay /\ failures = 0
  BY DelayInit, DurationBounds DEF Init, DelayInv, TypeOK
<1> QED
  BY <1>1, DoubledValues DEF Smaller

LEMMA ScheduleNext ==
  ASSUME DelayInv, BackoffSchedule, [Next]_vars
  PROVE  BackoffSchedule'
<1> USE DEF BackoffSchedule
<1> HIDE DEF MaxDuration
<1>1. /\ MaxDuration \in Nat /\ MaxFailures \in Nat /\ minDelay \in 1..MaxDuration
      /\ maxDelay \in minDelay..MaxDuration /\ current \in minDelay..maxDelay
      /\ failures \in 0..MaxFailures /\ 2 * maxDelay <= MaxDuration
  BY DurationBounds, DurationsAssumption DEF DelayInv, TypeOK, WaitInv
<1>2. CASE DialFails
  <2> SUFFICES ASSUME failures' < MaxFailures
               PROVE  current' = Smaller(minDelay * Doubled[failures'], maxDelay)
    BY <1>2 DEF DialFails, config
  <2>1. failures' = failures + 1 /\ failures < MaxFailures /\ failures \in Nat
    BY <1>1, <1>2 DEF DialFails, Smaller
  <2>2. Wrap(2 * current) = 2 * current
    BY <1>1, WrapKeepsDurations
  <2>3. current' = IF current < maxDelay THEN Smaller(2 * current, maxDelay) ELSE current
    BY <1>2, <2>2 DEF DialFails, NextCurrent
  <2> DEFINE delay == minDelay * Doubled[failures]
  <2>4. delay \in Nat /\ minDelay * Doubled[failures'] = 2 * delay
    BY <1>1, <2>1, DoubledValues
  <2>5. current = Smaller(delay, maxDelay)
    BY <2>1
  <2> HIDE DEF delay
  <2> QED
    BY <1>1, <2>3, <2>4, <2>5 DEF Smaller
<1>3. CASE DialSucceeds
  BY <1>1, <1>3, DoubledValues DEF DialSucceeds, Smaller, config
<1>4. CASE PathFails \/ Check \/ Wake \/ Tick \/ UNCHANGED vars
  BY <1>4 DEF PathFails, Check, Wake, Tick, vars, config, history
<1> QED
  BY <1>2, <1>3, <1>4 DEF Next

(* However many dials fail in a row, the delay after each of them is twice *)
(* the one before, up to the maximum, and a dial that succeeds starts the  *)
(* row again (reconnectBackoff, client.go:641-668).                        *)
THEOREM DelaysDouble == Spec => []BackoffSchedule
<1>1. DelayInv /\ BackoffSchedule /\ [Next]_vars => (DelayInv /\ BackoffSchedule)'
  BY DelayNext, ScheduleNext
<1> QED
  BY <1>1, DelayInit, ScheduleInit, PTL DEF Spec

-----------------------------------------------------------------------------
(* The sender's writes next to it.                                         *)

LEMMA CooldownRange ==
  \A n \in 0..LongestRow : CooldownAfter(n) \in 0..Longest
BY DEF CooldownAfter, Smaller, LongestRow, Longest

(* What the sender does to the path set is nothing, or what any goroutine  *)
(* that takes out the path does.                                           *)
LEMMA StepsAreReconnectSteps ==
  ASSUME DelayInv, HealthInv, [HealthNext]_allVars
  PROVE  [Next]_vars
<1>1. present \in BOOLEAN /\ stale \in BOOLEAN
  BY DEF DelayInv, TypeOK, HealthInv
<1>2. CASE SenderRemoves
  <2>1. CASE present /\ ~stale
    <3>1. present' = FALSE
      BY <1>2, <2>1, Zenon DEF SenderRemoves
    <3>2. UNCHANGED <<config, current, pc, timer, history>>
      BY <1>2 DEF SenderRemoves
    <3> QED
      BY <2>1, <3>1, <3>2 DEF PathFails, Next
  <2>2. CASE ~present \/ stale
    <3>1. present' = present
      BY <1>1, <1>2, <2>2, Zenon DEF SenderRemoves
    <3> QED
      BY <1>2, <3>1 DEF SenderRemoves, vars, config, history
  <2> QED
    BY <2>1, <2>2
<1>3. CASE Redialled
  BY <1>3 DEF Redialled, Next
<1>4. CASE TimePasses
  BY <1>4 DEF TimePasses, Next
<1>5. CASE (PathFails \/ Check \/ DialFails \/ Wake)
             /\ UNCHANGED <<writeVars, healthVars, other>>
  BY <1>5 DEF Next
<1>6. CASE OtherChanges \/ WriteSucceeds \/ WriteFails \/ MarkFailure \/ UNCHANGED allVars
  BY <1>6 DEF OtherChanges, WriteSucceeds, WriteFails, MarkFailure, allVars, vars
<1> QED
  BY <1>2, <1>3, <1>4, <1>5, <1>6 DEF HealthNext

LEMMA HealthStart == HealthInit => DelayInv /\ HealthInv
<1>1. HealthInit => Init
  BY DEF HealthInit
<1>2. HealthInit => HealthInv
  <2> SUFFICES ASSUME HealthInit PROVE HealthInv
    OBVIOUS
  <2>1. stale \in BOOLEAN /\ other \in BOOLEAN
    BY Zenon DEF HealthInit
  <2>2. /\ fails = 0 /\ cooldown = 0 /\ row = 0 /\ since = 16
        /\ LongestRow = 6 /\ Longest = 16 /\ ~(0 > 0)
    BY DEF HealthInit, LongestRow, Longest
  <2>3. sender = "idle"
    BY DEF HealthInit
  <2> QED
    BY <2>1, <2>2, <2>3 DEF HealthInv
<1> QED
  BY <1>1, <1>2, DelayInit

LEMMA HealthStep ==
  ASSUME DelayInv, HealthInv, [HealthNext]_allVars
  PROVE  HealthInv'
<1> USE DEF HealthInv, writeVars, healthVars
<1> HIDE DEF CooldownAfter
<1>1. /\ fails \in 0..LongestRow /\ row = fails /\ CooldownAfter(row) \in 0..Longest
      /\ LongestRow = 6 /\ Longest = 16 /\ CooldownAfter(0) = 0
  BY CooldownRange DEF LongestRow, Longest, CooldownAfter
<1>2. CASE WriteSucceeds
  BY <1>1, <1>2 DEF WriteSucceeds
<1>3. CASE WriteFails
  BY <1>1, <1>3 DEF WriteFails
<1>4. CASE MarkFailure
  <2>1. /\ fails' \in 0..LongestRow /\ row' = fails' /\ since' = 0
        /\ cooldown' = CooldownAfter(fails')
    BY <1>1, <1>4 DEF MarkFailure, Smaller
  <2>2. cooldown' \in 0..Longest
    BY <2>1, CooldownRange
  <2> QED
    BY <1>1, <1>4, <2>1, <2>2 DEF MarkFailure
<1>5. CASE SenderRemoves
  BY <1>1, <1>5 DEF SenderRemoves
<1>6. CASE Redialled
  BY <1>1, <1>6 DEF Redialled
<1>7. CASE OtherChanges
  BY <1>1, <1>7 DEF OtherChanges
<1>8. CASE TimePasses
  BY <1>1, <1>8 DEF TimePasses, Smaller
<1>9. CASE (PathFails \/ Check \/ DialFails \/ Wake)
             /\ UNCHANGED <<writeVars, healthVars, other>>
  BY <1>1, <1>9
<1>10. CASE UNCHANGED allVars
  BY <1>1, <1>10 DEF allVars
<1> QED
  BY <1>2, <1>3, <1>4, <1>5, <1>6, <1>7, <1>8, <1>9, <1>10 DEF HealthNext

LEMMA HealthInvariant == HealthSpec => [](DelayInv /\ HealthInv)
<1>1. DelayInv /\ HealthInv /\ [HealthNext]_allVars => (DelayInv /\ HealthInv)'
  BY DelayNext, StepsAreReconnectSteps, HealthStep
<1> QED
  BY <1>1, HealthStart, PTL DEF HealthSpec

(* The writes and their cooldowns do not disturb the redials: all that is  *)
(* proved of Reconnect holds next to them.                                 *)
THEOREM HealthImplementsReconnect == HealthSpec => Spec
<1>1. HealthInit => Init
  BY DEF HealthInit
<1>2. DelayInv /\ HealthInv /\ [HealthNext]_allVars => [Next]_vars
  BY StepsAreReconnectSteps
<1> QED
  BY <1>1, <1>2, HealthInvariant, PTL DEF HealthSpec, Spec

(* No path is avoided longer than the longest cooldown, neither after a    *)
(* long row of failures nor because of a failure of its predecessor        *)
(* (markFailure, client.go:402-411, 431-439).                              *)
THEOREM NobodyIsAvoidedForLong == HealthSpec => []AvoidedAtMost
<1>1. HealthInv => AvoidedAtMost
  BY DEF HealthInv, AvoidedAtMost, Longest
<1> QED
  BY <1>1, HealthInvariant, PTL

(* After a row of failed writes the path gets no packet before the         *)
(* cooldown of that row is over, as long as another path can take it,      *)
(* whatever redials come in between (nextPath, client.go:339-362).         *)
THEOREM FailedPathsRest == HealthSpec => RestsAfterFailure
<1> DEFINE Rests == Used /\ other /\ row > 0 => since >= CooldownAfter(row)
<1>1. DelayInv /\ HealthInv /\ [HealthNext]_allVars => [Rests]_allVars
  <2> SUFFICES ASSUME DelayInv, HealthInv, HealthNext, Used, other, row > 0
               PROVE  since >= CooldownAfter(row)
    OBVIOUS
  <2> USE DEF writeVars, healthVars
  <2>1. /\ row \in 0..LongestRow /\ CooldownAfter(row) \in 0..Longest
        /\ since \in 0..Longest /\ cooldown \in 0..Longest
        /\ cooldown + since >= CooldownAfter(row)
    BY CooldownRange DEF HealthInv
  <2>2. Picked
    <3>1. CASE WriteSucceeds \/ WriteFails
      BY <3>1 DEF WriteSucceeds, WriteFails
    <3>2. CASE MarkFailure \/ SenderRemoves
      BY <3>2 DEF MarkFailure, SenderRemoves, Used
    <3>3. CASE Redialled \/ OtherChanges \/ TimePasses
                \/ UNCHANGED <<writeVars, healthVars, other>>
      <4>1. sender' = sender /\ row' = row
        BY <3>3 DEF Redialled, OtherChanges, TimePasses
      <4> QED
        BY <2>1, <4>1 DEF Used, LongestRow
    <3> QED
      BY <3>1, <3>2, <3>3 DEF HealthNext
  <2>3. cooldown = 0
    BY <2>2 DEF Picked
  <2> QED
    BY <2>1, <2>3 DEF Longest
<1> QED
  BY <1>1, HealthInvariant, PTL DEF HealthSpec, RestsAfterFailure
=============================================================================
