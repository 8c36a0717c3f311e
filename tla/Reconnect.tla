----------------------------- MODULE Reconnect -----------------------------
(***************************************************************************)
(* The timing of one reconnect goroutine: reconnectClientPath,             *)
(* reconnectBackoff and normalizeTUNReconnectIntervals in                  *)
(* internal/quictransport/client.go.  ClientTUN has the same goroutine     *)
(* among the others, without time.                                         *)
(*                                                                         *)
(* Time passes in ticks.  A dial takes any number of them; the other steps *)
(* of the goroutine take none, and a timer fires on time.  Durations are   *)
(* signed integers of Width bits, 64 in the code.                          *)
(***************************************************************************)
EXTENDS Integers

CONSTANTS
  Durations,   (* values of the -reconnect-min and -reconnect-max flags      *)
  DefaultMin,  (* DefaultTUNReconnectMinInterval                             *)
  DefaultMax,  (* DefaultTUNReconnectMaxInterval                             *)
  Width,       (* bits of a time.Duration                                    *)
  MaxFailures  (* bound: failures in a row that are counted                  *)

MaxDuration == 2^(Width - 1) - 1

ASSUME DurationsAssumption ==
  /\ Width \in Nat \ {0} /\ MaxDuration \in Nat
  /\ Durations \subseteq -MaxDuration..MaxDuration
  /\ MaxFailures \in Nat
ASSUME DefaultsAssumption ==
  /\ DefaultMin \in 1..MaxDuration /\ DefaultMax \in DefaultMin..MaxDuration

(* The longest delay whose double is still a Duration: far above any value *)
(* a user gives, 146 years in the code.                                    *)
ASSUME NoOverflowAssumption ==
  \A d \in Durations \cup {DefaultMax} : 2 * d <= MaxDuration

VARIABLES
  minDelay, maxDelay,  (* the intervals after normalisation                  *)
  current,             (* reconnectBackoff.current                           *)
  pc,                  (* "check", "poll", "dial" or "backoff"               *)
  timer,               (* what is left of the sleep                          *)
  present,             (* the path set has the path                          *)
  failures,            (* history: failed dials since the last success       *)
  missing,             (* history: ticks the path has been absent with no    *)
                       (* dial under way                                     *)
  quiet                (* history: ticks since the last dial returned, up to *)
                       (* minDelay; minDelay before the first dial           *)

vars == <<minDelay, maxDelay, current, pc, timer, present, failures, missing,
          quiet>>
config  == <<minDelay, maxDelay>>
history == <<failures, missing, quiet>>

Smaller(a, b) == IF a <= b THEN a ELSE b

(* Two's complement arithmetic of Width bits.                              *)
Wrap(n) == ((n + MaxDuration + 1) % (2 * (MaxDuration + 1))) - MaxDuration - 1

(* normalizeTUNReconnectIntervals: zero means the default; what is then    *)
(* negative or out of order is refused, and the client does not start.     *)
NormalMin(d) == IF d = 0 THEN DefaultMin ELSE d
NormalMax(d) == IF d = 0 THEN DefaultMax ELSE d
Accepted(lo, hi) == 0 <= lo /\ 0 <= hi /\ lo <= hi

(* Mutant: the doubled delay is not clamped.                               *)
NextCurrent_Unclamped ==
  IF current < maxDelay THEN Wrap(2 * current) ELSE current

(* reconnectBackoff.next returns current and moves it on.                  *)
NextCurrent ==
  IF current < maxDelay THEN Smaller(Wrap(2 * current), maxDelay) ELSE current

(* The delay stays in the configured range however long a server is away.  *)
TypeOK ==
  /\ minDelay \in 1..MaxDuration /\ maxDelay \in minDelay..MaxDuration
  /\ current \in minDelay..maxDelay
  /\ pc \in {"check", "poll", "dial", "backoff"}
  /\ timer \in 0..maxDelay
  /\ present \in BOOLEAN
  /\ failures \in 0..MaxFailures
  /\ missing \in 0..maxDelay
  /\ quiet \in 0..minDelay

(* The initial dial has succeeded or not when the goroutine starts.        *)
Init ==
  /\ \E lo, hi \in Durations :
       /\ Accepted(NormalMin(lo), NormalMax(hi))
       /\ minDelay = NormalMin(lo) /\ maxDelay = NormalMax(hi)
  /\ current = minDelay
  /\ pc = "check" /\ timer = 0
  /\ present \in BOOLEAN
  /\ failures = 0 /\ missing = 0 /\ quiet = minDelay

(* A receiver or the sender takes the failed path out of the set.          *)
PathFails ==
  /\ present
  /\ present' = FALSE
  /\ UNCHANGED <<config, current, pc, timer, history>>

(* Mutant: a present path is looked at again after the longest delay.      *)
Check_PollsSlowly ==
  /\ pc = "check"
  /\ IF present
     THEN pc' = "poll" /\ timer' = maxDelay /\ UNCHANGED missing
     ELSE pc' = "dial" /\ timer' = 0 /\ missing' = 0
  /\ UNCHANGED <<config, current, present, failures, quiet>>

Check ==
  /\ pc = "check"
  /\ IF present
     THEN pc' = "poll" /\ timer' = minDelay /\ UNCHANGED missing
     ELSE pc' = "dial" /\ timer' = 0 /\ missing' = 0
  /\ UNCHANGED <<config, current, present, failures, quiet>>

DialFails ==
  /\ pc = "dial"
  /\ pc' = "backoff" /\ timer' = current /\ current' = NextCurrent
  /\ failures' = Smaller(failures + 1, MaxFailures)
  /\ quiet' = 0
  /\ UNCHANGED <<config, present, missing>>

(* Mutant: the backoff keeps its value when a dial succeeds.               *)
DialSucceeds_NoReset ==
  /\ pc = "dial"
  /\ pc' = "check" /\ present' = TRUE
  /\ failures' = 0 /\ quiet' = 0
  /\ UNCHANGED <<config, current, timer, missing>>

(* The backoff is reset and the path added; the loop goes on at its top    *)
(* without a sleep.                                                        *)
DialSucceeds ==
  /\ pc = "dial"
  /\ pc' = "check" /\ present' = TRUE
  /\ current' = minDelay
  /\ failures' = 0 /\ quiet' = 0
  /\ UNCHANGED <<config, timer, missing>>

Wake ==
  /\ pc \in {"poll", "backoff"} /\ timer = 0
  /\ pc' = "check"
  /\ UNCHANGED <<config, current, timer, present, history>>

Sleeping == pc \in {"poll", "backoff"} /\ timer > 0

(* One tick, of a sleep or of a dial.                                      *)
Tick ==
  /\ Sleeping \/ pc = "dial"
  /\ timer' = IF Sleeping THEN timer - 1 ELSE timer
  /\ missing' = IF Sleeping /\ ~present THEN missing + 1 ELSE missing
  /\ quiet' = IF Sleeping THEN Smaller(quiet + 1, minDelay) ELSE quiet
  /\ UNCHANGED <<config, current, pc, present, failures>>

Next == PathFails \/ Check \/ DialFails \/ DialSucceeds \/ Wake \/ Tick

Spec == Init /\ [][Next]_vars

-----------------------------------------------------------------------------
Doubled[n \in Nat] == IF n = 0 THEN 1 ELSE 2 * Doubled[n - 1]

(* The delays after 1, 2, 3... failures in a row double from the minimum   *)
(* up to the maximum, whatever successes came before: the delay the next   *)
(* failure will wait depends on the number of failures alone.              *)
BackoffSchedule ==
  failures < MaxFailures =>
    current = Smaller(minDelay * Doubled[failures], maxDelay)

(* An absent path is not left alone longer than the maximum delay before   *)
(* the next dial starts, and one that was lost while the goroutine slept   *)
(* on a present path not longer than the minimum.                          *)
RedialInTime ==
  /\ missing <= maxDelay
  /\ pc = "poll" => missing <= minDelay

(* What the flag promises (cmd/client/main.go:38, "minimum retry delay for *)
(* reconnecting failed TUN paths"): a path is not dialled again before     *)
(* minDelay has passed since its last dial returned.                       *)
MinimumRetryDelay ==
  [][pc = "check" /\ pc' = "dial" => quiet >= minDelay]_vars
=============================================================================
