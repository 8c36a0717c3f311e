----------------------------- MODULE PathHealth -----------------------------
(***************************************************************************)
(* The cooldown of one client path next to the redials of the same path:   *)
(* clientPathHealth, markSuccess, markFailure and clientPathCooldown in    *)
(* internal/quictransport/client.go, as sendTUNPackets uses them.          *)
(*                                                                         *)
(* Failures are remembered by path id and outlive the stream they happened *)
(* on: a redial may come before, between or after the sender's two steps   *)
(* behind a failed write.  One tick is a second of a cooldown.             *)
(***************************************************************************)
EXTENDS Reconnect

VARIABLES
  sender,    (* "idle", or "mark" and "remove" after a failed write          *)
  stale,     (* the path has been redialled since that write                 *)
  fails,     (* consecutiveFailures; above LongestRow it makes no difference *)
  cooldown,  (* ticks until cooldownUntil                                    *)
  other,     (* another path is active, and not in cooldown                  *)
  row,       (* history: failed writes since the last one that succeeded     *)
  since      (* history: ticks since the last one that failed                *)

writeVars  == <<sender, stale>>
healthVars == <<fails, cooldown, row, since>>
allVars    == <<vars, writeVars, healthVars, other>>

LongestRow == 6
Longest    == 16

(* Mutant: the exponent has no limit.                                      *)
CooldownAfter_Unlimited(n) == IF n = 0 THEN 0 ELSE 2^(n - 1)

(* clientPathCooldown, in ticks.                                           *)
CooldownAfter(n) == IF n = 0 THEN 0 ELSE <<1, 2, 4, 8, 16>>[Smaller(n, 5)]

HealthInit ==
  /\ Init
  /\ sender = "idle" /\ stale = FALSE
  /\ fails = 0 /\ cooldown = 0 /\ other \in BOOLEAN
  /\ row = 0 /\ since = Longest

(* nextPath picks this path: it is not cooling, or there is no better one. *)
Picked == sender = "idle" /\ present /\ (cooldown = 0 \/ ~other)

WriteSucceeds ==
  /\ Picked
  /\ fails' = 0 /\ cooldown' = 0
  /\ row' = 0 /\ UNCHANGED <<vars, writeVars, other, since>>

WriteFails ==
  /\ Picked
  /\ sender' = "mark" /\ stale' = FALSE
  /\ UNCHANGED <<vars, healthVars, other>>

(* Whether or not the path of that id is still the one that failed.        *)
MarkFailure ==
  /\ sender = "mark"
  /\ sender' = "remove"
  /\ fails' = Smaller(fails + 1, LongestRow)
  /\ cooldown' = CooldownAfter(fails')
  /\ row' = Smaller(row + 1, LongestRow) /\ since' = 0
  /\ UNCHANGED <<vars, stale, other>>

(* The stream that failed is taken out if it is still there.               *)
SenderRemoves ==
  /\ sender = "remove"
  /\ sender' = "idle" /\ stale' = FALSE
  /\ present' = (present /\ stale)
  /\ UNCHANGED <<config, current, pc, timer, history, healthVars, other>>

(* Mutant: a path that has been redialled starts in good health.           *)
Redialled_Healthy ==
  /\ DialSucceeds
  /\ stale' = (sender # "idle") /\ fails' = 0 /\ cooldown' = 0
  /\ UNCHANGED <<sender, row, since, other>>

(* add leaves the health of the id alone.                                  *)
Redialled ==
  /\ DialSucceeds
  /\ stale' = (sender # "idle")
  /\ UNCHANGED <<sender, healthVars, other>>

OtherChanges ==
  /\ other' = ~other
  /\ UNCHANGED <<vars, writeVars, healthVars>>

TimePasses ==
  /\ Tick
  /\ cooldown' = IF cooldown > 0 THEN cooldown - 1 ELSE 0
  /\ since' = Smaller(since + 1, Longest)
  /\ UNCHANGED <<writeVars, fails, row, other>>

HealthNext ==
  \/ (PathFails \/ Check \/ DialFails \/ Wake) /\ UNCHANGED <<writeVars, healthVars, other>>
  \/ Redialled \/ TimePasses \/ OtherChanges
  \/ WriteSucceeds \/ WriteFails \/ MarkFailure \/ SenderRemoves

HealthSpec == HealthInit /\ [][HealthNext]_allVars

-----------------------------------------------------------------------------
(* The sender writes to the path: successfully after a failure, or not.    *)
Used == sender = "idle" /\ (row' < row \/ sender' = "mark")

(* A path whose writes fail gets no packet for 1, 2, 4... ticks after the  *)
(* last one as long as another path can take it, however often the path    *)
(* has been lost and redialled in between (docs/architecture.md:116-118).  *)
RestsAfterFailure ==
  [][Used /\ other /\ row > 0 => since >= CooldownAfter(row)]_allVars

(* Nothing keeps a path out of the rotation for more than 16 ticks: not a  *)
(* long row of failures, and not a failure of its predecessor that is      *)
(* marked when the new stream is already there.                            *)
AvoidedAtMost == since >= Longest => cooldown = 0
=============================================================================
