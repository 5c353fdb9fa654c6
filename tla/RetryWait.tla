----------------------------- MODULE RetryWait -----------------------------
(***************************************************************************)
(* How long a bootstrap waits: retry.Do, under wait.Until, called once for *)
(* each dependency in turn. dib-bootstrap-ctl gives every one of its waits *)
(* a context with a deadline of its own (waitForTCP); the wait for the     *)
(* Stork server that the observability handler adds has none (waitFor).    *)
(*                                                                         *)
(* A wait makes as many attempts as the timeout has seconds. An attempt    *)
(* dials for at most a second; between two attempts Go's select waits for  *)
(* the delay of a second or the deadline, whichever is first, and picks    *)
(* either when both have come. A dial does not know the deadline.          *)
(*                                                                         *)
(* Time is counted in ticks. Abstracted: the program's own steps take no   *)
(* time; of the dependencies only the one waited for has a state, which    *)
(* may change at any moment.                                               *)
(***************************************************************************)
EXTENDS Integers

CONSTANTS
  Waits,        \* the number of dependencies waited for
  Deadlined,    \* the waits that have a deadline
  Timeout,      \* DIB_BOOTSTRAP_TIMEOUT_SECONDS
  Second        \* ticks in a second

ASSUME RetryWaitAssumption ==
  /\ Waits \in Nat \ {0}
  /\ Deadlined \subseteq 1 .. Waits
  /\ Timeout \in Nat \ {0}
  /\ Second \in Nat \ {0}

VARIABLES
  now,      \* ticks since the first wait began
  wait,     \* the number of the current wait
  begun,    \* when it began
  attempt,  \* the number of its current attempt
  phase,    \* "dial", "delay", "reachable" (all of them) or "failed"
  since,    \* when the current dial or delay began
  up,       \* the dependency accepts connections
  changed   \* when up last changed

vars == <<now, wait, begun, attempt, phase, since, up, changed>>

(* The retry loop's arguments.                                             *)
Attempts == Timeout
DialTimeout == Second

(* The delay is as long as the whole wait.                                 *)
Delay_Variant == Timeout * Second

Delay == Second

(* The timeout is counted from the last attempt.                           *)
Expired_Variant == wait \in Deadlined /\ now >= since + Timeout * Second

Expired == wait \in Deadlined /\ now >= begun + Timeout * Second

Waiting == phase \in {"dial", "delay"}

TypeOK ==
  /\ now \in Nat
  /\ wait \in 1 .. Waits
  /\ begun \in 0 .. now
  /\ attempt \in 1 .. Attempts
  /\ phase \in {"dial", "delay", "reachable", "failed"}
  /\ since \in begun .. now
  /\ up \in BOOLEAN
  /\ changed \in 0 .. now

Init ==
  /\ now = 0
  /\ wait = 1
  /\ begun = 0
  /\ attempt = 1
  /\ phase = "dial"
  /\ since = 0
  /\ up \in BOOLEAN
  /\ changed = 0

(* Time passes while a dial is under way or select has nothing to take.    *)
Tick ==
  /\ \/ phase = "dial" /\ now < since + DialTimeout
     \/ phase = "delay" /\ now < since + Delay /\ ~Expired
  /\ now' = now + 1
  /\ UNCHANGED <<wait, begun, attempt, phase, since, up, changed>>

(* The dependency comes up or goes down.                                   *)
Change ==
  /\ Waiting
  /\ up' = ~up
  /\ changed' = now
  /\ UNCHANGED <<now, wait, begun, attempt, phase, since>>

(* The count of attempts goes on from one dependency to the next.          *)
Connect_Variant ==
  /\ phase = "dial"
  /\ up
  /\ IF wait < Waits
     THEN /\ wait' = wait + 1
          /\ begun' = now
          /\ phase' = "dial"
          /\ since' = now
          /\ up' \in BOOLEAN
          /\ changed' = now
          /\ UNCHANGED attempt
     ELSE /\ phase' = "reachable"
          /\ UNCHANGED <<wait, begun, attempt, since, up, changed>>
  /\ UNCHANGED now

(* A connection is made; the next dependency has its own wait.             *)
Connect ==
  /\ phase = "dial"
  /\ up
  /\ IF wait < Waits
     THEN /\ wait' = wait + 1
          /\ begun' = now
          /\ attempt' = 1
          /\ phase' = "dial"
          /\ since' = now
          /\ up' \in BOOLEAN
          /\ changed' = now
     ELSE /\ phase' = "reachable"
          /\ UNCHANGED <<wait, begun, attempt, since, up, changed>>
  /\ UNCHANGED now

(* A dial is refused, or times out: also when the dependency came up while *)
(* the dial was under way, too late for its last packet.                   *)
DialFailed ==
  \/ ~up
  \/ now = since + DialTimeout /\ changed > since

(* The last attempt is followed by a delay like the others.                *)
Refused_Variant ==
  /\ phase = "dial"
  /\ DialFailed
  /\ phase' = "delay"
  /\ since' = now
  /\ UNCHANGED <<now, wait, begun, attempt, up, changed>>

(* The attempt failed: the last one ends the wait, another is followed by  *)
(* the delay.                                                              *)
Refused ==
  /\ phase = "dial"
  /\ DialFailed
  /\ \/ attempt = Attempts /\ phase' = "failed" /\ UNCHANGED since
     \/ attempt < Attempts /\ phase' = "delay" /\ since' = now
  /\ UNCHANGED <<now, wait, begun, attempt, up, changed>>

Retry ==
  /\ phase = "delay"
  /\ now >= since + Delay
  /\ phase' = "dial"
  /\ attempt' = attempt + 1
  /\ since' = now
  /\ UNCHANGED <<now, wait, begun, up, changed>>

Cancel ==
  /\ phase = "delay"
  /\ Expired
  /\ phase' = "failed"
  /\ UNCHANGED <<now, wait, begun, attempt, since, up, changed>>

Do == Connect \/ Refused \/ Retry \/ Cancel

Finished == ~Waiting /\ UNCHANGED vars

Next == Tick \/ Change \/ Do \/ Finished

Spec == Init /\ [][Next]_vars

(***************************************************************************)
(* Properties.                                                             *)
(***************************************************************************)
(* A wait with a deadline outlives it by no more than the dial that was    *)
(* under way; one without is ended by its attempts alone, each with a dial *)
(* and all but the last with a delay.                                      *)
Limit(w) ==
  IF w \in Deadlined THEN (Timeout + 1) * Second
                     ELSE (2 * Timeout - 1) * Second

WaitBounded == now - begun <= Limit(wait)

(* The limits of the first w waits together.                               *)
LimitThrough[w \in 0 .. Waits] ==
  IF w = 0 THEN 0 ELSE LimitThrough[w - 1] + Limit(w)

(* Each wait keeps to its limit and all of them to the sum, which is how    *)
(* long the checks of a bootstrap may take.                                *)
ChecksBounded == WaitBounded /\ now <= LimitThrough[wait]

(* A dependency is not probed more often than once a second.               *)
ProbesSpaced == (attempt - 1) * Second <= since - begun

(* A wait is not given up before it had its attempts: a full timeout, less *)
(* the second that would follow the last one.                              *)
NotGivenUpEarly == phase = "failed" => now - begun >= (Timeout - 1) * Second

(* A wait fails only if the dependency was down at some moment of its last *)
(* two seconds: one that came up before that is noticed.                   *)
ReadinessNoticed ==
  phase = "failed" /\ up => now - changed <= 2 * Second

(* How the waits stay within their limits: where the clock may be in a     *)
(* dial and in a delay, how much time the attempts so far have taken at    *)
(* least and, without a deadline, at most, and when a dependency that is   *)
(* up in a delay came up.                                                  *)
ClockInv ==
  /\ phase = "dial" => now <= since + Second
  /\ phase = "delay" => now <= since + Second /\ attempt < Timeout

DeadlineInv ==
  wait \in Deadlined =>
    /\ phase = "dial" => since <= begun + Timeout * Second
    /\ phase = "delay" =>
         /\ since <= begun + Timeout * Second + Second
         /\ now <= begun + Timeout * Second \/ now = since

AttemptsInv ==
  wait \notin Deadlined =>
    /\ phase = "dial" => since - begun <= 2 * ((attempt - 1) * Second)
    /\ phase = "delay" =>
         since - begun <= 2 * ((attempt - 1) * Second) + Second

UpInv == phase = "delay" /\ up => changed >= since - Second

(* The inductive invariant: WaitBounded, ProbesSpaced, NotGivenUpEarly and *)
(* ReadinessNoticed at any moment, and what makes the next one keep them.  *)
IInv ==
  /\ TypeOK
  /\ ClockInv
  /\ DeadlineInv
  /\ AttemptsInv
  /\ UpInv
  /\ WaitBounded
  /\ ProbesSpaced
  /\ NotGivenUpEarly
  /\ ReadinessNoticed

(* The waits before this one kept to their limits.                         *)
BegunInv == begun <= LimitThrough[wait - 1]

(* A bound on the steps that are left: those of the attempts to come, each  *)
(* a dial and a delay, and those of the present one.                       *)
AttemptsLeft == (Waits - wait) * Timeout + (Timeout - attempt)

Remaining ==
  CASE phase = "dial" -> AttemptsLeft * (2 * Second + 3) + (since + Second - now) + Second + 2
    [] phase = "delay" -> AttemptsLeft * (2 * Second + 3) + (since + Second - now) + 1
    [] OTHER -> 0

(* Whatever the dependencies do, every step of the program, and every tick, *)
(* brings the end of the last wait nearer.                                 *)
BringsEndNearer ==
  [][Remaining' < Remaining \/ UNCHANGED <<now, wait, begun, attempt, phase, since>>]_vars

(* DIB_BOOTSTRAP_TIMEOUT_SECONDS is the "Maximum time for post-start       *)
(* dependency checks before bootstrap fails" (README.md:287); allowed here *)
(* is the dial that may be under way at that time. This does not hold:     *)
(* every check has the timeout to itself.                                  *)
ChecksWithinTimeout == Waiting => now <= (Timeout + 1) * Second

============================================================================
