-------------------------- MODULE RetryWaitProofs --------------------------
(***************************************************************************)
(* Theorems about RetryWait.tla: for any number of dependencies, any       *)
(* timeout and any length of a second, each wait keeps to its limits and   *)
(* notices a dependency that comes up, all waits together keep to the sum  *)
(* of the limits, and every step brings their end nearer.                  *)
(***************************************************************************)
EXTENDS RetryWait, WellFoundedInduction, TLAPS

(* The products of the limits, written as sums: seconds of n attempts.     *)
LEMMA Products ==
  ASSUME NEW n \in Nat, n >= 1
  PROVE  /\ n * Second \in Nat
         /\ (n - 1) * Second \in Nat
         /\ n * Second = (n - 1) * Second + Second
         /\ (n + 1) * Second = n * Second + Second
         /\ (2 * n - 1) * Second = 2 * ((n - 1) * Second) + Second
  BY RetryWaitAssumption, SMT

(* More attempts take no less time.                                        *)
LEMMA Monotone ==
  ASSUME NEW m \in Nat, NEW n \in Nat, 1 <= m, m <= n
  PROVE  (m - 1) * Second <= (n - 1) * Second
<1>1. (n - 1) * Second = (m - 1) * Second + (n - m) * Second
  BY RetryWaitAssumption, SMT
<1>2. (n - m) * Second >= 0
  BY RetryWaitAssumption, SMT
<1> QED
  BY <1>1, <1>2, RetryWaitAssumption, SMT

(* The products that occur in the invariant, for a state of the type.      *)
LEMMA Limits ==
  ASSUME TypeOK
  PROVE  /\ Timeout * Second \in Nat
         /\ (Timeout - 1) * Second \in Nat
         /\ (attempt - 1) * Second \in Nat
         /\ (attempt - 1) * Second <= (Timeout - 1) * Second
         /\ Timeout * Second = (Timeout - 1) * Second + Second
         /\ attempt * Second = (attempt - 1) * Second + Second
         /\ (Timeout + 1) * Second = Timeout * Second + Second
         /\ (2 * Timeout - 1) * Second
              = 2 * ((Timeout - 1) * Second) + Second
<1>1. Timeout \in Nat /\ Timeout >= 1 /\ Second \in Nat
  BY RetryWaitAssumption
<1>2. attempt \in Nat /\ attempt >= 1 /\ attempt <= Timeout
  BY <1>1 DEF TypeOK, Attempts
<1> QED
  BY <1>1, <1>2, Products, Monotone

(* The first dial begins with everything still to come.                    *)
LEMMA InitIInv == Init => IInv
<1> SUFFICES ASSUME Init PROVE IInv
  OBVIOUS
<1>1. TypeOK
  BY RetryWaitAssumption DEF Init, TypeOK, Attempts
<1>2. ClockInv /\ UpInv /\ ReadinessNoticed
  BY RetryWaitAssumption DEF Init, ClockInv, UpInv, ReadinessNoticed
<1>3. DeadlineInv /\ AttemptsInv /\ WaitBounded /\ ProbesSpaced
      /\ NotGivenUpEarly
  BY <1>1, Limits, RetryWaitAssumption
  DEF Init, DeadlineInv, AttemptsInv, WaitBounded, Limit, ProbesSpaced,
      NotGivenUpEarly
<1> QED
  BY <1>1, <1>2, <1>3 DEF IInv

(* While a dial or a delay lasts its time is within the wait's limit.      *)
LEMMA WithinLimit ==
  ASSUME TypeOK, ClockInv, DeadlineInv, AttemptsInv, Waiting
  PROVE  WaitBounded
<1> USE Limits, RetryWaitAssumption DEF Waiting, TypeOK
<1>1. CASE wait \in Deadlined
  BY <1>1 DEF ClockInv, DeadlineInv, WaitBounded, Limit
<1>2. CASE wait \notin Deadlined
  <2>1. phase = "delay" => (attempt - 1) * Second + Second
                             <= (Timeout - 1) * Second
    <3> SUFFICES ASSUME phase = "delay"
                 PROVE  (attempt - 1) * Second + Second
                          <= (Timeout - 1) * Second
      OBVIOUS
    <3>1. attempt + 1 <= Timeout /\ attempt + 1 \in Nat
      BY DEF ClockInv, Attempts
    <3>2. ((attempt + 1) - 1) * Second <= (Timeout - 1) * Second
      BY <3>1, Monotone
    <3>3. (attempt + 1) - 1 = attempt
      BY <3>1
    <3> QED
      BY <3>2, <3>3
  <2> QED
    BY <1>2, <2>1 DEF ClockInv, AttemptsInv, WaitBounded, Limit
<1> QED
  BY <1>1, <1>2

(* The same of the state a step leads to.                                  *)
LEMMA WithinLimitNext ==
  ASSUME TypeOK', ClockInv', DeadlineInv', AttemptsInv', Waiting'
  PROVE  WaitBounded'
  BY WithinLimit, PTL

(* Time passes: a dial keeps within its second, a delay within the         *)
(* deadline.                                                               *)
LEMMA TickIInv == IInv /\ Tick => IInv'
<1> SUFFICES ASSUME IInv, Tick PROVE IInv'
  OBVIOUS
<1> USE RetryWaitAssumption
<1>1. TypeOK'
  BY DEF IInv, Tick, TypeOK, Attempts
<1>2. ClockInv'
  BY DEF IInv, Tick, TypeOK, ClockInv, DialTimeout, Delay
<1>3. DeadlineInv'
  BY Limits DEF IInv, Tick, TypeOK, DeadlineInv, Expired
<1>4. AttemptsInv' /\ UpInv'
  BY Limits DEF IInv, Tick, TypeOK, AttemptsInv, UpInv
<1>5. WaitBounded'
  <2>1. Waiting'
    BY DEF Tick, Waiting
  <2> QED
    BY <1>1, <1>2, <1>3, <1>4, <2>1, WithinLimitNext
<1>6. ProbesSpaced' /\ NotGivenUpEarly' /\ ReadinessNoticed'
  BY DEF IInv, Tick, ProbesSpaced, NotGivenUpEarly, ReadinessNoticed
<1> QED
  BY <1>1, <1>2, <1>3, <1>4, <1>5, <1>6 DEF IInv

(* A dependency changes: it has just come up, or is down.                  *)
LEMMA ChangeIInv == IInv /\ Change => IInv'
<1> SUFFICES ASSUME IInv, Change PROVE IInv'
  OBVIOUS
<1> USE RetryWaitAssumption
<1>1. TypeOK'
  <2>1. up' \in BOOLEAN
    BY Zenon DEF IInv, Change, TypeOK
  <2> QED
    BY <2>1 DEF IInv, Change, TypeOK, Attempts
<1>2. ClockInv' /\ DeadlineInv' /\ AttemptsInv'
  BY DEF IInv, Change, ClockInv, DeadlineInv, AttemptsInv
<1>3. UpInv'
  BY DEF IInv, Change, TypeOK, UpInv
<1>4. WaitBounded' /\ ProbesSpaced'
  BY DEF IInv, Change, WaitBounded, Limit, ProbesSpaced
<1>5. NotGivenUpEarly' /\ ReadinessNoticed'
  BY DEF IInv, Change, Waiting, NotGivenUpEarly, ReadinessNoticed
<1> QED
  BY <1>1, <1>2, <1>3, <1>4, <1>5 DEF IInv

(* A connection ends the wait: the next one begins now.                    *)
LEMMA ConnectIInv == IInv /\ Connect => IInv'
<1> SUFFICES ASSUME IInv, Connect PROVE IInv'
  OBVIOUS
<1> USE RetryWaitAssumption
<1>1. CASE wait < Waits
  <2>1. TypeOK'
    BY <1>1 DEF IInv, Connect, TypeOK, Attempts
  <2>2. ClockInv' /\ UpInv' /\ NotGivenUpEarly' /\ ReadinessNoticed'
    BY <1>1 DEF IInv, Connect, TypeOK, ClockInv, UpInv, NotGivenUpEarly,
                ReadinessNoticed
  <2>3. DeadlineInv' /\ AttemptsInv' /\ ProbesSpaced'
    BY <1>1, Limits DEF IInv, Connect, TypeOK, DeadlineInv, AttemptsInv,
                        ProbesSpaced
  <2>4. Waiting'
    BY <1>1 DEF Connect, Waiting
  <2>5. WaitBounded'
    BY <2>1, <2>2, <2>3, <2>4, WithinLimitNext
  <2> QED
    BY <2>1, <2>2, <2>3, <2>5 DEF IInv
<1>2. CASE ~(wait < Waits)
  BY <1>2 DEF IInv, Connect, TypeOK, Attempts, ClockInv, DeadlineInv,
              AttemptsInv, UpInv, WaitBounded, Limit, ProbesSpaced,
              NotGivenUpEarly, ReadinessNoticed
<1> QED
  BY <1>1, <1>2

(* An attempt fails: the last one ends the wait with all its time used.    *)
LEMMA RefusedIInv == IInv /\ Refused => IInv'
<1> SUFFICES ASSUME IInv, Refused PROVE IInv'
  OBVIOUS
<1> USE RetryWaitAssumption
<1>1. WaitBounded'
  BY DEF IInv, Refused, WaitBounded, Limit
<1>2. CASE attempt = Attempts /\ phase' = "failed" /\ UNCHANGED since
  <2>1. TypeOK'
    BY <1>2 DEF IInv, Refused, TypeOK, Attempts
  <2>2. ClockInv' /\ DeadlineInv' /\ AttemptsInv' /\ UpInv'
    BY <1>2 DEF ClockInv, DeadlineInv, AttemptsInv, UpInv
  <2>3. ProbesSpaced'
    BY <1>2 DEF IInv, Refused, ProbesSpaced
  <2>4. NotGivenUpEarly'
    BY <1>2, Limits DEF IInv, Refused, TypeOK, ProbesSpaced, Attempts,
                        NotGivenUpEarly
  <2>5. ReadinessNoticed'
    BY <1>2 DEF IInv, Refused, TypeOK, ClockInv, DialFailed, DialTimeout,
                ReadinessNoticed
  <2> QED
    BY <1>1, <2>1, <2>2, <2>3, <2>4, <2>5 DEF IInv
<1>3. CASE attempt < Attempts /\ phase' = "delay" /\ since' = now
  <2>1. TypeOK'
    BY <1>3 DEF IInv, Refused, TypeOK, Attempts
  <2>2. ClockInv' /\ UpInv'
    BY <1>3 DEF IInv, Refused, TypeOK, ClockInv, UpInv, DialFailed,
                DialTimeout, Attempts
  <2>3. DeadlineInv' /\ AttemptsInv'
    BY <1>3, Limits DEF IInv, Refused, TypeOK, ClockInv, DeadlineInv,
                        AttemptsInv
  <2>4. ProbesSpaced'
    BY <1>3, Limits DEF IInv, Refused, TypeOK, ProbesSpaced
  <2>5. NotGivenUpEarly' /\ ReadinessNoticed'
    BY <1>3 DEF NotGivenUpEarly, ReadinessNoticed
  <2> QED
    BY <1>1, <2>1, <2>2, <2>3, <2>4, <2>5 DEF IInv
<1> QED
  BY <1>2, <1>3 DEF Refused

(* The delay is over, in time for another attempt.                         *)
LEMMA RetryIInv == IInv /\ Retry => IInv'
<1> SUFFICES ASSUME IInv, Retry PROVE IInv'
  OBVIOUS
<1> USE RetryWaitAssumption
<1>1. now = since + Second
  BY DEF IInv, Retry, TypeOK, ClockInv, Delay
<1>2. (attempt' - 1) * Second = (attempt - 1) * Second + Second
  <2>1. attempt' - 1 = attempt
    BY DEF IInv, Retry, TypeOK, Attempts
  <2> QED
    BY <2>1, Limits DEF IInv
<1>3. TypeOK'
  BY DEF IInv, Retry, TypeOK, ClockInv, Attempts
<1>4. ClockInv' /\ UpInv' /\ NotGivenUpEarly' /\ ReadinessNoticed'
  BY DEF IInv, Retry, TypeOK, ClockInv, UpInv, NotGivenUpEarly,
         ReadinessNoticed
<1>5. DeadlineInv'
  BY <1>1, Limits DEF IInv, Retry, TypeOK, DeadlineInv
<1>6. AttemptsInv'
  BY <1>1, <1>2, Limits DEF IInv, Retry, TypeOK, AttemptsInv
<1>7. ProbesSpaced'
  BY <1>1, <1>2, Limits DEF IInv, Retry, TypeOK, ProbesSpaced
<1>8. WaitBounded'
  BY DEF IInv, Retry, WaitBounded, Limit
<1> QED
  BY <1>3, <1>4, <1>5, <1>6, <1>7, <1>8 DEF IInv

(* The deadline comes in a delay.                                          *)
LEMMA CancelIInv == IInv /\ Cancel => IInv'
<1> SUFFICES ASSUME IInv, Cancel PROVE IInv'
  OBVIOUS
<1> USE RetryWaitAssumption
<1>1. TypeOK' /\ ProbesSpaced' /\ WaitBounded'
  BY DEF IInv, Cancel, TypeOK, Attempts, ProbesSpaced, WaitBounded, Limit
<1>2. ClockInv' /\ DeadlineInv' /\ AttemptsInv' /\ UpInv'
  BY DEF Cancel, ClockInv, DeadlineInv, AttemptsInv, UpInv
<1>3. NotGivenUpEarly'
  BY Limits DEF IInv, Cancel, TypeOK, Expired, NotGivenUpEarly
<1>4. ReadinessNoticed'
  BY DEF IInv, Cancel, TypeOK, ClockInv, UpInv, ReadinessNoticed
<1> QED
  BY <1>1, <1>2, <1>3, <1>4 DEF IInv

LEMMA NextIInv == IInv /\ [Next]_vars => IInv'
<1> SUFFICES ASSUME IInv, [Next]_vars PROVE IInv'
  OBVIOUS
<1>1. CASE UNCHANGED vars
  BY <1>1 DEF IInv, vars, TypeOK, ClockInv, DeadlineInv, AttemptsInv, UpInv,
              WaitBounded, Limit, ProbesSpaced, NotGivenUpEarly,
              ReadinessNoticed
<1> QED
  BY <1>1, TickIInv, ChangeIInv, ConnectIInv, RefusedIInv, RetryIInv,
     CancelIInv
  DEF Next, Do, Finished

(* Every reachable state satisfies the inductive invariant, whatever the   *)
(* number of dependencies, the timeout and the grain of time: the clock    *)
(* of retry.Do under waitForTCP and waitFor.                               *)
THEOREM Invariance == Spec => []IInv
  BY InitIInv, NextIInv, PTL DEF Spec

(* The state keeps its types; an attempt number is never above the limit.  *)
THEOREM TypeCorrect == Spec => []TypeOK
<1>1. IInv => TypeOK
  BY DEF IInv
<1> QED
  BY <1>1, Invariance, PTL

(* A wait ends in time: waitForTCP a dial after its deadline at the latest,*)
(* waitFor when its attempts are used up.                                  *)
THEOREM WaitsEndInTime == Spec => []WaitBounded
<1>1. IInv => WaitBounded
  BY DEF IInv
<1> QED
  BY <1>1, Invariance, PTL

(* retry.Do looks at a dependency once a second at the most.               *)
THEOREM ProbesApart == Spec => []ProbesSpaced
<1>1. IInv => ProbesSpaced
  BY DEF IInv
<1> QED
  BY <1>1, Invariance, PTL

(* A failed wait has used its timeout but for a second.                    *)
THEOREM FullWait == Spec => []NotGivenUpEarly
<1>1. IInv => NotGivenUpEarly
  BY DEF IInv
<1> QED
  BY <1>1, Invariance, PTL

(* The dependency of a failed wait was down in its last two seconds:       *)
(* retry.Do overlooks none that came up before.                            *)
THEOREM FailsForAReason == Spec => []ReadinessNoticed
<1>1. IInv => ReadinessNoticed
  BY DEF IInv
<1> QED
  BY <1>1, Invariance, PTL

(***************************************************************************)
(* All waits together. LimitThrough is defined by recursion, so what it    *)
(* satisfies is shown by induction: a set of numbers, as the smallest one  *)
(* outside it shows, holds them all.                                       *)
(***************************************************************************)
(* A set that holds 0, and of every number the next, holds all.            *)
LEMMA Induction ==
  ASSUME NEW S, 0 \in S, \A n \in Nat : n \in S => n + 1 \in S
  PROVE  Nat \subseteq S
<1> SUFFICES ASSUME Nat \ S # {} PROVE FALSE
  OBVIOUS
<1> DEFINE R == {ss \in Nat \X Nat : ss[1] < ss[2]}
<1>1. IsWellFoundedOn(R, Nat)
  BY NatLessThanWellFounded, Zenon DEF OpToRel
<1>2. \A m, n \in Nat : m < n => <<m, n>> \in R
  OBVIOUS
<1> HIDE DEF R
<1>3. PICK n \in Nat \ S : \A m \in Nat \ S : ~(<<m, n>> \in R)
  <2>1. Nat \ S \subseteq Nat
    OBVIOUS
  <2> QED
    BY <1>1, <2>1, WFMin
<1>4. n # 0 /\ n - 1 \in Nat
  BY <1>3
<1>5. <<n - 1, n>> \in R
  <2>1. n \in Nat /\ n - 1 < n
    BY <1>3
  <2> QED
    BY <1>2, <1>4, <2>1
<1>6. n - 1 \in S
  BY <1>3, <1>4, <1>5
<1> QED
  BY <1>3, <1>4, <1>6

(* A limit is a length of time.                                            *)
LEMMA LimitType == \A w : Limit(w) \in Nat
<1>1. Timeout \in Nat /\ Timeout >= 1 /\ Timeout + 1 \in Nat
  BY RetryWaitAssumption
<1>2. /\ (Timeout + 1) * Second = Timeout * Second + Second
      /\ (2 * Timeout - 1) * Second = 2 * ((Timeout - 1) * Second) + Second
      /\ Timeout * Second \in Nat
      /\ (Timeout - 1) * Second \in Nat
  BY <1>1, Products
<1> QED
  BY <1>2, RetryWaitAssumption DEF Limit

(* The recursion of LimitThrough has a solution, so it is one.             *)
LEMMA LimitThroughDefined ==
  LimitThrough = [w \in 0 .. Waits |->
                    IF w = 0 THEN 0 ELSE LimitThrough[w - 1] + Limit(w)]
<1> DEFINE Sums(n, f) ==
             f = [w \in 0 .. n |-> IF w = 0 THEN 0 ELSE f[w - 1] + Limit(w)]
           S == {n \in Nat : \E f : Sums(n, f)}
<1>1. 0 \in S
  <2>1. Sums(0, [w \in 0 .. 0 |-> 0])
    OBVIOUS
  <2> QED
    BY <2>1
<1>2. ASSUME NEW n \in Nat, n \in S PROVE n + 1 \in S
  <2>1. PICK f : Sums(n, f)
    BY <1>2
  <2> DEFINE g == [w \in 0 .. n + 1 |->
                     IF w = n + 1 THEN f[n] + Limit(n + 1) ELSE f[w]]
  <2>2. ASSUME NEW w \in 0 .. n + 1
        PROVE  g[w] = IF w = 0 THEN 0 ELSE g[w - 1] + Limit(w)
    <3>1. CASE w = 0
      BY <3>1, <2>1
    <3>2. CASE w \in 1 .. n
      <4>1. g[w] = f[w] /\ g[w - 1] = f[w - 1]
        BY <3>2
      <4>2. f[w] = f[w - 1] + Limit(w)
        BY <3>2, <2>1
      <4> QED
        BY <4>1, <4>2, <3>2
    <3>3. CASE w = n + 1
      BY <3>3
    <3> QED
      BY <3>1, <3>2, <3>3
  <2>3. Sums(n + 1, g)
    BY <2>2
  <2>4. n + 1 \in Nat
    OBVIOUS
  <2> HIDE DEF g, Sums
  <2> QED
    BY <2>3, <2>4
<1>3. \E f : Sums(Waits, f)
  <2> HIDE DEF S
  <2>1. Waits \in S
    BY <1>1, <1>2, Induction, RetryWaitAssumption
  <2> QED
    BY <2>1 DEF S
<1>4. LimitThrough = CHOOSE f : Sums(Waits, f)
  BY DEF LimitThrough
<1> HIDE DEF Sums
<1>5. Sums(Waits, LimitThrough)
  BY <1>3, <1>4
<1> QED
  BY <1>5 DEF Sums

(* The sum of the limits of no wait is nothing, that of the first w has    *)
(* the limit of wait w in it.                                              *)
LEMMA LimitThroughSum ==
  /\ LimitThrough[0] = 0
  /\ \A w \in 1 .. Waits : LimitThrough[w] = LimitThrough[w - 1] + Limit(w)
<1> DEFINE Rule(f) == [w \in 0 .. Waits |->
                        IF w = 0 THEN 0 ELSE f[w - 1] + Limit(w)]
<1>1. PICK f : f = LimitThrough
  OBVIOUS
<1>2. f = Rule(f)
  BY <1>1, LimitThroughDefined
<1>3. ASSUME NEW w \in 0 .. Waits
      PROVE  f[w] = IF w = 0 THEN 0 ELSE f[w - 1] + Limit(w)
  <2>1. Rule(f)[w] = IF w = 0 THEN 0 ELSE f[w - 1] + Limit(w)
    OBVIOUS
  <2> QED
    BY <1>2, <2>1, Zenon
<1>4. 0 \in 0 .. Waits /\ \A w \in 1 .. Waits : w \in 0 .. Waits /\ w # 0
  BY RetryWaitAssumption
<1> QED
  BY <1>1, <1>3, <1>4

LEMMA LimitThroughType == \A w \in 0 .. Waits : LimitThrough[w] \in Nat
<1> DEFINE S == {n \in Nat : n <= Waits => LimitThrough[n] \in Nat}
<1>1. 0 \in S
  BY LimitThroughSum
<1>2. ASSUME NEW n \in Nat, n \in S PROVE n + 1 \in S
  <2> SUFFICES ASSUME n + 1 <= Waits PROVE LimitThrough[n + 1] \in Nat
    OBVIOUS
  <2>1. n + 1 \in 1 .. Waits /\ (n + 1) - 1 = n
    BY RetryWaitAssumption
  <2>2. LimitThrough[n + 1] = LimitThrough[n] + Limit(n + 1)
    BY <2>1, LimitThroughSum
  <2>3. LimitThrough[n] \in Nat
    BY <1>2, <2>1, RetryWaitAssumption
  <2>4. Limit(n + 1) \in Nat
    BY LimitType
  <2> QED
    BY <2>2, <2>3, <2>4
<1>3. Nat \subseteq S
  <2> HIDE DEF S
  <2> QED
    BY <1>1, <1>2, Induction
<1> QED
  BY <1>3, RetryWaitAssumption

(* A wait that keeps to its limit ends within the sum up to it, and that   *)
(* is when the next one begins.                                            *)
LEMMA EndsWithinSum ==
  ASSUME TypeOK, WaitBounded, BegunInv
  PROVE  now <= LimitThrough[wait]
<1>1. wait \in 1 .. Waits /\ wait - 1 \in 0 .. Waits /\ wait \in 0 .. Waits
  BY RetryWaitAssumption DEF TypeOK
<1>2. LimitThrough[wait] = LimitThrough[wait - 1] + Limit(wait)
  BY <1>1, LimitThroughSum
<1>3. LimitThrough[wait - 1] \in Nat /\ Limit(wait) \in Nat
  BY <1>1, LimitThroughType, LimitType
<1> QED
  BY <1>2, <1>3 DEF TypeOK, WaitBounded, BegunInv

LEMMA NextBegunInv == IInv /\ BegunInv /\ [Next]_vars => BegunInv'
<1> SUFFICES ASSUME IInv, BegunInv, [Next]_vars PROVE BegunInv'
  OBVIOUS
<1>1. CASE Connect /\ wait < Waits
  <2>1. begun' = now /\ wait' = wait + 1 /\ wait' - 1 = wait
    BY <1>1, RetryWaitAssumption DEF Connect, IInv, TypeOK
  <2>2. now <= LimitThrough[wait]
    BY EndsWithinSum DEF IInv
  <2> QED
    BY <2>1, <2>2 DEF BegunInv
<1>2. CASE UNCHANGED <<wait, begun>>
  BY <1>2 DEF BegunInv
<1>3. (Connect /\ wait < Waits) \/ UNCHANGED <<wait, begun>>
  BY DEF Next, vars, Tick, Change, Do, Connect, Refused, Retry, Cancel, Finished
<1> QED
  BY <1>1, <1>2, <1>3

(* The checks of a bootstrap may outlast DIB_BOOTSTRAP_TIMEOUT_SECONDS,    *)
(* which waitForTCP and waitFor give to each of them anew, but never the   *)
(* sum of the limits of the waits begun so far.                            *)
THEOREM ChecksEndInTime == Spec => []ChecksBounded
<1>1. Init => BegunInv
  <2> SUFFICES ASSUME Init PROVE BegunInv
    OBVIOUS
  <2>1. begun = 0 /\ wait - 1 = 0
    BY DEF Init
  <2> QED
    BY <2>1, LimitThroughSum DEF BegunInv
<1>2. IInv /\ BegunInv => ChecksBounded
  BY EndsWithinSum DEF IInv, ChecksBounded
<1> QED
  BY <1>1, <1>2, NextBegunInv, Invariance, PTL DEF Spec

(***************************************************************************)
(* The end of the waits. Remaining, a number, becomes smaller with every   *)
(* step but a change of the dependency.                                    *)
(***************************************************************************)
(* The time, and the three steps at most, that an attempt takes.           *)
Share == 2 * Second + 3

(* Fewer attempts have smaller shares, by a share at least.                *)
LEMMA FewerShares ==
  ASSUME NEW m \in Nat, NEW n \in Nat, m < n
  PROVE  m * Share + Share <= n * Share
<1>1. Share \in Nat
  BY RetryWaitAssumption DEF Share
<1>2. n * Share = m * Share + Share + (n - m - 1) * Share
  BY <1>1, SMT
<1>3. (n - m - 1) * Share >= 0
  BY <1>1, SMT
<1>4. m * Share \in Nat /\ n * Share \in Nat /\ (n - m - 1) * Share \in Int
  BY <1>1, SMT
<1> QED
  BY <1>1, <1>2, <1>3, <1>4, SMT

(* What is left of the attempts is a number.                               *)
LeftTypeOK == AttemptsLeft \in Nat /\ AttemptsLeft * Share \in Nat

LEMMA AttemptsLeftType == TypeOK => LeftTypeOK
<1> SUFFICES ASSUME TypeOK PROVE LeftTypeOK
  OBVIOUS
<1>1. Waits - wait \in Nat /\ Timeout \in Nat /\ Timeout - attempt \in Nat
  BY RetryWaitAssumption DEF TypeOK, Attempts
<1>2. (Waits - wait) * Timeout \in Nat
  BY <1>1, SMT
<1>3. AttemptsLeft \in Nat
  BY <1>1, <1>2 DEF AttemptsLeft
<1>4. Share \in Nat
  BY RetryWaitAssumption DEF Share
<1>5. AttemptsLeft * Share \in Nat
  BY <1>3, <1>4, SMT
<1> QED
  BY <1>3, <1>5 DEF LeftTypeOK

(* A dial and a delay take a share between them.                           *)
DialLeft ==
  phase = "dial" =>
    /\ Remaining = AttemptsLeft * Share + (since + Second - now) + Second + 2
    /\ Remaining >= AttemptsLeft * Share + Second + 2
    /\ Remaining <= AttemptsLeft * Share + 2 * Second + 2

DelayLeft ==
  phase = "delay" =>
    /\ Remaining = AttemptsLeft * Share + (since + Second - now) + 1
    /\ Remaining >= AttemptsLeft * Share + 1
    /\ Remaining <= AttemptsLeft * Share + Second + 1

EndedLeft == phase \notin {"dial", "delay"} => Remaining = 0

LEMMA RemainingParts == TypeOK /\ ClockInv => DialLeft /\ DelayLeft /\ EndedLeft
<1> SUFFICES ASSUME TypeOK, ClockInv PROVE DialLeft /\ DelayLeft /\ EndedLeft
  OBVIOUS
<1>1. CASE phase = "dial"
  BY <1>1, AttemptsLeftType, RetryWaitAssumption
  DEF Remaining, Share, TypeOK, ClockInv, LeftTypeOK, DialLeft, DelayLeft,
      EndedLeft
<1>2. CASE phase = "delay"
  BY <1>2, AttemptsLeftType, RetryWaitAssumption
  DEF Remaining, Share, TypeOK, ClockInv, LeftTypeOK, DialLeft, DelayLeft,
      EndedLeft
<1>3. CASE phase \notin {"dial", "delay"}
  BY <1>3 DEF Remaining, DialLeft, DelayLeft, EndedLeft
<1> QED
  BY <1>1, <1>2, <1>3

(* All of this, in the state before a step and in the one after.           *)
LeftInv ==
  /\ TypeOK
  /\ ClockInv
  /\ LeftTypeOK
  /\ DialLeft
  /\ DelayLeft
  /\ EndedLeft

LEMMA LeftInvHolds == IInv => LeftInv
  BY AttemptsLeftType, RemainingParts DEF IInv, LeftInv

(* A tick uses up time, an attempt that failed one of its steps; an        *)
(* attempt made, and a wait ended, a share.                                *)
LEMMA StepNearer ==
  ASSUME LeftInv, LeftInv', [Next]_vars
  PROVE  \/ Remaining' < Remaining
         \/ UNCHANGED <<now, wait, begun, attempt, phase, since>>
<1> USE RetryWaitAssumption
<1> DEFINE A == AttemptsLeft * Share
           B == AttemptsLeft' * Share
<1>1. A \in Nat /\ B \in Nat
  BY DEF LeftInv, LeftTypeOK, Share
<1>2. UNCHANGED <<wait, attempt>> => B = A
  BY DEF AttemptsLeft
<1>3. AttemptsLeft' < AttemptsLeft => B + Share <= A
  BY FewerShares DEF LeftInv, LeftTypeOK
<1>4. Share = 2 * Second + 3
  BY DEF Share
<1>5. /\ phase = "dial" =>
           /\ Remaining = A + (since + Second - now) + Second + 2
           /\ Remaining >= A + Second + 2
      /\ phase = "delay" =>
           /\ Remaining = A + (since + Second - now) + 1
           /\ Remaining >= A + 1
  BY DEF LeftInv, DialLeft, DelayLeft
<1>6. /\ phase' = "dial" =>
           /\ Remaining' = B + (since' + Second - now') + Second + 2
           /\ Remaining' <= B + 2 * Second + 2
      /\ phase' = "delay" =>
           /\ Remaining' = B + (since' + Second - now') + 1
           /\ Remaining' <= B + Second + 1
      /\ phase' \notin {"dial", "delay"} => Remaining' = 0
  BY DEF LeftInv, DialLeft, DelayLeft, EndedLeft, Share
<1> HIDE DEF A, B
<1>7. CASE Tick
  BY <1>1, <1>2, <1>5, <1>6, <1>7 DEF Tick, LeftInv, TypeOK
<1>8. CASE Connect /\ wait < Waits
  <2>1. AttemptsLeft' < AttemptsLeft
    <3>1. AttemptsLeft' = (Waits - (wait + 1)) * Timeout + (Timeout - 1)
      BY <1>8 DEF Connect, AttemptsLeft
    <3>2. /\ Waits - wait \in Nat
          /\ Waits - (wait + 1) \in Nat
          /\ Waits - wait = (Waits - (wait + 1)) + 1
          /\ Timeout \in Nat
          /\ Timeout - attempt \in Nat
      BY <1>8 DEF LeftInv, TypeOK, Attempts
    <3>3. (Waits - wait) * Timeout = (Waits - (wait + 1)) * Timeout + Timeout
      BY <3>2, SMT
    <3>4. (Waits - (wait + 1)) * Timeout \in Nat
      BY <3>2, SMT
    <3> QED
      BY <3>1, <3>2, <3>3, <3>4 DEF AttemptsLeft
  <2>2. B + Share <= A
    BY <1>3, <2>1
  <2>3. phase = "dial" /\ phase' = "dial"
    BY <1>8 DEF Connect
  <2>4. Remaining' <= B + 2 * Second + 2 /\ Remaining >= A + Second + 2
    BY <1>5, <1>6, <2>3
  <2>5. Remaining \in Int /\ Remaining' \in Int
    BY <1>1, <1>5, <1>6, <2>3 DEF LeftInv, TypeOK
  <2> QED
    BY <1>1, <1>4, <2>2, <2>4, <2>5
<1>9. CASE Connect /\ ~(wait < Waits)
  BY <1>1, <1>5, <1>6, <1>9 DEF Connect, LeftInv, TypeOK
<1>10. CASE Refused
  BY <1>1, <1>2, <1>5, <1>6, <1>10
  DEF Refused, LeftInv, TypeOK, ClockInv
<1>11. CASE Retry
  <2>1. AttemptsLeft' = AttemptsLeft - 1 /\ AttemptsLeft \in Int
    <3>1. (Waits - wait) * Timeout \in Int
      BY DEF LeftInv, TypeOK
    <3> QED
      BY <1>11, <3>1 DEF Retry, AttemptsLeft, LeftInv, TypeOK, Attempts
  <2>2. B + Share <= A
    BY <1>3, <2>1
  <2>3. phase = "delay" /\ phase' = "dial"
    BY <1>11 DEF Retry
  <2>4. Remaining' <= B + 2 * Second + 2 /\ Remaining >= A + 1
    BY <1>5, <1>6, <2>3
  <2>5. Remaining \in Int /\ Remaining' \in Int
    BY <1>1, <1>5, <1>6, <2>3 DEF LeftInv, TypeOK
  <2> QED
    BY <1>1, <1>4, <2>2, <2>4, <2>5
<1>12. CASE Cancel
  BY <1>1, <1>5, <1>6, <1>12 DEF Cancel, LeftInv, TypeOK
<1>13. CASE Change \/ Finished \/ UNCHANGED vars
  BY <1>13 DEF Change, Finished, vars
<1> QED
  BY <1>7, <1>8, <1>9, <1>10, <1>11, <1>12, <1>13 DEF Next, Do

(* Every tick and every step of the program brings the end of its waits    *)
(* nearer: retry.Do ends, also under waitFor, which has no deadline, and   *)
(* while dependencies come and go.                                         *)
THEOREM EndsAfterAll == Spec => BringsEndNearer
<1>1. IInv /\ IInv' /\ [Next]_vars =>
        [Remaining' < Remaining
           \/ UNCHANGED <<now, wait, begun, attempt, phase, since>>]_vars
  <2>1. IInv /\ IInv' => LeftInv /\ LeftInv'
    BY LeftInvHolds, PTL
  <2> QED
    BY <2>1, StepNearer
<1> QED
  BY <1>1, Invariance, PTL DEF Spec, BringsEndNearer

=============================================================================
