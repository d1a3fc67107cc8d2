----------------------------- MODULE LimitsProofs -----------------------------
(***************************************************************************)
(* For every number of rules and every dwell: a rule fires once per         *)
(* crossing.  The invariant ties the history of releases to the latch,      *)
(* which survives everything but a false comparison and a new file, and a   *)
(* sweep in progress to rules_lock, so that no file replaces the rules      *)
(* under a sweep.                                                           *)
(***************************************************************************)
EXTENDS Limits, SequenceTheorems, TLAPS

Rule == [streak : Nat, latched : BOOLEAN]
Count == Len(Dwell)

LimitsInv ==
  /\ rules = <<>> \/ rules \in [1..Count -> Rule]
  /\ fired \in [1..Count -> 0..1]
  /\ \A i \in DOMAIN rules : fired[i] = 1 => rules[i].latched
  /\ sweep \in [Sweepers -> 0..Count]
  /\ \A s \in Sweepers : sweep[s] # 0 => rules_lock = s /\ rules # <<>>

(* What a file with rules has: a dwell in 1..StreakMax for each.            *)
LEMMA DwellFacts ==
  ASSUME LimitsAssumption
  PROVE  Count \in Nat /\ Count > 0 /\ DOMAIN Dwell = 1..Count
BY LenProperties, EmptySeq DEF LimitsAssumption, Count

(* Rules in force are as many as the file has.                              *)
LEMMA RulesCount ==
  ASSUME LimitsAssumption, rules \in [1..Count -> Rule]
  PROVE  Len(rules) = Count
BY DwellFacts

(* One evaluation re-arms a rule, counts, or latches what it released.      *)
LEMMA EvaluateKeeps ==
  ASSUME LimitsAssumption, LimitsInv, NEW s \in Sweepers, NEW readable \in BOOLEAN,
         NEW answer \in Answers, Evaluate(s, readable, answer)
  PROVE  LimitsInv'
<1> DEFINE i == sweep[s]
<1>1. /\ i \in 1..Count /\ rules \in [1..Count -> Rule] /\ Count \in Nat
      /\ rules_lock = s /\ Len(rules) = Count
  BY DwellFacts, RulesCount DEF Evaluate, LimitsInv
<1>2. answer \in {"0", "-EEXIST", "-ENOSPC"}
  BY DEF Answers
<1>3. rules[i] \in Rule /\ rules[i].streak \in Nat /\ rules[i].latched \in BOOLEAN
  BY <1>1 DEF Rule
<1>4. Streak(rules[i]) \in Rule /\ Streak(rules[i]).latched = rules[i].latched
  BY <1>3 DEF Streak, Rule
<1>5. Evaluated(i, answer) \in Rule
  <2>1. Fresh \in Rule
    BY DEF Fresh, Rule
  <2>2. Released(answer) \in BOOLEAN
    BY DEF Released
  <2>3. QED
    BY <1>4, <2>1, <2>2 DEF Evaluated, Rule
<1>6. rules' \in [1..Count -> Rule]
  BY <1>1, <1>5 DEF Evaluate
<1>7. fired' \in [1..Count -> 0..1] /\ \A j \in 1..Count : fired'[j] = 1 => rules'[j].latched
  <2>1. \A j \in 1..Count : j # i => fired'[j] = fired[j] /\ rules'[j] = rules[j]
    BY <1>1 DEF Evaluate, LimitsInv
  <2>2. fired'[i] \in 0..1 /\ (fired'[i] = 1 => rules'[i].latched)
    <3>1. fired[i] \in 0..1 /\ (fired[i] = 1 => rules[i].latched)
      BY <1>1 DEF LimitsInv
    <3>2. CASE ~readable
      BY <1>1, <3>1, <3>2 DEF Evaluate, LimitsInv
    <3>3. CASE readable /\ ~crossed
      BY <1>1, <3>3 DEF Evaluate, LimitsInv
    <3>4. CASE readable /\ crossed /\ Fires(i)
      <4>1. fired[i] = 0
        BY <3>1, <3>4 DEF Fires
      <4>2. rules'[i].latched = Released(answer)
        <5>1. rules'[i] = Evaluated(i, answer)
          BY <1>1, <3>4 DEF Evaluate
        <5>2. Evaluated(i, answer) = [Streak(rules[i]) EXCEPT !.latched = Released(answer)]
          BY <3>4 DEF Evaluated
        <5>3. QED
          BY <1>4, <5>1, <5>2 DEF Rule
      <4>3. fired'[i] = IF answer # "-ENOSPC" THEN 1 ELSE 0
        BY <1>1, <3>4, <4>1 DEF Evaluate, LimitsInv
      <4>4. answer # "-ENOSPC" => rules'[i].latched
        <5>1. answer # "-ENOSPC" => Released(answer)
          BY <1>2 DEF Released
        <5>2. QED
          BY <4>2, <5>1, Zenon
      <4>5. QED
        BY <4>3, <4>4
    <3>5. CASE readable /\ crossed /\ ~Fires(i)
      <4>1. rules'[i].latched = rules[i].latched
        BY <1>1, <1>4, <3>5 DEF Evaluate, Evaluated, Rule
      <4>2. fired'[i] = fired[i]
        BY <1>1, <3>5 DEF Evaluate, LimitsInv
      <4>3. QED
        BY <3>1, <4>1, <4>2
    <3>6. QED
      BY <3>2, <3>3, <3>4, <3>5
  <2>3. fired' \in [1..Count -> 0..1]
    BY <1>1, <2>1, <2>2 DEF Evaluate, LimitsInv
  <2>4. QED
    BY <1>1, <2>1, <2>2, <2>3 DEF LimitsInv
<1>8. /\ sweep' \in [Sweepers -> 0..Count]
      /\ \A q \in Sweepers : sweep'[q] # 0 => rules_lock' = q
  BY <1>1 DEF Evaluate, Continue, LimitsInv
<1>9. rules' # <<>>
  BY <1>1, <1>6
<1>10. QED
  BY <1>1, <1>6, <1>7, <1>8, <1>9 DEF LimitsInv

(* A disabled sweep clears streaks and keeps latches; an enabled one takes  *)
(* the lock.                                                                *)
LEMMA BeginKeeps ==
  ASSUME LimitsAssumption, LimitsInv, NEW s \in Sweepers, Begin(s)
  PROVE  LimitsInv'
<1>1. Count \in Nat /\ Count > 0
  BY DwellFacts
<1>2. CASE enabled /\ rules # <<>>
  <2>1. /\ rules_lock = "none" /\ rules_lock' = s /\ UNCHANGED <<rules, fired>>
        /\ sweep' = [sweep EXCEPT ![s] = 1]
    BY <1>2 DEF Begin
  <2>2. \A q \in Sweepers : sweep[q] = 0
    BY <2>1 DEF LimitsInv, Sweepers
  <2>3. sweep' \in [Sweepers -> 0..Count] /\ \A q \in Sweepers : q # s => sweep'[q] = 0
    BY <1>1, <2>1, <2>2 DEF LimitsInv
  <2>4. QED
    BY <1>2, <2>1, <2>3 DEF LimitsInv
<1>3. CASE enabled /\ rules = <<>>
  BY <1>3 DEF Begin, LimitsInv
<1>4. CASE ~enabled
  <2>1. rules' = [i \in DOMAIN rules |-> Broken(rules[i])] /\ UNCHANGED <<fired, sweep, rules_lock>>
    BY <1>4 DEF Begin
  <2>2. CASE rules = <<>>
    <3>1. rules' = <<>>
      BY <2>1, <2>2
    <3>2. QED
      BY <2>1, <2>2, <3>1 DEF LimitsInv
  <2>3. CASE rules \in [1..Count -> Rule]
    <3>1. \A i \in 1..Count : Broken(rules[i]) \in Rule /\ Broken(rules[i]).latched = rules[i].latched
      BY <2>3 DEF Broken, Rule
    <3>2. rules' \in [1..Count -> Rule] /\ \A i \in 1..Count : rules'[i].latched = rules[i].latched
      BY <2>1, <2>3, <3>1
    <3>3. rules' # <<>>
      BY <1>1, <3>2
    <3>4. QED
      BY <2>1, <2>3, <3>2, <3>3 DEF LimitsInv
  <2>4. QED
    BY <2>2, <2>3 DEF LimitsInv
<1>5. QED
  BY <1>2, <1>3, <1>4

(* Every step of a sweeper, a loader, a setter and the parameter.           *)
LEMMA LimitsInvKept == LimitsAssumption /\ LimitsInv /\ [Next]_vars => LimitsInv'
<1> SUFFICES ASSUME LimitsAssumption, LimitsInv, [Next]_vars PROVE LimitsInv'
  OBVIOUS
<1>1. ASSUME NEW good \in BOOLEAN, Load(good) PROVE LimitsInv'
  <2>1. CASE good
    <3>1. /\ rules' = [i \in 1..Count |-> Fresh] /\ fired' = [i \in 1..Count |-> 0]
          /\ rules_lock = "none" /\ UNCHANGED <<sweep, rules_lock>>
      BY <1>1, <2>1, DwellFacts DEF Load
    <3>2. Fresh \in Rule
      BY DEF Fresh, Rule
    <3>3. \A s \in Sweepers : sweep[s] = 0
      BY <3>1 DEF LimitsInv, Sweepers
    <3>4. QED
      BY <3>1, <3>2, <3>3 DEF LimitsInv
  <2>2. CASE ~good
    BY <1>1, <2>2 DEF Load, LimitsInv
  <2>3. QED
    BY <2>1, <2>2
<1>2. ASSUME NEW s \in Sweepers, Sweeping(s) PROVE LimitsInv'
  BY <1>2, BeginKeeps, EvaluateKeeps DEF Sweeping
<1>3. CASE Handler
  BY <1>3 DEF Handler, HandlerReads, HandlerReschedules, Expires, queue, LimitsInv
<1>4. ASSUME NEW value \in 0..1, SetInterval(value) PROVE LimitsInv'
  BY <1>4 DEF SetInterval, queue, LimitsInv
<1>5. CASE Setter
  BY <1>5 DEF Setter, SetRunning, SetWork, queue, LimitsInv
<1>6. CASE Change
  BY <1>6 DEF Change, LimitsInv
<1>7. CASE UNCHANGED vars
  BY <1>7 DEF vars, LimitsInv
<1>8. QED
  BY <1>1, <1>2, <1>3, <1>4, <1>5, <1>6, <1>7 DEF Next

(* A rule fires once per crossing, whatever the number of rules and their   *)
(* dwells, with two sweepers, failed readings and refused releases          *)
(* (limits.c, evaluate and release).                                        *)
THEOREM OncePerCrossingAlways ==
  ASSUME LimitsAssumption
  PROVE  Spec => []OncePerCrossing
<1>1. Init => LimitsInv
  BY DwellFacts DEF Init, LimitsInv, Sweepers
<1>2. LimitsInv /\ [Next]_vars => LimitsInv'
  BY LimitsInvKept
<1>3. LimitsInv => OncePerCrossing
  BY DwellFacts DEF LimitsInv, OncePerCrossing
<1>4. QED
  BY <1>1, <1>2, <1>3, PTL DEF Spec
=============================================================================
