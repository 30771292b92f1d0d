-------------------------- MODULE Healthcheck_proofs --------------------------
(***************************************************************************)
(* For every pair of integers Rise and Fall: the counter of the loop stays *)
(* within its threshold, and the loop implements Hysteresis.               *)
(***************************************************************************)
EXTENDS Healthcheck, TLAPS

Inv == TypeOK /\ DecidedDisabled

LEMMA InitInv == Init => Inv
<1> SUFFICES ASSUME Init PROVE Inv
  OBVIOUS
<1>1. TypeOK
  <2>1. disabled \in BOOLEAN /\ successful \in BOOLEAN
    BY Zenon DEF Init
  <2>2. state \in States /\ phase \in Phases /\ announced \in Verdicts \cup {"NONE"}
    BY DEF Init, States, Phases, Verdicts
  <2>3. state # "RISING" /\ state # "FALLING" /\ checks \in Int
    BY DEF Init
  <2> QED BY <2>1, <2>2, <2>3 DEF Init, TypeOK
<1>2. DecidedDisabled BY DEF Init, DecidedDisabled
<1> QED BY <1>1, <1>2 DEF Inv

\* A decision leaves a counter in RISING only below Rise, in FALLING only
\* below Fall, and follows the answer on the disable file.
LEMMA DecideTyped ==
  ASSUME TypeOK, Decide
  PROVE  TypeOK' /\ phase' \in {"execute", "announce"} /\ (disabled' <=> state' = "DISABLED")
<1> USE ThresholdAssumption DEF TypeOK, Decide, Disabling, Move, Stay, Trigger, States, Phases, Verdicts, envVars
<1>1. CASE FromAny      BY <1>1 DEF FromAny
<1>2. CASE FromInit     BY <1>2 DEF FromInit
<1>3. CASE FromDisabled BY <1>3 DEF FromDisabled
<1>4. CASE FromRising   BY <1>4 DEF FromRising
<1>5. CASE FromFalling  BY <1>5 DEF FromFalling
<1>6. CASE FromUp       BY <1>6 DEF FromUp
<1>7. CASE FromDown     BY <1>7 DEF FromDown
<1> QED BY <1>1, <1>2, <1>3, <1>4, <1>5, <1>6, <1>7

LEMMA NextInv == Inv /\ [Next]_vars => Inv'
<1> SUFFICES ASSUME Inv, [Next]_vars PROVE Inv'
  OBVIOUS
<1>1. CASE Look
  BY <1>1 DEF Look, PhaseStep, Inv, TypeOK, DecidedDisabled, Phases, Verdicts, envVars
<1>2. CASE Check
  BY <1>2 DEF Check, PhaseStep, Outcomes, Inv, TypeOK, DecidedDisabled, Phases, Verdicts, envVars
<1>3. CASE Decide
  BY <1>3, DecideTyped DEF Inv, DecidedDisabled
<1>4. CASE Execute
  BY <1>4 DEF Execute, PhaseStep, Inv, TypeOK, DecidedDisabled, Phases, Verdicts, envVars
<1>5. CASE Announce
  BY <1>5 DEF Announce, PhaseStep, Inv, TypeOK, DecidedDisabled, Phases, Verdicts, envVars
<1>6. CASE ToggleFile
  BY <1>6 DEF ToggleFile, progVars, Inv, TypeOK, DecidedDisabled
<1>7. CASE ToggleHealth
  BY <1>7 DEF ToggleHealth, progVars, Inv, TypeOK, DecidedDisabled
<1>8. CASE UNCHANGED vars
  BY <1>8 DEF vars, progVars, envVars, Inv, TypeOK, DecidedDisabled
<1> QED BY <1>1, <1>2, <1>3, <1>4, <1>5, <1>6, <1>7, <1>8 DEF Next, Loop

THEOREM Invariance == Spec => []Inv
  BY InitInv, NextInv, PTL DEF Spec

\* Type correctness, with the bounds of the counter: the loop never counts
\* past a threshold, and is in RISING or FALLING only if there is one.
THEOREM CounterBounded == Spec => []TypeOK
  BY Invariance, PTL DEF Inv

\* The turn that saw the disable file ends announced as disabled, and no other
\* begins to: of DisableFileWins for all thresholds and all moves of the file.
THEOREM FileAlwaysWins == Spec => DisableFileWins
<1> DEFINE Wins ==
      phase = "announce" /\ phase' = "look" =>
        IF disabled THEN announced' = "DISABLED"
        ELSE announced' = "DISABLED" => announced = "DISABLED"
<1>1. Inv /\ [Next]_vars => [Wins]_vars
  <2> SUFFICES ASSUME Inv, [Next]_vars, phase = "announce", phase' = "look" PROVE Wins
    OBVIOUS
  <2>1. Announce
    BY DEF Next, Loop, Look, Check, Decide, Execute, PhaseStep, ToggleFile, ToggleHealth,
           progVars, vars
  <2>2. disabled <=> state = "DISABLED"
    BY DEF Inv, DecidedDisabled
  <2> QED BY <2>1, <2>2 DEF Announce, Verdicts
<1> QED BY <1>1, Invariance, PTL DEF Spec, DisableFileWins

-----------------------------------------------------------------------------
LEMMA InitHysteresis == Init => Hyst!Init
  BY DEF Init, Hyst!Init, Seen, Successes, Failures

\* A decision counts the result of the turn, as what it is.
LEMMA DecideHysteresis ==
  ASSUME Inv, Decide
  PROVE  Hyst!Succeed \/ Hyst!Fail \/ Hyst!Disable \/ Hyst!Resume
<1>1. /\ Seen = (IF disabled THEN "disabled" ELSE IF successful THEN "success" ELSE "failure")
      /\ Seen' = "counted"
      /\ UNCHANGED announced
  BY DecideTyped DEF Inv, Decide, Seen
<1> USE <1>1, ThresholdAssumption
    DEF Inv, TypeOK, Decide, Disabling, Move, Stay, Trigger, States, Verdicts, Successes,
        Failures, Hyst!Counted, Hyst!Capped, Hyst!Need
<1>2. CASE FromAny      BY <1>2 DEF FromAny, Hyst!Disable
<1>3. CASE FromInit     BY <1>3 DEF FromInit, Hyst!Succeed, Hyst!Fail
<1>4. CASE FromDisabled BY <1>4 DEF FromDisabled, Hyst!Disable, Hyst!Resume
<1>5. CASE FromRising   BY <1>5 DEF FromRising, Hyst!Succeed, Hyst!Fail
<1>6. CASE FromFalling  BY <1>6 DEF FromFalling, Hyst!Succeed, Hyst!Fail
<1>7. CASE FromUp       BY <1>7 DEF FromUp, Hyst!Succeed, Hyst!Fail
<1>8. CASE FromDown     BY <1>8 DEF FromDown, Hyst!Succeed, Hyst!Fail
<1> QED BY <1>2, <1>3, <1>4, <1>5, <1>6, <1>7, <1>8

\* The check is what the turn sees.
LEMMA CheckHysteresis ==
  ASSUME Inv, Check PROVE Hyst!See
  BY DEF Inv, TypeOK, Check, PhaseStep, Seen, Successes, Failures, Hyst!See, Hyst!Results

\* What is announced is what the counts amount to.
LEMMA AnnounceHysteresis ==
  ASSUME Inv, Announce PROVE Hyst!Announce
<1> USE ThresholdAssumption
    DEF Inv, TypeOK, States, Verdicts, Announce, PhaseStep, Seen, Successes, Failures,
        Hyst!Announce, Hyst!Verdict, Hyst!Need
<1>1. Seen = "counted" /\ Seen' = "nothing"
  OBVIOUS
<1>2. UNCHANGED <<Successes, Failures, state>>
  OBVIOUS
<1>3. announced' = Hyst!Verdict
  <2>1. CASE state \in {"UP", "DOWN", "DISABLED"}
    BY <2>1
  <2>2. CASE state \in {"INIT", "RISING", "FALLING"}
    BY <2>2
  <2> QED BY <2>1, <2>2
<1> QED BY <1>1, <1>2, <1>3

\* The other steps of a turn, and those of the environment, change nothing of it.
LEMMA OthersStutter ==
  ASSUME Look \/ Execute \/ ToggleFile \/ ToggleHealth \/ UNCHANGED vars
  PROVE  UNCHANGED Hyst!vars
  BY DEF Look, Execute, PhaseStep, ToggleFile, ToggleHealth, vars, progVars, envVars,
         Hyst!vars, Seen, Successes, Failures

LEMMA NextHysteresis == Inv /\ [Next]_vars => [Hyst!Next]_Hyst!vars
  BY DecideHysteresis, CheckHysteresis, AnnounceHysteresis, OthersStutter DEF Next, Loop, Hyst!Next

\* The loop implements Hysteresis, for all thresholds: every result is counted as
\* what it is, and a change is announced after exactly as many in a row as the
\* thresholds ask for.
THEOREM HealthcheckImplementsHysteresis == Spec => ImplementsHysteresis
  BY InitHysteresis, NextHysteresis, Invariance, PTL DEF Spec, ImplementsHysteresis, Hyst!Spec
=============================================================================
