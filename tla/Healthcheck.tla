----------------------------- MODULE Healthcheck -----------------------------
(***************************************************************************)
(* The main loop of lab-exabgp/healthcheck.py, a process of ExaBGP: look   *)
(* at the disable file, run the check command, advance a state machine,    *)
(* run the hooks of a transition, announce, sleep.  The file and the       *)
(* service change at any time, in the middle of a turn too.                *)
(***************************************************************************)
EXTENDS Integers

CONSTANTS
  Rise,  \* --rise
  Fall   \* --fall: both are any integers the command line accepts

ASSUME ThresholdAssumption == Rise \in Int /\ Fall \in Int

VARIABLES
  state,       \* the state of the loop
  checks,      \* how many checks agreed since it was entered
  phase,       \* where the turn of the loop is
  disabled,    \* the disable file existed when the turn started
  successful,  \* outcome of the check
  announced,   \* the last state told to ExaBGP
  file,        \* the disable file exists
  healthy      \* the check command may succeed

progVars == <<state, checks, phase, disabled, successful, announced>>
envVars  == <<file, healthy>>
vars == <<progVars, envVars>>

Verdicts == {"UP", "DOWN", "DISABLED"}
States   == {"INIT", "RISING", "FALLING"} \cup Verdicts
Phases   == {"look", "check", "decide", "execute", "announce"}

\* The counter counts the checks of RISING and FALLING and stays within what
\* their thresholds leave to count.
TypeOK ==
  /\ state \in States
  /\ checks \in Int
  /\ state = "RISING" => 1 <= checks /\ checks < Rise
  /\ state = "FALLING" => 1 <= checks /\ checks < Fall
  /\ phase \in Phases
  /\ disabled \in BOOLEAN /\ successful \in BOOLEAN
  /\ announced \in Verdicts \cup {"NONE"}
  /\ file \in BOOLEAN /\ healthy \in BOOLEAN

Init ==
  /\ state = "INIT"
  /\ checks = 0
  /\ phase = "look"
  /\ disabled = FALSE /\ successful = FALSE
  /\ announced = "NONE"
  /\ file \in BOOLEAN /\ healthy \in BOOLEAN

-----------------------------------------------------------------------------
PhaseStep(from, to) == phase = from /\ phase' = to

\* os.path.exists(options.disable)
Look ==
  /\ PhaseStep("look", "check")
  /\ disabled' = file
  /\ UNCHANGED <<state, checks, successful, announced, envVars>>

\* check(): a healthy service may still fail the check, by the timeout of
\* the alarm, and the other never passes it.  It is not run when disabled.
Outcomes ==
  IF disabled THEN {TRUE} ELSE IF healthy THEN BOOLEAN ELSE {FALSE}

Check ==
  /\ PhaseStep("check", "decide")
  /\ successful' \in Outcomes
  /\ UNCHANGED <<state, checks, disabled, announced, envVars>>

\* trigger(): a threshold of one or less is met at once.
Trigger(target) ==
  IF target = "RISING" /\ Rise <= 1 THEN "UP"
  ELSE IF target = "FALLING" /\ Fall <= 1 THEN "DOWN"
  ELSE target

\* The transition of this turn, and the counter after it.
Move(target, n) ==
  /\ state' = Trigger(target)
  /\ checks' = n
  /\ phase' = "execute"

Stay(n) ==
  /\ checks' = n
  /\ phase' = "announce"
  /\ UNCHANGED state

\* Mutant of Disabling: only a settled service can be disabled, the others go
\* on to the branch of their state.
DisablingSettled == state \in {"INIT", "UP", "DOWN"} /\ disabled

\* The first branch of the chain.
Disabling == state # "DISABLED" /\ disabled

FromAny == Disabling /\ Move("DISABLED", checks)

FromInit ==
  /\ state = "INIT" /\ ~Disabling
  /\ IF successful /\ Rise <= 1 THEN Move("UP", checks)
     ELSE IF successful THEN Move("RISING", 1)
     ELSE Move("FALLING", 1)

FromDisabled ==
  /\ state = "DISABLED"
  /\ IF disabled THEN Stay(checks) ELSE Move("INIT", checks)

\* Mutant of FromRising: a failure between two successes is forgiven.
FromRisingForgiving ==
  /\ state = "RISING" /\ ~Disabling
  /\ IF ~successful THEN Stay(checks)
     ELSE IF checks + 1 >= Rise THEN Move("UP", checks + 1)
     ELSE Stay(checks + 1)

FromRising ==
  /\ state = "RISING" /\ ~Disabling
  /\ IF ~successful THEN Move("FALLING", 1)
     ELSE IF checks + 1 >= Rise THEN Move("UP", checks + 1)
     ELSE Stay(checks + 1)

\* Mutant of FromFalling: a failure is not counted.
FromFallingUncounted ==
  /\ state = "FALLING" /\ ~Disabling
  /\ IF successful THEN Move("RISING", 1)
     ELSE IF checks >= Fall THEN Move("DOWN", checks)
     ELSE Stay(checks)

FromFalling ==
  /\ state = "FALLING" /\ ~Disabling
  /\ IF successful THEN Move("RISING", 1)
     ELSE IF checks + 1 >= Fall THEN Move("DOWN", checks + 1)
     ELSE Stay(checks + 1)

\* Mutant of FromUp: the counter keeps the checks of the way up.
FromUpUncleared ==
  /\ state = "UP" /\ ~Disabling
  /\ IF successful THEN Stay(checks) ELSE Move("FALLING", checks)

FromUp ==
  /\ state = "UP" /\ ~Disabling
  /\ IF successful THEN Stay(checks) ELSE Move("FALLING", 1)

FromDown ==
  /\ state = "DOWN" /\ ~Disabling
  /\ IF successful THEN Move("RISING", 1) ELSE Stay(checks)

Decide ==
  /\ phase = "decide"
  /\ \/ FromAny \/ FromInit \/ FromDisabled \/ FromRising
     \/ FromFalling \/ FromUp \/ FromDown
  /\ UNCHANGED <<disabled, successful, announced, envVars>>

\* The hooks of trigger() return.  They have no timeout.
Execute ==
  /\ PhaseStep("execute", "announce")
  /\ UNCHANGED <<state, checks, disabled, successful, announced, envVars>>

\* exabgp(): only UP, DOWN and DISABLED are announced, in every turn.  Then
\* the process sleeps.
Announce ==
  /\ PhaseStep("announce", "look")
  /\ announced' = IF state \in Verdicts THEN state ELSE announced
  /\ UNCHANGED <<state, checks, disabled, successful, envVars>>

Loop == Look \/ Check \/ Decide \/ Execute \/ Announce

\* The administrator and the service.
ToggleFile ==
  /\ file' = ~file
  /\ UNCHANGED <<progVars, healthy>>

ToggleHealth ==
  /\ healthy' = ~healthy
  /\ UNCHANGED <<progVars, file>>

Next == Loop \/ ToggleFile \/ ToggleHealth

Spec == Init /\ [][Next]_vars

\* The loop never ends: check commands have a timeout, and the hooks are
\* taken to return.
FairSpec == Spec /\ WF_vars(Loop)

-----------------------------------------------------------------------------
(* Properties *)

\* What a turn decided follows the answer that it had on the file: it is
\* disabled if and only if the file was there.
DecidedDisabled == phase \in {"execute", "announce"} => (disabled <=> state = "DISABLED")

\* The results in a row that the state and its counter stand for.
Successes ==
  IF state = "RISING" THEN checks
  ELSE IF state # "UP" THEN 0
  ELSE IF Rise <= 1 THEN 1 ELSE Rise

Failures ==
  IF state = "FALLING" THEN checks
  ELSE IF state # "DOWN" THEN 0
  ELSE IF Fall <= 1 THEN 1 ELSE Fall

\* The result of the check, until it is decided on.
Seen ==
  IF phase \in {"look", "check"} THEN "nothing"
  ELSE IF phase # "decide" THEN "counted"
  ELSE IF disabled THEN "disabled"
  ELSE IF successful THEN "success" ELSE "failure"

Hyst == INSTANCE Hysteresis WITH
  seen   <- Seen,
  ok     <- Successes,
  ko     <- Failures,
  paused <- state = "DISABLED",
  ann    <- announced

\* The state machine implements two counters with a threshold each.  It counts
\* the result of every check, as the success or failure that it was, and what is
\* announced changes only when a threshold is met: no order of results and of
\* visits to the disable file, whatever the thresholds, makes a service flap
\* faster, skip a result or keep a count from before.
ImplementsHysteresis == Hyst!Spec

\* A service that is dead for good, and not disabled, ends announced as down.
DeadServiceGetsDown ==
  <>[](~healthy /\ ~file) => <>[](announced = "DOWN")

\* The file wins over any state of the checks, within the turn that sees it: this
\* turn ends announced as disabled, and no other turn begins to announce that,
\* even if the file has come or gone since.
DisableFileWins ==
  [][phase = "announce" /\ phase' = "look" =>
       IF disabled THEN announced' = "DISABLED"
       ELSE announced' = "DISABLED" => announced = "DISABLED"]_vars

\* healthcheck.py:353, "We announce them on a regular basis in case we lose
\* connection with a peer".
RegularAnnounces == []<>(phase = "announce" /\ state \in Verdicts)
=============================================================================
