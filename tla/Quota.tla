------------------------------- MODULE Quota -------------------------------
(***************************************************************************)
(* A run whose model is refused for quota: Kernel.surviveQuota, the        *)
(* classification of a refusal (kernel/quota.ts) and the memory of refused *)
(* models all runs share (kernel/model-availability.ts).  The supervisor   *)
(* is called once per attempt and is awaited; between an answer and the    *)
(* next attempt nothing else runs.                                         *)
(*                                                                         *)
(* Abstracted: the learner's ranking, which changes from run to run, to a  *)
(* choice among the models that are left; prompts and usage; what a stop   *)
(* does inside an attempt (Kernel).                                        *)
(***************************************************************************)
EXTENDS Naturals, FiniteSets

CONSTANTS Models, Flights,
          SwitchLimit,    \* MAX_QUOTA_SWITCHES
          Hold,           \* defaultHoldMs
          MaxTime         \* bound: the clock

ASSUME QuotaAssumption == SwitchLimit \in Nat /\ Hold \in Nat /\ MaxTime \in Nat

VARIABLES
    clock,
    refused,    \* kv quota.blockedModels: until when each model is held
    flight,     \* each run
    told        \* for the property: the latest reset any run was told of

quotaVars == <<clock, refused, flight, told>>

Grounded == [at |-> "idle", model |-> CHOOSE m \in Models : TRUE, switches |-> 0,
             stopped |-> FALSE]

\* ModelAvailability.blocked: an entry expires by itself.
BlockedModels(held) == {m \in Models : held[m] > clock}

HeldUntil_TheLast(held, until) == until

\* block: an existing hold is never shortened, an expired one is dropped.
HeldUntil(held, until) == IF held > clock /\ held > until THEN held ELSE until

-----------------------------------------------------------------------------
QuotaInit ==
    /\ clock = 0
    /\ refused = [m \in Models |-> 0]
    /\ flight = [f \in Flights |-> Grounded]
    /\ told = [m \in Models |-> 0]

\* choosePolicy: a pin, the workspace's model or the learner's, held or not.
Depart(f, m) ==
    /\ flight[f].at = "idle"
    /\ flight' = [flight EXCEPT ![f].at = "attempt", ![f].model = m]
    /\ UNCHANGED <<clock, refused, told>>

StopFlight(f) ==
    /\ flight[f].at = "attempt"
    /\ flight' = [flight EXCEPT ![f].stopped = TRUE]
    /\ UNCHANGED <<clock, refused, told>>

Lands(f) == flight' = [flight EXCEPT ![f].at = "over"]

\* The attempt ends otherwise than by a refusal.
Served(f) ==
    /\ flight[f].at = "attempt"
    /\ Lands(f)
    /\ UNCHANGED <<clock, refused, told>>

\* What the run may not try instead.
Unavailable(f, held) == BlockedModels(held) \cup {flight[f].model}

\* The attempt ends unsuccessfully and a window was rejected meanwhile, of
\* its own model or of all of them.  The refusal of the last attempt is not
\* looked at.
Refusal(f, scope, until) ==
    /\ flight[f].at = "attempt"
    /\ LET m == flight[f].model
           held == [refused EXCEPT ![m] = HeldUntil(@, until)]
           left == Models \ Unavailable(f, held)
       IN  IF flight[f].switches = SwitchLimit
             THEN Lands(f) /\ UNCHANGED <<refused, told>>
             ELSE /\ refused' = held
                  /\ told' = [told EXCEPT ![m] = IF @ > until THEN @ ELSE until]
                  /\ IF scope = "global" \/ left = {}
                       THEN Lands(f)
                       ELSE \E next \in left :
                              flight' = [flight EXCEPT ![f].model = next, ![f].switches = @ + 1]
    /\ UNCHANGED clock

Pass ==
    /\ clock < MaxTime
    /\ clock' = clock + 1
    /\ UNCHANGED <<refused, flight, told>>

\* A reset time may be past, or unsaid.
QuotaNext ==
    \/ \E f \in Flights, m \in Models : Depart(f, m)
    \/ \E f \in Flights : StopFlight(f) \/ Served(f)
    \/ \E f \in Flights, scope \in {"model", "global"}, until \in {clock, clock + Hold, clock + Hold + 1} :
         Refusal(f, scope, until)
    \/ Pass

QuotaSpec == QuotaInit /\ [][QuotaNext]_quotaVars

-----------------------------------------------------------------------------
(* Properties *)

\* availability.block and chooseReplacement: a refused run is never switched
\* to the model that just refused it, nor to one that any run was told is
\* spent until later, whatever other runs were told in between.
SwitchesToAFreeModel ==
    [][\A f \in Flights : flight'[f].switches > flight[f].switches =>
         /\ flight'[f].model # flight[f].model
         /\ told[flight'[f].model] <= clock]_quotaVars

-----------------------------------------------------------------------------
(* What the comments promise and the code does not keep *)

\* model-availability.ts, "without this, every run until the window resets
\* pays the same discovery again": a run does not ask for a held model.
NoRediscovery ==
    [][\A f \in Flights : flight[f].at = "idle" /\ flight'[f].at = "attempt" =>
         refused[flight'[f].model] <= clock]_quotaVars

\* supervisor.ts, "only a failure can be a quota refusal": a run the operator
\* stopped is not started again on another model.
StoppedIsNotSwitched ==
    [][\A f \in Flights : flight'[f].switches > flight[f].switches => ~flight[f].stopped]_quotaVars
=============================================================================
