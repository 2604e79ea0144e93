------------------------------ MODULE Learner ------------------------------
(***************************************************************************)
(* What a run teaches about the arm that served it: Kernel.learn and       *)
(* Kernel.rateRun on PolicyLearner (learning/bandit.ts).  learn applies a  *)
(* run's reward when it ends, on the settings read when it was submitted;  *)
(* rateRun, at any time and any number of times, moves the arm by the      *)
(* difference, on the settings of the moment.                              *)
(*                                                                         *)
(* Abstracted: one arm of one workspace and category; a reward is an       *)
(* integer from 0 to Full; alpha and beta count from the arm's prior.      *)
(***************************************************************************)
EXTENDS Integers, FiniteSets, Functions


CONSTANTS Lessons,      \* runs
          Full,         \* a reward of 1
          MaxRatings,   \* bound: ratings, and changes of the setting
          Unrated

ASSUME LearnerAssumption == Full \in Nat /\ MaxRatings \in Nat /\ Unrated \notin Int

VARIABLES
    lesson,         \* each run's row, and what it was submitted with
    arm,            \* the row of policy_arms; a deleted one is made anew
    autoPolicy,     \* settings.autoPolicyEnabled
    ratings,
    plain           \* for the property: no run was rated before its end, and
                    \* the learner was never off nor reset

learnerVars == <<lesson, arm, autoPolicy, ratings, plain>>

Unlived == [at |-> "none", rating |-> Unrated, inferred |-> 0, reward |-> Unrated, learns |-> FALSE]
FreshArm == [alpha |-> 0, beta |-> 0, trials |-> 0]

AtLeast0(n) == IF n < 0 THEN 0 ELSE n

\* computeReward: an explicit rating in -1..1 stands for the quality.
Reward(rating, inferred) == IF rating = Unrated THEN inferred ELSE ((rating + 1) * Full) \div 2

\* update
Updated(a, reward) == [alpha |-> a.alpha + reward, beta |-> a.beta + Full - reward, trials |-> a.trials + 1]

Revised_Again(a, previous, reward) == Updated(a, reward)

\* revise: never under the prior.
Revised(a, previous, reward) ==
    IF previous = Unrated THEN Updated(a, reward)
    ELSE [a EXCEPT !.alpha = AtLeast0(@ - previous + reward),
                   !.beta = AtLeast0(@ + previous - reward)]

-----------------------------------------------------------------------------
LearnerInit ==
    /\ lesson = [r \in Lessons |-> Unlived]
    /\ arm = FreshArm
    /\ autoPolicy = TRUE
    /\ ratings = 0
    /\ plain = TRUE

\* What the run's outcome and usage amount to is settled here.
Undertake(r, inferred) ==
    /\ lesson[r].at = "none"
    /\ lesson' = [lesson EXCEPT ![r] = [Unlived EXCEPT !.at = "running", !.inferred = inferred,
                                                       !.learns = autoPolicy]]
    /\ UNCHANGED <<arm, autoPolicy, ratings, plain>>

Waits(r, from, to) ==
    /\ lesson[r].at = from
    /\ lesson' = [lesson EXCEPT ![r].at = to]
    /\ UNCHANGED <<arm, autoPolicy, ratings, plain>>

\* The run's record, and learn() up to its first await.
Learn(r) ==
    /\ lesson[r].at = "running"
    /\ LET reward == Reward(lesson[r].rating, lesson[r].inferred)
       IN  /\ lesson' = [lesson EXCEPT ![r].at = "ended", ![r].reward = reward]
           /\ arm' = IF lesson[r].learns THEN Updated(arm, reward) ELSE arm
    /\ UNCHANGED <<autoPolicy, ratings, plain>>

\* Cancelled, recovered at a start, or failed by the kernel: nothing is learnt.
EndsUntaught(r) ==
    /\ lesson[r].at \in {"running", "waiting"}
    /\ lesson' = [lesson EXCEPT ![r].at = "ended"]
    /\ UNCHANGED <<arm, autoPolicy, ratings, plain>>

\* rateRun: refused while queued or running; a rating of 0 falls back to the
\* inferred signal.
Rate(r, rating) ==
    /\ lesson[r].at \in {"waiting", "ended"}
    /\ ratings < MaxRatings
    /\ ratings' = ratings + 1
    /\ LET reward == Reward(IF rating = 0 THEN Unrated ELSE rating, lesson[r].inferred)
       IN  /\ lesson' = [lesson EXCEPT ![r].rating = rating, ![r].reward = reward]
           /\ arm' = IF autoPolicy THEN Revised(arm, lesson[r].reward, reward) ELSE arm
    /\ plain' = (plain /\ lesson[r].at = "ended")
    /\ UNCHANGED autoPolicy

SwitchPolicy ==
    /\ ratings < MaxRatings
    /\ ratings' = ratings + 1
    /\ autoPolicy' = ~autoPolicy
    /\ plain' = FALSE
    /\ UNCHANGED <<lesson, arm>>

\* reset, "unlearn"
Unlearn ==
    /\ ratings < MaxRatings
    /\ ratings' = ratings + 1
    /\ arm' = FreshArm
    /\ plain' = FALSE
    /\ UNCHANGED <<lesson, autoPolicy>>

LearnerNext ==
    \/ \E r \in Lessons, inferred \in 0..Full : Undertake(r, inferred)
    \/ \E r \in Lessons : \/ Waits(r, "running", "waiting") \/ Waits(r, "waiting", "running")
                          \/ Learn(r) \/ EndsUntaught(r)
    \/ \E r \in Lessons, rating \in {-1, 0, 1} : Rate(r, rating)
    \/ SwitchPolicy \/ Unlearn

LearnerSpec == LearnerInit /\ [][LearnerNext]_learnerVars

-----------------------------------------------------------------------------
(* Properties *)

\* revise, "a correction can never drive a parameter to zero or negative":
\* the arm stays at or above its prior, and so can be sampled, through every
\* order of ends, ratings, resets and changes of the setting.
NeverBelowPrior == arm.alpha >= 0 /\ arm.beta >= 0

Taught == {r \in Lessons : lesson[r].reward # Unrated}
RewardOf(runs) == SumFunction([r \in runs |-> lesson[r].reward])

\* rateRun, "leaves the posterior exactly where a single observation of the
\* rated value would have put it": however often its runs were rated, the arm
\* has seen each of them once, with the reward on its row.
EachRunCountsOnce ==
    plain => arm = [alpha |-> RewardOf(Taught),
                    beta |-> Full * Cardinality(Taught) - RewardOf(Taught),
                    trials |-> Cardinality(Taught)]

-----------------------------------------------------------------------------
(* What the comments promise and the code does not keep *)

\* rateRun: "applying the rated reward naively would count one run twice".
NoRunCountsTwice == arm.trials <= Cardinality(Taught)
=============================================================================
