---------------------------- MODULE MCScheduler ----------------------------
(* Scheduler on one or two automations: on the clock, on people's runs, or *)
(* each on the other's.                                                    *)
EXTENDS Scheduler

Plain(type) == [type |-> type, sources |-> {}]
Offered == {Plain("timed"), Plain("event")}
             \cup {[type |-> "watch", sources |-> {a}] : a \in Autos}
=============================================================================
