--------------------------- MODULE BuildPipeline ---------------------------
(***************************************************************************)
(* What an image build promises its caller, without the controller, the    *)
(* informer cache or the API server.  A build is a sequence of pods in     *)
(* stages.  A pod is started only when every pod of every earlier stage    *)
(* has succeeded, and the build is reported successful only when all its   *)
(* pods have succeeded.  It may be given up as a failure at any moment.    *)
(* BuildController implements this specification.                          *)
(***************************************************************************)

CONSTANTS Pod,          \* the pods of the build
          Before(_, _)  \* Before(i, j): i belongs to an earlier stage than j

VARIABLES started, succeeded, outcome

vars == <<started, succeeded, outcome>>

Init == /\ started = {}
        /\ succeeded = {}
        /\ outcome = "running"

Start(j) == /\ outcome = "running"
            /\ j \notin started
            /\ \A i \in Pod : Before(i, j) => i \in succeeded
            /\ started' = started \cup {j}
            /\ UNCHANGED <<succeeded, outcome>>

Finish(i) == /\ i \in started
             /\ succeeded' = succeeded \cup {i}
             /\ UNCHANGED <<started, outcome>>

Report == /\ outcome = "running"
          /\ \/ succeeded = Pod /\ outcome' = "success"
             \/ outcome' = "failure"
          /\ UNCHANGED <<started, succeeded>>

Next == Report \/ \E p \in Pod : Start(p) \/ Finish(p)

Spec == Init /\ [][Next]_vars
=============================================================================
