---------------------------- MODULE SampleRegister ----------------------------
(***************************************************************************)
(* What the dashboard's telemetry page promises its readers: a register    *)
(* holding one whole sample, published atomically and read atomically.     *)
(***************************************************************************)
EXTENDS Naturals

CONSTANTS Readers, NumFields

VARIABLES
  current,   \* number of the sample in the register; 0 is the initial page
  seen       \* what each reader last obtained, field by field

regVars == <<current, seen>>

Sample(n) == [f \in 1..NumFields |-> n]

Init == current = 0 /\ seen = [r \in Readers |-> Sample(0)]

Publish == current' = current + 1 /\ UNCHANGED seen

Snapshot(r) ==
  /\ seen' = [seen EXCEPT ![r] = Sample(current)]
  /\ UNCHANGED current

Next == Publish \/ \E r \in Readers : Snapshot(r)

Spec == Init /\ [][Next]_regVars
===============================================================================
