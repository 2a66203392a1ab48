-------------------------- MODULE MCEngineContext --------------------------
(* Model-checking instances of EngineContext: the sets a .cfg cannot write. *)
EXTENDS EngineContext, TLC

CONSTANTS m1, m2

TwoModels == {m1, m2}
OneModel  == {m1}
FitsAlone == {2}        \* two of them exceed a budget of 3
NoCharge  == {0}
OddCharges == {2, -1}   \* -1 passes loadModel's field checks and wraps round

(* The two models are interchangeable in every run without liveness. *)
ModelSymmetry == Permutations(Models)
=============================================================================
