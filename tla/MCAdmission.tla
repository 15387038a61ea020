---------------------------- MODULE MCAdmission ----------------------------
(***************************************************************************)
(* Admission on two keys: the claims of the first set a token limit and    *)
(* narrow the concurrency, those of the second set a budget.               *)
(***************************************************************************)
EXTENDS Admission, TLC

CONSTANTS reqA, reqB, vkA, vkB, noKeyM, noReqM

MCRequests == {reqA, reqB}
MCSymmetry == Permutations(MCRequests)
MCKeys == {vkA, vkB}
MCDefaults == [rpm |-> 2, tpm |-> 0, conc |-> 2]
MCKeyMax == [k \in MCKeys |-> IF k = vkA THEN [rpm |-> 3, tpm |-> 2, conc |-> 1]
                              ELSE [rpm |-> 0, tpm |-> 0, conc |-> 0]]
MCQueried == {vkB}
MCMaxCost == [k \in MCKeys |-> IF k = vkA THEN 0 ELSE 1]
MCKeyBudget == [k \in MCKeys |-> IF k = vkA THEN 0 ELSE 1]
=============================================================================
