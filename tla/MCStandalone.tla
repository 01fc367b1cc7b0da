------------------------------ MODULE MCStandalone ------------------------------
(* Small instances of the components that share no state with another one.  A *)
(* behaviour is of one of them: the others keep their initial states.         *)
EXTENDS Cutover, ProviderTransition, DataRoot, InstructionGovernance,
        EvidenceAudit, TLC

CONSTANTS a, b

VARIABLE chosen

ThreeRoutes == 1..3
AllOrSome == {ThreeRoutes, {1, 2}}
TwoStrategies == {"CAPABILITY_FIRST", "STEWARDSHIP"}
Ranks ==
    [s \in TwoStrategies |->
        [r \in ThreeRoutes |->
            IF s = "CAPABILITY_FIRST" THEN r ELSE IF r = 3 THEN 1 ELSE 2]]

StandaloneInit ==
    /\ chosen \in {"cutover", "provider", "root", "governance", "evidence"}
    /\ Init
    /\ ProviderInit
    /\ RootInit
    /\ GovernanceInit
    /\ EvidenceInit
    /\ chosen # "evidence" => github = [pr |-> 0, rows |-> {}, thread |-> NoComment]

StandaloneNext ==
    /\ UNCHANGED chosen
    /\ \/ /\ chosen = "cutover" /\ Next
          /\ UNCHANGED <<providerVars, rootVars, governanceVars, evidenceVars>>
       \/ /\ chosen = "provider" /\ ProviderNext
          /\ UNCHANGED <<vars, rootVars, governanceVars, evidenceVars>>
       \/ /\ chosen = "root" /\ RootNext
          /\ UNCHANGED <<vars, providerVars, governanceVars, evidenceVars>>
       \/ /\ chosen = "governance" /\ GovernanceNext
          /\ UNCHANGED <<vars, providerVars, rootVars, evidenceVars>>
       \/ /\ chosen = "evidence" /\ EvidenceNext
          /\ UNCHANGED <<vars, providerVars, rootVars, governanceVars>>

StandaloneSpec ==
    /\ StandaloneInit
    /\ [][StandaloneNext]_<<chosen, vars, providerVars, rootVars, governanceVars,
                            evidenceVars>>

Twins == Permutations({a, b})
=================================================================================
