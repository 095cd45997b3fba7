------------------------- MODULE MCCollateralClient -------------------------
(* Model values for CollateralClient: two miners, the trustee and the zero *)
(* address are model values; miners are interchangeable.                   *)
EXTENDS CollateralCaller, TLC

MCSymmetry == Permutations(MinerAccounts)

\* The contract's calls as atomic steps, without the callers' transport
\* (the callers' state stays as it starts): the behaviours of Spec.
ContractSpec == CallerSpecInit /\ [][Next /\ UNCHANGED callerVars]_allVars

\* Behaviours in which the trustee never slashes: what finalization and
\* deposits alone can do.
NoSlashing == burned' = burned
=============================================================================
