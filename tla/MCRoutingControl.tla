-------------------------- MODULE MCRoutingControl --------------------------
EXTENDS RoutingControl, TLC

CONSTANTS SOL, GROK, OPUS, autoteam

\* One skill, one worker chain and two of the shipped implementers: the second
\* has no verifier chain.
Skills == [k \in {autoteam} |-> SOL]

Chains == [r \in {"DEEP_WORKER"} |-> <<GROK, SOL>>]

Verifiers == [e \in {SOL, OPUS} |-> IF e = SOL THEN <<GROK>> ELSE << >>]

Families == [e \in {SOL, GROK, OPUS} |->
                CASE e = SOL -> "sol_family" [] e = GROK -> "grok_family" [] e = OPUS -> "opus_family"]

ReviewOfSol == {<<"VERIFIER", SOL>>}

\* No operator is told from another by anything but its name.
AnyOperator == Permutations(Operator)

AnyRequest ==
    {<<"BOSS", autoteam>>, <<"DEEP_WORKER", 3>>, <<"VERIFIER", SOL>>, <<"VERIFIER", OPUS>>}
=============================================================================
