-------------------------- MODULE MCRoutingHealth --------------------------
EXTENDS RoutingHealth

CONSTANTS SOL, LUNA, GROK, GEMINI, OX, gpt_plus, supergrok, gemini, ox_combo

\* The shipped policy cut down to what its code paths tell apart, with the
\* overlay on "auto": two endpoints in one domain, an inactive endpoint at the
\* head of a chain, one domain that serves every role.  One endpoint is in two
\* domains, which the loader lets pass.
Domains == [d \in {gpt_plus, gemini, ox_combo} |->
                CASE d = gpt_plus -> {SOL, LUNA}
                  [] d = gemini   -> {GEMINI}
                  [] d = ox_combo -> {OX, SOL}]

Order == <<gpt_plus, gemini, ox_combo>>

Groups == [e \in {SOL, LUNA, GROK, GEMINI, OX} |->
                CASE e = SOL    -> "sol_family"
                  [] e = LUNA   -> "luna_family"
                  [] e = GROK   -> "supergrok"
                  [] e = GEMINI -> "gemini"
                  [] e = OX     -> "ox_combo"]

Chains == [r \in RoutedRole |->
                CASE r = "BOSS"            -> <<GROK, SOL, GEMINI>>
                  [] r = "VERIFIER"        -> <<SOL, GEMINI, LUNA>>
                  [] r = "SCOUT"           -> <<GEMINI>>
                  [] r = "STANDARD_WORKER" -> <<GEMINI, LUNA>>
                  [] r = "DEEP_WORKER"     -> <<GROK, GEMINI, SOL>>]

Overlay == <<OX, GEMINI>>

Asked == {<<"BOSS", NoEndpoint>>, <<"STANDARD_WORKER", NoEndpoint>>, <<"VERIFIER", LUNA>>}
=============================================================================
