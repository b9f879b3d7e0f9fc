------------------------------ MODULE MCDoctor ------------------------------
EXTENDS Doctor

Names == {"sol", "grok", "luna"}
InOrder == <<"grok", "luna", "sol">>

\* gpt-5.6-sol has no provider in its name; the others do.
ProviderOf == [sol |-> "openai", grok |-> "nine", luna |-> "go"]
PrefixOf == [sol |-> "sol", grok |-> "nine", luna |-> "go"]

TwoRoles == {"planner", "scout"}
Chains == {"BOSS", "SCOUT", "DEEP_WORKER"}
ChainOf == [planner |-> "BOSS", scout |-> "SCOUT"]

Known ==
    [ sol |-> {"reasoning", "coding", "analysis"},
      luna |-> {"reasoning", "coding", "fast", "analysis", "cost_effective"},
      grok |-> {"reasoning", "long_context", "analysis"} ]

High(m) == [model |-> m, effort |-> "high"]

Views(planner, scout) == [planner |-> planner, scout |-> scout]

Shipped ==
    [ view |-> Views(
        [preferred |-> <<"sol", "grok">>, fallback |-> <<"luna">>, hints |-> {"reasoning"}],
        [preferred |-> <<"luna">>, fallback |-> <<"grok">>, hints |-> {"analysis"}]),
      policy |-> [ BOSS |-> <<High("sol"), High("grok"), High("luna")>>,
                   SCOUT |-> <<High("luna"), High("grok")>>,
                   DEEP_WORKER |-> <<High("grok")>> ] ]

\* A user's file without operator_policy, with a model listed twice and an
\* unknown hint.
Plain ==
    [ view |-> Views(
        [preferred |-> <<"sol">>, fallback |-> <<"luna", "sol">>, hints |-> {"reasoning"}],
        [preferred |-> <<"grok">>, fallback |-> <<"luna">>, hints |-> {"mystery"}]),
      policy |-> << >> ]

\* A hand edit of one of the two views only.
Skewed == [Shipped EXCEPT !.view.planner.preferred = <<"grok", "sol">>]

Hand(c) == [form |-> "hand", config |-> c]
Files == {Hand(Shipped), Hand(Plain), Hand(Skewed), Broken, Absent}
Noted == {Hand(Shipped)}

Asked ==
    { [r \in {"planner"} |-> "luna"], [r \in {"planner"} |-> "grok"],
      [r \in TwoRoles |-> IF r = "planner" THEN "sol" ELSE "grok"] }

Installed ==
    [ resolution |-> [ SOL_HIGH |-> High("sol"), GROK_HIGH |-> High("grok"),
                       PLUS_LUNA |-> High("luna") ],
      policy |-> [ BOSS |-> <<"SOL_HIGH", "GROK_HIGH", "PLUS_LUNA">>,
                   SCOUT |-> <<"PLUS_LUNA", "GROK_HIGH">>,
                   DEEP_WORKER |-> <<"GROK_HIGH">> ] ]

\* A home with declarations, and a router that offers grok and, like the account,
\* sol.
Declaring ==
    [profiles |-> <<"sol">>, agents |-> <<"luna", "unnamed", "luna">>]

WithRouter ==
    [ native |-> Good({"sol", "luna"}, {"luna"}), dir |-> Good({}, {}),
      enabled |-> Good({"nine", "openai"}, {}), generic |-> NoFile,
      picker |-> Good({"sol", "grok", "luna"}, {}), user |-> Good({}, {}),
      merged |-> Good({"sol", "grok", "luna"}, {}) ]

Corrupt == [is |-> "corrupt", names |-> {}, hidden |-> {}]
Odd == [is |-> "odd", names |-> {}, hidden |-> {}]

InHome ==
    { <<"native", Odd>>, <<"native", Corrupt>>, <<"dir", NoFile>>,
      <<"enabled", Good({"go"}, {})>>, <<"enabled", Corrupt>>,
      <<"generic", Good({"nine"}, {})>>, <<"picker", Good({"sol", "grok"}, {"grok"})>>,
      <<"user", Corrupt>>, <<"merged", Odd>>, <<"merged", Good({"luna"}, {})>> }

InToml == { <<"profiles", <<"sol", "garbled">>>>, <<"agents", <<"blank">>>>,
            <<"agents", <<"grok", "blank">>>> }

Claim(c, s, k, e) == [capability |-> c, score |-> s, confidence |-> k, ids |-> <<e>>]
Evidence(i, from, to) == [id |-> i, observed |-> from, expires |-> to]
Of(m, claims) == [identity |-> m, claims |-> claims]

\* "old" expires at 1, "new" is observed at 1, "brief" is never current. grok
\* claims two capabilities of a scout that weigh little.
Mixed ==
    [ is |-> "good",
      evidence |-> <<Evidence("old", 0, 1), Evidence("new", 1, Never), Evidence("brief", 0, 0)>>,
      models |->
        << Of("sol", <<Claim("reasoning", 8, "HIGH", "brief"), Claim("analysis", 8, "LOW", "new")>>),
           Of("luna", <<Claim("reasoning", 9, "HIGH", "old"), Claim("coding", 7, "LOW", "old"),
                        Claim("fast", 9, "MEDIUM", "old")>>),
           Of("grok", <<Claim("cost_effective", 9, "HIGH", "old"),
                        Claim("reasoning", 9, "HIGH", "old")>>) >> ]

AtBest(capabilities) ==
    [i \in DOMAIN capabilities |-> Claim(capabilities[i], 10, "HIGH", "old")]

\* luna is the perfect scout, sol the perfect planner; the claims about grok
\* contradict each other.
Perfect ==
    [ is |-> "good", evidence |-> <<Evidence("old", 0, 1)>>,
      models |->
        << Of("luna", AtBest(<<"fast", "analysis", "cost_effective", "reasoning">>)),
           Of("sol", AtBest(<<"reasoning", "analysis", "long_context", "coding">>)),
           Of("grok", <<Claim("analysis", 9, "LOW", "old"), Claim("analysis", 8, "LOW", "old"),
                        Claim("reasoning", 8, "LOW", "old")>>) >> ]

\* Two scouts of one exact score, 0.30, and two planners of one exact score, 2.00.
Tied ==
    [ is |-> "good", evidence |-> <<Evidence("old", 0, Never)>>,
      models |->
        << Of("luna", <<Claim("fast", 0, "HIGH", "old"), Claim("reasoning", 3, "HIGH", "old")>>),
           Of("grok", <<Claim("analysis", 1, "LOW", "old"), Claim("cost_effective", 0, "LOW", "old"),
                        Claim("reasoning", 0, "LOW", "old"), Claim("long_context", 5, "LOW", "old"),
                        Claim("coding", 5, "LOW", "old")>>),
           Of("sol", <<Claim("reasoning", 5, "LOW", "old"), Claim("coding", 0, "LOW", "old")>>) >> ]

\* Two records with one id.
Doubled == [Perfect EXCEPT !.evidence = @ \o @]

NoCache == [is |-> "absent", evidence |-> << >>, models |-> << >>]

InCache == {Mixed, Perfect, Tied, Doubled, NoCache}

Start == {Declaring} \X {WithRouter} \X {Mixed, Tied}

\* What Python's floating point adds to these exact scores, in last places.
FloatError(role, scores) ==
    IF role = "planner" THEN 0
    ELSE IF scores = [c \in {"fast", "analysis", "cost_effective", "reasoning"} |-> 10] THEN 1
    ELSE IF scores = [fast |-> 0, reasoning |-> 3] THEN 2
    ELSE IF scores = [analysis |-> 1, cost_effective |-> 0, reasoning |-> 0] THEN 1
    ELSE 0

Answer(m, status, timed) ==
    [ model |-> m, status |-> status, freshness |-> "FRESH", checked |-> 0,
      timed |-> timed, provenance |-> "probe" ]

Replies ==
    { Answer("luna", "AVAILABLE", TRUE), Answer("grok", "AVAILABLE", TRUE),
      Answer("sol", "AVAILABLE", TRUE), Answer("sol", "UNAVAILABLE", TRUE),
      Answer("luna", "AVAILABLE", FALSE) }

Interchangeable == Permutations(Operator)
=============================================================================
