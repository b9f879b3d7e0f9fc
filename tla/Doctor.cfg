SPECIFICATION Spec
CHECK_DEADLOCK FALSE
CONSTANTS
    Models <- Names
    Efforts = {"high"}
    Labels = {"reasoning", "analysis", "mystery"}
    Roles <- TwoRoles
    OperatorRoles <- Chains
    OperatorOf <- ChainOf
    Operator = {p1, p2}
    Selections <- Asked
    Remembered <- Noted
    Edits <- Files
    Provider <- ProviderOf
    Prefix <- PrefixOf
    TomlWrites <- InToml
    HomeWrites <- InHome
    NameOrder <- InOrder
    Rounding <- FloatError
    Builtin <- Known
    Homes <- Start
    Caches <- InCache
    Answers <- Replies
    Runtime <- Installed
    MaxClock = 1
    MaxMoves = 2
SYMMETRY Interchangeable
INVARIANTS
    TypeOK ListedChoiceHonoured OnlyNoChangeVerifies SupplyIsOneSnapshot
    StaleReportExact DoctorRecommendsNothing
PROPERTIES
    ImplementsGuardedRegister DoctorDiesOfPerfection TieBreakExceptRounding
    AdviceByGates AgeingIsOneWay
