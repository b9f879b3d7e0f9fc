SPECIFICATION Spec
CONSTANTS
    SOL = SOL  LUNA = LUNA  GROK = GROK  GEMINI = GEMINI  OX = OX
    gpt_plus = gpt_plus  supergrok = supergrok  gemini = gemini  ox_combo = ox_combo
    NoEndpoint = NoEndpoint  Unknown = Unknown
    Endpoint = {SOL, LUNA, GROK, GEMINI, OX}
    Active = {SOL, LUNA, GEMINI, OX}
    Domain = {gpt_plus, gemini, ox_combo}
    DomainOrder <- Order  DomainEndpoints <- Domains
    GroupOf <- Groups
    Chain <- Chains
    OxAlpha = OX  OxDomain = ox_combo  OxOverlay = "auto"
    OverlayTable <- Overlay
    Recorder = {r1, r2}
    Selector = {s1}
    Requests <- Asked
    Cooldowns = {1, 2}
    MaxTime = 1
PROPERTY CooldownsNeverShorten
CHECK_DEADLOCK FALSE
