---------------------------- MODULE ModelSupply ----------------------------
(***************************************************************************)
(* core/model_discovery.py: which models a home declares or offers.  The   *)
(* declarations are two directories of TOML files; the unified supply is   *)
(* the account's models_cache.json and five files of the model router,     *)
(* which discover_codex_models reads one after the other while the router  *)
(* and the picker rewrite them.                                            *)
(***************************************************************************)
EXTENDS ModelPolicy

CONSTANTS
    Provider,       \* [Models -> provider]: before the slash, "openai" without one
    Prefix,         \* [Models -> prefix]: before the slash, the name without one
    TomlWrites,     \* <<source, files>> that may be left in a declaration directory
    HomeWrites      \* <<file, contents>> that Codex, the router and the picker write

VARIABLES
    toml,           \* each declaration source: its files, none if it is missing
    home,           \* each file of the unified supply
    reader,         \* a discovery that includes the unified supply
    offered         \* history: what the home offered since it began, oldest first

supplyVars == <<toml, home, reader, offered>>

Providers == {Provider[m] : m \in Models}
Sources == {"profiles", "agents"}
RouterFiles == {"enabled", "generic", "picker", "user", "merged"}
HomeFiles == {"native", "dir"} \cup RouterFiles

\* A declaration file: the model it names, or "unnamed" (no model key),
\* "blank" (not a usable name), "garbled" (not TOML), "directory".
Declarations == Seq(Models \cup {"unnamed", "blank", "garbled", "directory"})

\* A JSON file. corrupt: refused where it is read; odd: JSON of an unexpected
\* shape that only breaks a loop over it later. names: the providers, visible
\* models or models it lists; hidden: those it lists as hidden.
File ==
    [ is : {"absent", "corrupt", "odd", "good"},
      names : SUBSET (Models \cup Providers), hidden : SUBSET Models ]

\* The homes: a provider file lists providers and every other file models.
Contents(f) ==
    {c \in File : c.names \subseteq IF f \in {"enabled", "generic"} THEN Providers ELSE Models}

Home == {h \in [HomeFiles -> File] : \A f \in HomeFiles : h[f] \in Contents(f)}

ASSUME SupplyAssumption ==
    /\ \A w \in TomlWrites : w[1] \in Sources /\ w[2] \in Declarations
    /\ \A w \in HomeWrites : w[1] \in HomeFiles /\ w[2] \in Contents(w[1])

Good(names, hidden) == [is |-> "good", names |-> names, hidden |-> hidden]
NoFile == [is |-> "absent", names |-> {}, hidden |-> {}]

-----------------------------------------------------------------------------
\* _discover_toml_models: the models a source declares, none if unavailable.
DiscoverToml(files) ==
    LET named == ToSet(files) \cap Models
    IN  IF \/ files = << >>
           \/ ToSet(files) \cap {"directory", "garbled"} # {}
           \/ named = {} /\ "blank" \in ToSet(files)
        THEN {} ELSE named

\* What a home offers, if all of it is looked at in one instant: the account's
\* listed models, then those of the router that are in its catalog, of an
\* enabled provider and picked, unless the account has them too.
NativeModels(h) == IF h["native"].is = "good" THEN h["native"].names \ h["native"].hidden ELSE {}

RouterSound(h) ==
    h["dir"].is = "good" /\ \A f \in RouterFiles : h[f].is # "corrupt"

RouterModels(h) ==
    IF RouterSound(h)
    THEN {m \in h["merged"].names \cap Models :
            /\ Provider[m] \in h["enabled"].names \cup h["generic"].names
            /\ m \in h["picker"].names \ h["picker"].hidden}
    ELSE {}

Offers(h) ==
    IF h["native"].is = "odd" \/ (RouterSound(h) /\ h["merged"].is = "odd")
    THEN {}
    ELSE {e \in Models \X {"native", "router"} :
            \/ e[2] = "native" /\ e[1] \in NativeModels(h)
            \/ e[2] = "router" /\ e[1] \in RouterModels(h) \ NativeModels(h)}

-----------------------------------------------------------------------------
\* The order in which discover_codex_models reads; then it is done.
Steps ==
    <<"profiles", "agents", "native", "dir", "enabled", "generic", "picker", "user",
      "merged", "done">>

\* The discovery: the next thing it reads, and what it has so far. router and
\* stale: eligible_models and stale_visible_slugs, once sound; failed: it raised.
Reader ==
    [ at : {"idle"} \cup ToSet(Steps), declared : SUBSET Models,
      native : SUBSET Models, providers : SUBSET Providers,
      visible : SUBSET Models, hidden : SUBSET Models,
      router : SUBSET Models, stale : SUBSET Models, sound : BOOLEAN, failed : BOOLEAN ]

NoReader ==
    [ at |-> "idle", declared |-> {}, native |-> {}, providers |-> {}, visible |-> {},
      hidden |-> {}, router |-> {}, stale |-> {}, sound |-> FALSE, failed |-> FALSE ]

SupplyTypeOK ==
    /\ toml \in [Sources -> Declarations]
    /\ home \in Home
    /\ reader \in Reader
    /\ offered \in Seq(SUBSET (Models \X {"native", "router"}))

\* load_unified_model_supply: the account's entry for a model wins.
Pool(fromAccount, fromRouter) ==
    fromAccount \X {"native"} \cup (fromRouter \ fromAccount) \X {"router"}

\* discover_codex_models catches what the loading raises: nothing is left then,
\* the account's models included.
Supply == IF reader.failed THEN {} ELSE Pool(reader.native, reader.router)

Found == reader.declared \cup {e[1] : e \in Supply}

After(step) == Steps[SelectInSeq(Steps, LAMBDA s : s = step) + 1]

StartReader ==
    /\ reader.at = "idle"
    /\ reader' = [NoReader EXCEPT !.at = Steps[1]]
    /\ offered' = <<Offers(home)>>
    /\ UNCHANGED <<toml, home>>

ReadToml(s) ==
    /\ reader.at = s
    /\ reader' = [reader EXCEPT !.at = After(s), !.declared = @ \cup DiscoverToml(toml[s])]
    /\ UNCHANGED <<toml, home, offered>>

Fail == reader' = [reader EXCEPT !.at = "done", !.failed = TRUE]

\* Without the router, the account's models remain.
GiveUpRouter == reader' = [reader EXCEPT !.at = "done"]

\* load_native_codex_supply.
ReadNative ==
    /\ reader.at = "native"
    /\ CASE home["native"].is = "odd" -> Fail
         [] home["native"].is = "good" ->
              reader' = [reader EXCEPT !.at = "dir",
                                       !.native = home["native"].names \ home["native"].hidden]
         [] OTHER -> reader' = [reader EXCEPT !.at = "dir"]
    /\ UNCHANGED <<toml, home, offered>>

ReadDir ==
    /\ reader.at = "dir"
    /\ IF home["dir"].is = "good"
       THEN reader' = [reader EXCEPT !.at = "enabled"]
       ELSE GiveUpRouter
    /\ UNCHANGED <<toml, home, offered>>

\* enabled-providers, generic-providers, model-picker and user-models.json; a
\* missing one counts as empty. user-models only renames and describes models.
\* Breaks SupplyIsOneSnapshot: a corrupt file counts as empty too.
ReadState_Defect(f) ==
    /\ reader.at = f
    /\ reader' = [reader EXCEPT
            !.at = After(f),
            !.providers = IF f \in {"enabled", "generic"} THEN @ \cup home[f].names ELSE @,
            !.visible = IF f = "picker" THEN home[f].names ELSE @,
            !.hidden = IF f = "picker" THEN home[f].hidden ELSE @]
    /\ UNCHANGED <<toml, home, offered>>

ReadState(f) ==
    /\ reader.at = f
    /\ IF home[f].is = "corrupt"
       THEN GiveUpRouter
       ELSE reader' = [reader EXCEPT
                !.at = After(f),
                !.providers = IF f \in {"enabled", "generic"} THEN @ \cup home[f].names ELSE @,
                !.visible = IF f = "picker" THEN home[f].names ELSE @,
                !.hidden = IF f = "picker" THEN home[f].hidden ELSE @]
    /\ UNCHANGED <<toml, home, offered>>

\* The loop over merged-models.json.
Eligible(catalog) ==
    {m \in catalog \cap Models :
        Provider[m] \in reader.providers /\ m \in reader.visible \ reader.hidden}

\* Breaks StaleReportExact: a picked model of a disabled provider is not reported.
StaleVisible_Defect(catalog) == reader.visible \ catalog

StaleVisible(catalog) ==
    {m \in reader.visible : m \notin catalog \/ Prefix[m] \notin reader.providers}

ReadMerged ==
    /\ reader.at = "merged"
    /\ CASE home["merged"].is = "corrupt" -> GiveUpRouter
         [] home["merged"].is = "odd" -> Fail
         [] OTHER -> reader' = [reader EXCEPT
                        !.at = "done", !.sound = TRUE,
                        !.router = Eligible(home["merged"].names),
                        !.stale = StaleVisible(home["merged"].names)]
    /\ UNCHANGED <<toml, home, offered>>

ReaderStep ==
    \/ \E s \in Sources : ReadToml(s)
    \/ ReadNative
    \/ ReadDir
    \/ \E f \in RouterFiles \ {"merged"} : ReadState(f)
    \/ ReadMerged

\* Others, at any time: a declaration directory, or one of the home's files.
WriteToml ==
    /\ \E w \in TomlWrites : w[2] # toml[w[1]] /\ toml' = [toml EXCEPT ![w[1]] = w[2]]
    /\ UNCHANGED <<home, reader, offered>>

WriteHome ==
    /\ \E w \in HomeWrites : w[2] # home[w[1]] /\ home' = [home EXCEPT ![w[1]] = w[2]]
    /\ offered' = IF reader.at \in {"idle", "done"} THEN offered
                  ELSE Append(offered, Offers(home'))
    /\ UNCHANGED <<toml, reader>>

-----------------------------------------------------------------------------
\* A discovery overtaken by at most one write finds what the home offered before
\* or after it, although it reads seven files one by one and gives up at the first
\* that is corrupt (load_unified_model_supply). Two writes are not promised: it
\* may then find a model that was never offered, or miss one that always was.
SupplyIsOneSnapshot ==
    reader.at = "done" /\ Len(offered) <= 2 => Supply \in ToSet(offered)

\* stale_visible_slugs lists a picked model exactly when the router does not offer
\* it, provided the model's name starts with its provider. One that does not is
\* always listed, offered or not: the report takes the name itself for a provider
\* (model_discovery.py:481), the loop takes "openai" (:419).
StaleReportExact ==
    reader.sound =>
        \A m \in reader.visible \ reader.hidden :
            IF Prefix[m] = Provider[m]
            THEN m \in reader.stale <=> m \notin reader.router
            ELSE Prefix[m] \notin Providers => m \in reader.stale
=============================================================================
