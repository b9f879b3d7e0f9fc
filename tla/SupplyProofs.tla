---------------------------- MODULE SupplyProofs ----------------------------
(***************************************************************************)
(* Proofs about the discovery for every set of models, home and sequence   *)
(* of writes: when it is one snapshot of the home, and what its report of  *)
(* stale models says.                                                      *)
(***************************************************************************)
EXTENDS Doctor, SequenceTheorems, TLAPS

LEMMA StepAfter ==
    ASSUME NEW i \in 1..9
    PROVE  After(Steps[i]) = Steps[i + 1]
<1>1. {j \in 1..Len(Steps) : Steps[j] = Steps[i]} = {i}
  BY DEF Steps
<1>2. SelectInSeq(Steps, LAMBDA s : s = Steps[i]) = Min({i})
  BY <1>1 DEF SelectInSeq
<1>3. Min({i}) = i
  BY DEF Min
<1> QED BY <1>2, <1>3 DEF After

LEMMA Order ==
    /\ After("profiles") = "agents" /\ After("agents") = "native"
    /\ After("enabled") = "generic" /\ After("generic") = "picker"
    /\ After("picker") = "user" /\ After("user") = "merged"
<1>1. /\ After(Steps[1]) = Steps[2] /\ After(Steps[2]) = Steps[3] /\ After(Steps[5]) = Steps[6]
      /\ After(Steps[6]) = Steps[7] /\ After(Steps[7]) = Steps[8] /\ After(Steps[8]) = Steps[9]
  BY StepAfter
<1> QED BY <1>1 DEF Steps

LEMMA ToSetFacts ==
    ASSUME NEW S, NEW s \in Seq(S), NEW e \in S
    PROVE  /\ Append(s, e) \in Seq(S) /\ Len(Append(s, e)) = Len(s) + 1
           /\ ToSet(Append(s, e)) = ToSet(s) \cup {e}
<1>1. /\ Append(s, e) \in Seq(S) /\ Len(Append(s, e)) = Len(s) + 1
      /\ \A i \in 1..Len(s) : Append(s, e)[i] = s[i]
      /\ Append(s, e)[Len(s) + 1] = e
  BY AppendProperties
<1>2. /\ DOMAIN s = 1..Len(s) /\ DOMAIN Append(s, e) = 1..(Len(s) + 1) /\ Len(s) \in Nat
  BY <1>1, LenProperties
<1>3. DOMAIN Append(s, e) = DOMAIN s \cup {Len(s) + 1}
  BY <1>2
<1> QED BY <1>1, <1>2, <1>3 DEF ToSet

\* Every step as the discovery sees it.
SupplyNext ==
    \/ WriteToml \/ WriteHome
    \/ StartReader \/ ReaderStep
    \/ UNCHANGED supplyVars

LEMMA SupplyView == [Next]_vars => SupplyNext
<1> USE DEF SupplyNext
<1>1. CASE Move
  BY <1>1 DEF Move, WriteCache, Tick, Probe
<1>2. CASE \E p \in Operator : ConfigStep(p) /\ UNCHANGED <<supplyVars, adviceVars, moves>>
  BY <1>2
<1>3. CASE report.at = "idle" /\ (StartReader \/ ReaderStep) /\ UNCHANGED <<configVars, adviceVars, moves>>
  BY <1>3
<1>4. CASE DoctorStep
  BY <1>4 DEF DoctorStep, DoctorConfig, DoctorSource, DoctorIntelligence, DoctorResolutions, Running
<1>5. CASE Advise
  BY <1>5 DEF Advise
<1>6. CASE UNCHANGED vars
  BY <1>6 DEF vars, supplyVars
<1> QED BY <1>1, <1>2, <1>3, <1>4, <1>5, <1>6 DEF Next

LEMMA OffersTyped ==
    ASSUME NEW h PROVE Offers(h) \in SUBSET (Models \X {"native", "router"})
  BY DEF Offers

LEMMA HomeShape ==
    ASSUME NEW h \in Home
    PROVE  /\ h["native"].names \subseteq Models /\ h["picker"].names \subseteq Models
           /\ h["enabled"].names \subseteq Providers /\ h["generic"].names \subseteq Providers
           /\ h["picker"].hidden \subseteq Models
  BY DEF Home, Contents, File, HomeFiles, RouterFiles

LEMMA StepNames ==
    ToSet(Steps) = {"profiles", "agents", "native", "dir", "enabled", "generic", "picker",
                    "user", "merged", "done"}
  BY DEF ToSet, Steps

LEMMA Moved ==
    ASSUME NEW r \in Reader, NEW at \in ToSet(Steps)
    PROVE  /\ [r EXCEPT !.at = at, !.failed = TRUE] \in Reader
           /\ [r EXCEPT !.at = at] \in Reader
           /\ \A declared \in SUBSET Models : [r EXCEPT !.at = at, !.declared = declared] \in Reader
           /\ \A native \in SUBSET Models : [r EXCEPT !.at = at, !.native = native] \in Reader
           /\ \A providers \in SUBSET Providers, visible, hidden \in SUBSET Models :
                 [r EXCEPT !.at = at, !.providers = providers, !.visible = visible,
                           !.hidden = hidden] \in Reader
           /\ \A router, stale \in SUBSET Models :
                 [r EXCEPT !.at = at, !.sound = TRUE, !.router = router, !.stale = stale]
                    \in Reader
  BY DEF Reader

LEMMA ReaderTyped ==
    ASSUME SupplyTypeOK, ReaderStep
    PROVE  reader' \in Reader
<1>1. /\ reader \in Reader /\ home \in Home
      /\ reader.declared \subseteq Models /\ reader.providers \subseteq Providers
      /\ reader.visible \subseteq Models /\ reader.hidden \subseteq Models
  BY DEF SupplyTypeOK, Reader
<1>2. CASE \E s \in Sources : ReadToml(s)
  <2>1. PICK s \in Sources : ReadToml(s)
    BY <1>2
  <2>2. reader.declared \cup DiscoverToml(toml[s]) \in SUBSET Models
    BY <1>1 DEF DiscoverToml
  <2>3. After(s) \in ToSet(Steps)
    BY Order, StepNames DEF Sources
  <2> QED BY <1>1, <2>1, <2>2, <2>3, Moved DEF ReadToml
<1>3. CASE ReadNative
  <2>1. home["native"].names \ home["native"].hidden \in SUBSET Models
    BY <1>1, HomeShape
  <2>2. "dir" \in ToSet(Steps) /\ "done" \in ToSet(Steps)
    BY StepNames
  <2>3. /\ [reader EXCEPT !.at = "done", !.failed = TRUE] \in Reader
        /\ [reader EXCEPT !.at = "dir"] \in Reader
        /\ [reader EXCEPT !.at = "dir", !.native = home["native"].names \ home["native"].hidden]
              \in Reader
    BY <1>1, <2>1, <2>2, Moved
  <2> QED BY <1>3, <2>3 DEF ReadNative, Fail
<1>4. CASE ReadDir
  <2>1. "enabled" \in ToSet(Steps) /\ "done" \in ToSet(Steps)
    BY StepNames
  <2> QED BY <1>1, <1>4, <2>1, Moved DEF ReadDir, GiveUpRouter
<1>5. CASE \E f \in RouterFiles \ {"merged"} : ReadState(f)
  <2>1. PICK f \in RouterFiles \ {"merged"} : ReadState(f)
    BY <1>5
  <2>2. After(f) \in ToSet(Steps) /\ "done" \in ToSet(Steps)
    BY Order, StepNames DEF RouterFiles
  <2> DEFINE providers == IF f \in {"enabled", "generic"} THEN reader.providers \cup home[f].names
                          ELSE reader.providers
             visible == IF f = "picker" THEN home[f].names ELSE reader.visible
             hidden == IF f = "picker" THEN home[f].hidden ELSE reader.hidden
  <2>3. providers \in SUBSET Providers /\ visible \in SUBSET Models /\ hidden \in SUBSET Models
    BY <1>1, HomeShape
  <2>4. \/ reader' = [reader EXCEPT !.at = "done"]
        \/ reader' = [reader EXCEPT !.at = After(f), !.providers = providers,
                                    !.visible = visible, !.hidden = hidden]
    BY <2>1 DEF ReadState, GiveUpRouter
  <2>5. /\ [reader EXCEPT !.at = "done"] \in Reader
        /\ [reader EXCEPT !.at = After(f), !.providers = providers, !.visible = visible,
                          !.hidden = hidden] \in Reader
    <3> HIDE DEF providers, visible, hidden
    <3> QED BY <1>1, <2>2, <2>3, Moved
  <2> HIDE DEF providers, visible, hidden
  <2> QED BY <2>4, <2>5
<1>6. CASE ReadMerged
  <2> DEFINE router == Eligible(home["merged"].names)
             stale == StaleVisible(home["merged"].names)
  <2>1. router \in SUBSET Models
    BY DEF Eligible
  <2>2. stale \in SUBSET Models
    BY <1>1 DEF StaleVisible
  <2>3. "done" \in ToSet(Steps)
    BY StepNames
  <2>4. /\ [reader EXCEPT !.at = "done", !.failed = TRUE] \in Reader
        /\ [reader EXCEPT !.at = "done"] \in Reader
        /\ [reader EXCEPT !.at = "done", !.sound = TRUE, !.router = router, !.stale = stale]
              \in Reader
    <3> HIDE DEF router, stale
    <3> QED BY <1>1, <2>1, <2>2, <2>3, Moved
  <2> QED BY <1>6, <2>4 DEF ReadMerged, GiveUpRouter, Fail
<1> QED BY <1>2, <1>3, <1>4, <1>5, <1>6 DEF ReaderStep

\* Whatever is declared, written and read has its type.
THEOREM SupplyTypeCorrect == Spec => []SupplyTypeOK
<1>1. Init => SupplyTypeOK
  <2> SUFFICES ASSUME Init PROVE SupplyTypeOK
    OBVIOUS
  <2>1. toml \in [Sources -> Declarations] /\ home \in Home
    BY DoctorAssumption DEF Init
  <2>2. NoReader \in Reader
    BY DEF NoReader, Reader
  <2> QED BY <2>1, <2>2 DEF Init, SupplyTypeOK
<1>2. SupplyTypeOK /\ [Next]_vars => SupplyTypeOK'
  <2> SUFFICES ASSUME SupplyTypeOK, SupplyNext PROVE SupplyTypeOK'
    BY SupplyView
  <2> USE DEF SupplyTypeOK
  <2>1. CASE WriteToml
    BY <2>1, SupplyAssumption DEF WriteToml
  <2>2. CASE WriteHome
    <3>1. home' \in Home
      BY <2>2, SupplyAssumption DEF WriteHome, Home, Contents
    <3>2. offered' \in Seq(SUBSET (Models \X {"native", "router"}))
      BY <2>2, OffersTyped, ToSetFacts DEF WriteHome
    <3> QED BY <2>2, <3>1, <3>2 DEF WriteHome
  <2>3. CASE StartReader
    <3>1. reader' \in Reader
      BY <2>3, StepNames DEF StartReader, NoReader, Reader, Steps
    <3>2. offered' \in Seq(SUBSET (Models \X {"native", "router"}))
      BY <2>3, OffersTyped DEF StartReader
    <3> QED BY <2>3, <3>1, <3>2 DEF StartReader
  <2>4. CASE ReaderStep
    <3>1. toml' = toml /\ home' = home /\ offered' = offered
      BY <2>4 DEF ReaderStep, ReadToml, ReadNative, ReadDir, ReadState, ReadMerged
    <3> QED BY <2>4, <3>1, ReaderTyped
  <2>5. CASE UNCHANGED supplyVars
    BY <2>5 DEF supplyVars
  <2> QED BY <2>1, <2>2, <2>3, <2>4, <2>5 DEF SupplyNext
<1> QED BY <1>1, <1>2, PTL DEF Spec

-----------------------------------------------------------------------------
(* The report of stale models                                               *)

\* A sound report was made from one catalog, with the providers and the picker
\* read before it.
ReportInv ==
    reader.sound =>
        /\ reader.at = "done"
        /\ \E catalog \in SUBSET Models :
              reader.router = Eligible(catalog) /\ reader.stale = StaleVisible(catalog)

LEMMA ReportKept == SupplyTypeOK /\ ReportInv /\ [Next]_vars => ReportInv'
<1> SUFFICES ASSUME SupplyTypeOK, ReportInv, SupplyNext PROVE ReportInv'
  BY SupplyView
<1>1. CASE reader' = reader
  BY <1>1 DEF ReportInv, Eligible, StaleVisible
<1>2. CASE StartReader
  BY <1>2 DEF StartReader, NoReader, ReportInv
<1>3. CASE ReaderStep
  <2>1. reader.at # "done"
    BY <1>3 DEF ReaderStep, ReadToml, ReadNative, ReadDir, ReadState, ReadMerged, Sources, RouterFiles
  <2>2. ~reader.sound
    BY <2>1 DEF ReportInv
  <2>3. CASE ReadMerged
    <3>1. CASE reader' = [reader EXCEPT
                  !.at = "done", !.sound = TRUE,
                  !.router = Eligible(home["merged"].names),
                  !.stale = StaleVisible(home["merged"].names)]
      <4>1. /\ reader'.at = "done" /\ reader'.visible = reader.visible
            /\ reader'.hidden = reader.hidden /\ reader'.providers = reader.providers
            /\ reader'.router = Eligible(home["merged"].names)
            /\ reader'.stale = StaleVisible(home["merged"].names)
        BY <3>1 DEF SupplyTypeOK, Reader
      <4>2. home["merged"].names \in SUBSET Models
        BY DEF SupplyTypeOK, Home, Contents, File, HomeFiles, RouterFiles
      <4> DEFINE catalog == home["merged"].names
      <4>3. home' = home
        BY <2>3 DEF ReadMerged
      <4>4. /\ Eligible(catalog)' = Eligible(catalog)
            /\ StaleVisible(catalog)' = StaleVisible(catalog)
        BY <4>1, <4>3 DEF Eligible, StaleVisible
      <4>5. /\ reader'.router = Eligible(catalog)' /\ reader'.stale = StaleVisible(catalog)'
            /\ catalog' \in SUBSET Models
        BY <4>1, <4>2, <4>3, <4>4
      <4>6. \E c \in SUBSET Models :
                reader'.router = Eligible(c)' /\ reader'.stale = StaleVisible(c)'
        BY <4>2, <4>3, <4>5
      <4> QED BY <4>1, <4>6 DEF ReportInv
    <3>2. CASE ~reader'.sound
      BY <3>2 DEF ReportInv
    <3> QED BY <2>2, <2>3, <3>1, <3>2 DEF ReadMerged, GiveUpRouter, Fail, SupplyTypeOK, Reader
  <2>4. CASE ~ReadMerged
    <3>1. reader'.sound = reader.sound
      <4> USE DEF SupplyTypeOK, Reader
      <4>1. CASE \E s \in Sources : ReadToml(s)
        BY <4>1 DEF ReadToml
      <4>2. CASE ReadNative
        BY <4>2 DEF ReadNative, Fail
      <4>3. CASE ReadDir
        BY <4>3 DEF ReadDir, GiveUpRouter
      <4>4. CASE \E f \in RouterFiles \ {"merged"} : ReadState(f)
        <5>1. PICK f \in RouterFiles \ {"merged"} : ReadState(f)
          BY <4>4
        <5>2. CASE home[f].is = "corrupt"
          BY <5>1, <5>2 DEF ReadState, GiveUpRouter
        <5>3. CASE home[f].is # "corrupt"
          <6> DEFINE providers == IF f \in {"enabled", "generic"}
                                  THEN reader.providers \cup home[f].names ELSE reader.providers
                     visible == IF f = "picker" THEN home[f].names ELSE reader.visible
                     hidden == IF f = "picker" THEN home[f].hidden ELSE reader.hidden
          <6>1. reader' = [reader EXCEPT !.at = After(f), !.providers = providers,
                                         !.visible = visible, !.hidden = hidden]
            BY <5>1, <5>3 DEF ReadState
          <6> HIDE DEF providers, visible, hidden
          <6> QED BY <6>1
        <5> QED BY <5>2, <5>3
      <4> QED BY <1>3, <2>4, <4>1, <4>2, <4>3, <4>4 DEF ReaderStep
    <3> QED BY <2>2, <3>1 DEF ReportInv
  <2> QED BY <2>3, <2>4
<1> QED BY <1>1, <1>2, <1>3 DEF SupplyNext, WriteToml, WriteHome, supplyVars

\* The report of stale models is the complement of what the router offers for
\* every name that starts with its provider, and lists every other name, for any
\* home and any writes to it.
THEOREM StaleReportCorrect == Spec => []StaleReportExact
<1>1. Init => ReportInv
  BY DEF Init, NoReader, ReportInv
<1>2. SupplyTypeOK /\ ReportInv => StaleReportExact
  <2> SUFFICES ASSUME SupplyTypeOK, reader.sound,
                      NEW catalog \in SUBSET Models, reader.router = Eligible(catalog),
                      reader.stale = StaleVisible(catalog),
                      NEW m \in reader.visible \ reader.hidden
               PROVE  IF Prefix[m] = Provider[m]
                      THEN m \in reader.stale <=> m \notin reader.router
                      ELSE Prefix[m] \notin Providers => m \in reader.stale
    BY DEF ReportInv, StaleReportExact
  <2>1. m \in Models /\ reader.providers \subseteq Providers
    BY DEF SupplyTypeOK, Reader
  <2>2. m \in reader.router <=> m \in catalog /\ Provider[m] \in reader.providers
    BY <2>1 DEF Eligible
  <2>3. m \in reader.stale <=> m \notin catalog \/ Prefix[m] \notin reader.providers
    BY DEF StaleVisible
  <2> QED BY <2>1, <2>2, <2>3
<1> QED BY <1>1, <1>2, ReportKept, SupplyTypeCorrect, PTL DEF Spec

-----------------------------------------------------------------------------
(* One snapshot                                                             *)

\* The stages at which a file of the home has been read.
ReadBefore ==
    [ native |-> {"dir", "enabled", "generic", "picker", "user", "merged"},
      dir |-> {"enabled", "generic", "picker", "user", "merged"},
      enabled |-> {"generic", "picker", "user", "merged"},
      generic |-> {"picker", "user", "merged"},
      picker |-> {"user", "merged"},
      user |-> {"merged"},
      merged |-> {} ]

Past(f) == reader.at \in ReadBefore[f]

\* What the discovery has so far is what it would have if the home were h.
Match(h) ==
    /\ reader.router = {} /\ ~reader.failed
    /\ IF Past("native")
       THEN h["native"].is # "odd" /\ reader.native = NativeModels(h)
       ELSE reader.native = {}
    /\ Past("dir") => h["dir"].is = "good"
    /\ \A f \in RouterFiles : Past(f) => h[f].is # "corrupt"
    /\ Past("enabled") /\ ~Past("generic") => reader.providers = h["enabled"].names
    /\ ~Past("enabled") => reader.providers = {}
    /\ Past("generic") => reader.providers = h["enabled"].names \cup h["generic"].names
    /\ Past("picker") => reader.visible = h["picker"].names /\ reader.hidden = h["picker"].hidden

Agrees(h) == \A f \in HomeFiles : ~Past(f) => h[f] = home[f]

\* A write either hits a file that was read, and then the discovery goes on as in
\* the home before it, or one that was not, and then as in the home after it.
SnapInv ==
    /\ reader.at = "done" /\ Len(offered) <= 2 => Supply \in ToSet(offered)
    /\ reader.at \notin {"idle", "done"} =>
          /\ offered # << >>
          /\ Len(offered) = 1 => Match(home) /\ Offers(home) \in ToSet(offered)
          /\ Len(offered) <= 2 =>
                \E h \in Home : Match(h) /\ Agrees(h) /\ Offers(h) \in ToSet(offered)

LEMMA PoolOf ==
    ASSUME NEW N \in SUBSET Models, NEW R \in SUBSET Models
    PROVE  Pool(N, R) = {e \in Models \X {"native", "router"} :
                            \/ e[2] = "native" /\ e[1] \in N
                            \/ e[2] = "router" /\ e[1] \in R \ N}
  BY DEF Pool

LEMMA OffersSound ==
    ASSUME NEW h, h["native"].is # "odd", RouterSound(h) => h["merged"].is # "odd"
    PROVE  Offers(h) = {e \in Models \X {"native", "router"} :
                            \/ e[2] = "native" /\ e[1] \in NativeModels(h)
                            \/ e[2] = "router" /\ e[1] \in RouterModels(h) \ NativeModels(h)}
  BY DEF Offers

\* The discovery ends with the account's models only.
LEMMA AccountOnly ==
    ASSUME SupplyTypeOK, NEW h \in Home, ~reader'.failed, reader'.router = {},
           reader'.native = NativeModels(h), h["native"].is # "odd", ~RouterSound(h)
    PROVE  Supply' = Offers(h)
<1>1. NativeModels(h) \in SUBSET Models /\ RouterModels(h) = {} /\ {} \in SUBSET Models
  BY HomeShape DEF NativeModels, RouterModels
<1>2. Supply' = Pool(NativeModels(h), RouterModels(h))
  BY <1>1 DEF Supply, Pool
<1>3. RouterModels(h) \in SUBSET Models
  BY <1>1
<1> DEFINE offer == {e \in Models \X {"native", "router"} :
                        \/ e[2] = "native" /\ e[1] \in NativeModels(h)
                        \/ e[2] = "router" /\ e[1] \in RouterModels(h) \ NativeModels(h)}
<1>4. Pool(NativeModels(h), RouterModels(h)) = offer
  BY <1>1, <1>3, PoolOf
<1>5. Offers(h) = offer
  BY OffersSound
<1> HIDE DEF offer
<1> QED BY <1>2, <1>4, <1>5

\* One read takes what the home h has, and the last one finds what h offers.
LEMMA ReadsMatch ==
    ASSUME SupplyTypeOK, NEW h \in Home, Match(h), Agrees(h), ReaderStep
    PROVE  IF reader'.at = "done"
           THEN Supply' = Offers(h)
           ELSE Match(h)' /\ \A f \in HomeFiles : Past(f) => Past(f)'
<1> USE DEF ReadBefore, Past, HomeFiles, RouterFiles
<1>0. /\ reader \in Reader /\ h[reader.at] = h[reader.at]
  BY DEF SupplyTypeOK
<1>1. CASE \E s \in Sources : ReadToml(s)
  <2>1. PICK s \in Sources : ReadToml(s)
    BY <1>1
  <2>2. /\ reader.at \in {"profiles", "agents"} /\ reader'.at \in {"agents", "native"}
        /\ UNCHANGED <<reader.native, reader.providers, reader.router, reader.failed>>
    BY <2>1, <1>0, Order DEF ReadToml, Sources, Reader
  <2> QED BY <2>2 DEF Match
<1>2. CASE ReadNative
  <2>1. h["native"] = home["native"] /\ reader.at = "native"
    BY <1>2 DEF ReadNative, Agrees
  <2>2. CASE home["native"].is = "odd"
    <3>1. reader'.at = "done" /\ reader'.failed
      BY <1>0, <1>2, <2>2 DEF ReadNative, Fail, Reader
    <3>2. Supply' = {}
      BY <3>1 DEF Supply
    <3> QED BY <2>1, <2>2, <3>1, <3>2 DEF Offers
  <2>3. CASE home["native"].is # "odd"
    <3>1. /\ reader'.at = "dir" /\ reader'.native = NativeModels(h)
          /\ UNCHANGED <<reader.providers, reader.router, reader.failed>>
      <4>1. CASE home["native"].is = "good"
        <5>1. NativeModels(h) = home["native"].names \ home["native"].hidden
          BY <2>1, <4>1 DEF NativeModels
        <5>2. reader' = [reader EXCEPT !.at = "dir", !.native = NativeModels(h)]
          BY <1>2, <4>1, <5>1 DEF ReadNative
        <5> QED BY <1>0, <5>2 DEF Reader
      <4>2. CASE home["native"].is # "good"
        BY <1>0, <1>2, <2>1, <2>3, <4>2 DEF ReadNative, Reader, NativeModels, Match
      <4> QED BY <4>1, <4>2
    <3> QED BY <2>1, <2>3, <3>1 DEF Match
  <2> QED BY <2>2, <2>3
<1>3. CASE ReadDir
  <2>1. h["dir"] = home["dir"] /\ reader.at = "dir"
    BY <1>3 DEF ReadDir, Agrees
  <2>2. CASE home["dir"].is = "good"
    <3>1. /\ reader'.at = "enabled"
          /\ UNCHANGED <<reader.native, reader.providers, reader.router, reader.failed>>
      BY <1>0, <1>3, <2>2 DEF ReadDir, Reader
    <3> QED BY <2>1, <2>2, <3>1 DEF Match
  <2>3. CASE home["dir"].is # "good"
    <3>1. /\ reader'.at = "done"
          /\ UNCHANGED <<reader.native, reader.router, reader.failed>>
      BY <1>0, <1>3, <2>3 DEF ReadDir, GiveUpRouter, Reader
    <3>2. ~RouterSound(h) /\ h["native"].is # "odd" /\ reader.native = NativeModels(h)
      BY <2>1, <2>3 DEF RouterSound, Match
    <3> QED BY <2>1, <3>1, <3>2, AccountOnly DEF Match
  <2> QED BY <2>2, <2>3
<1>4. CASE \E f \in RouterFiles \ {"merged"} : ReadState(f)
  <2>1. PICK f \in RouterFiles \ {"merged"} : ReadState(f)
    BY <1>4
  <2>2. h[f] = home[f] /\ reader.at = f
    BY <2>1 DEF ReadState, Agrees
  <2>3. CASE home[f].is = "corrupt"
    <3>1. /\ reader'.at = "done"
          /\ UNCHANGED <<reader.native, reader.router, reader.failed>>
      BY <1>0, <2>1, <2>3 DEF ReadState, GiveUpRouter, Reader
    <3>2. ~RouterSound(h) /\ h["native"].is # "odd" /\ reader.native = NativeModels(h)
      BY <2>2, <2>3 DEF RouterSound, Match
    <3> QED BY <2>2, <3>1, <3>2, AccountOnly DEF Match
  <2>4. CASE home[f].is # "corrupt"
    <3>1. /\ reader'.at = After(f)
          /\ UNCHANGED <<reader.native, reader.router, reader.failed>>
          /\ reader'.providers = IF f \in {"enabled", "generic"} THEN reader.providers \cup home[f].names
                                 ELSE reader.providers
          /\ reader'.visible = IF f = "picker" THEN home[f].names ELSE reader.visible
          /\ reader'.hidden = IF f = "picker" THEN home[f].hidden ELSE reader.hidden
      BY <1>0, <2>1, <2>4 DEF ReadState, Reader
    <3>2. CASE f = "enabled"
      BY <2>2, <2>4, <3>1, <3>2, Order DEF Match
    <3>3. CASE f = "generic"
      BY <2>2, <2>4, <3>1, <3>3, Order DEF Match
    <3>4. CASE f = "picker"
      BY <2>2, <2>4, <3>1, <3>4, Order DEF Match
    <3>5. CASE f = "user"
      BY <2>2, <2>4, <3>1, <3>5, Order DEF Match
    <3> QED BY <3>2, <3>3, <3>4, <3>5
  <2> QED BY <2>3, <2>4
<1>5. CASE ReadMerged
  <2>1. h["merged"] = home["merged"] /\ reader.at = "merged"
    BY <1>5 DEF ReadMerged, Agrees
  <2>2. CASE home["merged"].is = "corrupt"
    <3>1. /\ reader'.at = "done"
          /\ UNCHANGED <<reader.native, reader.router, reader.failed>>
      BY <1>0, <1>5, <2>2 DEF ReadMerged, GiveUpRouter, Reader
    <3>2. ~RouterSound(h) /\ h["native"].is # "odd" /\ reader.native = NativeModels(h)
      BY <2>1, <2>2 DEF RouterSound, Match
    <3> QED BY <2>1, <3>1, <3>2, AccountOnly DEF Match
  <2>3. CASE home["merged"].is # "corrupt"
    <3>1. RouterSound(h)
      BY <2>1, <2>3 DEF RouterSound, Match
    <3>2. CASE home["merged"].is = "odd"
      <4>1. reader'.at = "done" /\ reader'.failed
        BY <1>0, <1>5, <3>2 DEF ReadMerged, Fail, Reader
      <4>2. Supply' = {}
        BY <4>1 DEF Supply
      <4> QED BY <2>1, <3>1, <3>2, <4>1, <4>2 DEF Offers
    <3>3. CASE home["merged"].is # "odd"
      <4>1. /\ reader'.at = "done" /\ reader'.router = Eligible(home["merged"].names)
            /\ UNCHANGED <<reader.native, reader.failed>>
        BY <1>0, <1>5, <2>3, <3>3 DEF ReadMerged, Reader
      <4>2. Eligible(home["merged"].names) = RouterModels(h)
        BY <2>1, <3>1 DEF Eligible, RouterModels, Match
      <4>3. /\ h["native"].is # "odd" /\ h["merged"].is # "odd"
            /\ reader.native = NativeModels(h) /\ ~reader.failed
        BY <2>1, <3>3 DEF Match
      <4>4. NativeModels(h) \in SUBSET Models /\ RouterModels(h) \in SUBSET Models
        BY HomeShape DEF NativeModels, RouterModels
      <4>5. Supply' = Pool(NativeModels(h), RouterModels(h))
        BY <4>1, <4>2, <4>3 DEF Supply, Pool
      <4>6. Supply' = Offers(h)
        BY <4>3, <4>4, <4>5, PoolOf, OffersSound
      <4> QED BY <2>1, <4>1, <4>6
    <3> QED BY <3>2, <3>3
  <2> QED BY <2>2, <2>3
<1> QED BY <1>1, <1>2, <1>3, <1>4, <1>5 DEF ReaderStep

LEMMA OneOffer ==
    ASSUME NEW S, NEW s \in Seq(S)
    PROVE  /\ Len(s) \in Nat /\ (s # << >> <=> Len(s) # 0)
           /\ Len(s) = 1 => ToSet(s) = {s[1]}
<1>1. Len(s) \in Nat /\ DOMAIN s = 1..Len(s)
  BY LenProperties
<1>2. s # << >> <=> Len(s) # 0
  BY EmptySeq
<1> QED BY <1>1, <1>2 DEF ToSet

LEMMA SnapWrite ==
    ASSUME SupplyTypeOK, SupplyTypeOK', SnapInv, WriteHome
    PROVE  SnapInv'
<1> DEFINE Pairs == SUBSET (Models \X {"native", "router"})
<1>1. reader' = reader /\ toml' = toml
  BY DEF WriteHome
<1>2. CASE reader.at \in {"idle", "done"}
  BY <1>1, <1>2 DEF WriteHome, SnapInv, Supply
<1>3. CASE reader.at \notin {"idle", "done"}
  <2>1. PICK w \in HomeWrites : home' = [home EXCEPT ![w[1]] = w[2]]
    BY DEF WriteHome
  <2>2. /\ offered' = Append(offered, Offers(home'))
        /\ offered \in Seq(Pairs) /\ Offers(home') \in Pairs
    BY <1>3, OffersTyped DEF WriteHome, SupplyTypeOK
  <2>3. /\ Len(offered') = Len(offered) + 1 /\ Len(offered) \in Nat /\ Len(offered) # 0
        /\ ToSet(offered') = ToSet(offered) \cup {Offers(home')} /\ offered' # << >>
    <3>1. offered # << >>
      BY <1>3 DEF SnapInv
    <3>2. /\ Len(offered') = Len(offered) + 1
          /\ ToSet(offered') = ToSet(offered) \cup {Offers(home')}
          /\ offered' \in Seq(Pairs)
      BY <2>2, ToSetFacts
    <3>3. Len(offered) \in Nat /\ Len(offered) # 0
      BY <2>2, <3>1, OneOffer
    <3>4. offered' # << >>
      BY <3>2, <3>3, OneOffer
    <3> QED BY <3>2, <3>3, <3>4
  <2>4. ASSUME Len(offered') <= 2
        PROVE  \E h \in Home : Match(h)' /\ Agrees(h)' /\ Offers(h) \in ToSet(offered)'
    <3>1. Len(offered) = 1
      <4>1. PICK n \in Nat : n = Len(offered)
        BY <2>3
      <4>2. n # 0 /\ n + 1 <= 2
        BY <2>3, <2>4, <4>1
      <4>3. n = 1
        BY <4>2
      <4> QED BY <4>1, <4>3
    <3>2. Match(home) /\ Offers(home) \in ToSet(offered)
      BY <1>3, <3>1 DEF SnapInv
    <3>3. home \in Home /\ home' \in Home
      BY DEF SupplyTypeOK
    <3>4. w[1] \in HomeFiles /\ \A f \in HomeFiles : f # w[1] => home'[f] = home[f]
      BY <2>1, <3>3, SupplyAssumption DEF Home
    <3>5. CASE Past(w[1])
      <4>1. PICK h \in Home : h = home
        BY <3>3
      <4>2. \A f \in HomeFiles : ~Past(f) => h[f] = home'[f]
        BY <3>4, <3>5, <4>1
      <4>3. Match(h) /\ Offers(h) \in ToSet(offered)
        BY <3>2, <4>1
      <4>4. Match(h)' /\ Agrees(h)'
        BY <1>1, <4>2, <4>3 DEF Match, Agrees, Past
      <4> QED BY <2>3, <4>3, <4>4
    <3>6. CASE ~Past(w[1])
      <4>1. PICK h \in Home : h = home'
        BY <3>3
      <4>2. \A f \in HomeFiles : Past(f) => h[f] = home[f]
        BY <3>4, <3>6, <4>1
      <4>3. Match(h)
        <5>1. \A f \in RouterFiles : Past(f) => h[f] = home[f]
          BY <4>2 DEF HomeFiles
        <5>2. Past("generic") => Past("enabled")
          BY DEF Past, ReadBefore
        <5>3. Past("native") => h["native"] = home["native"]
          BY <4>2 DEF HomeFiles
        <5>4. Past("dir") => h["dir"] = home["dir"]
          BY <4>2 DEF HomeFiles
        <5>5. Past("native") => NativeModels(h) = NativeModels(home)
          BY <5>3 DEF NativeModels
        <5> QED BY <3>2, <5>1, <5>2, <5>3, <5>4, <5>5 DEF Match, RouterFiles
      <4>4. Match(h)' /\ Agrees(h)'
        BY <1>1, <4>1, <4>3 DEF Match, Agrees, Past
      <4> QED BY <2>3, <4>1, <4>4
    <3> QED BY <3>5, <3>6
  <2> QED BY <1>1, <1>3, <2>3, <2>4 DEF SnapInv
<1> QED BY <1>2, <1>3

LEMMA SnapRead ==
    ASSUME SupplyTypeOK, SnapInv, ReaderStep
    PROVE  SnapInv'
<1>1. home' = home /\ offered' = offered
  BY DEF ReaderStep, ReadToml, ReadNative, ReadDir, ReadState, ReadMerged
<1>2. reader.at \notin {"idle", "done"}
  BY DEF ReaderStep, ReadToml, ReadNative, ReadDir, ReadState, ReadMerged, Sources, RouterFiles
<1>3. home \in Home /\ Agrees(home) /\ offered # << >>
  BY <1>2 DEF SupplyTypeOK, Agrees, SnapInv
<1>4. CASE reader'.at = "done"
  <2> SUFFICES ASSUME Len(offered) <= 2 PROVE Supply' \in ToSet(offered)
    BY <1>1, <1>4 DEF SnapInv
  <2>1. PICK h \in Home : Match(h) /\ Agrees(h) /\ Offers(h) \in ToSet(offered)
    BY <1>2 DEF SnapInv
  <2> QED BY <1>4, <2>1, ReadsMatch
<1>5. CASE reader'.at # "done"
  <2>1. ASSUME NEW h \in Home, Match(h), Agrees(h)
        PROVE  Match(h)' /\ Agrees(h)'
    <3>1. Match(h)' /\ \A f \in HomeFiles : Past(f) => Past(f)'
      BY <1>5, <2>1, ReadsMatch
    <3> QED BY <1>1, <2>1, <3>1 DEF Agrees
  <2>2. Len(offered) = 1 => Match(home)' /\ Offers(home) \in ToSet(offered)
    <3>1. PICK h \in Home : h = home
      BY <1>3
    <3>2. Len(offered) = 1 => Match(h) /\ Agrees(h) /\ Offers(home) \in ToSet(offered)
      BY <1>2, <1>3, <3>1 DEF SnapInv
    <3>3. Match(h)' <=> Match(home)'
      BY <1>1, <3>1
    <3> QED BY <2>1, <3>2, <3>3
  <2>3. Len(offered) <= 2 =>
            \E h \in Home : Match(h)' /\ Agrees(h)' /\ Offers(h) \in ToSet(offered)
    BY <1>2, <2>1 DEF SnapInv
  <2> QED BY <1>1, <1>3, <1>5, <2>2, <2>3 DEF SnapInv
<1> QED BY <1>4, <1>5

LEMMA SnapStart ==
    ASSUME SupplyTypeOK, StartReader
    PROVE  SnapInv'
<1>1. /\ reader'.at = "profiles" /\ reader'.router = {} /\ ~reader'.failed
      /\ reader'.native = {} /\ reader'.providers = {}
      /\ offered' = <<Offers(home)>> /\ home' = home /\ home \in Home
  BY DEF StartReader, NoReader, Steps, SupplyTypeOK
<1>2. Match(home)' /\ Agrees(home)'
  BY <1>1 DEF Match, Agrees, Past, ReadBefore, RouterFiles
<1>3. Offers(home)' \in ToSet(offered')
  BY <1>1 DEF ToSet
<1> QED BY <1>1, <1>2, <1>3 DEF SnapInv

\* However many models, files and writes there are, a discovery that at most one
\* write overtook found what the home offered before or after that write.
THEOREM SnapshotCorrect == Spec => []SupplyIsOneSnapshot
<1>1. Init => SnapInv
  BY DEF Init, NoReader, SnapInv
<1>2. SupplyTypeOK /\ SupplyTypeOK' /\ SnapInv /\ [Next]_vars => SnapInv'
  <2> SUFFICES ASSUME SupplyTypeOK, SupplyTypeOK', SnapInv, SupplyNext PROVE SnapInv'
    BY SupplyView
  <2>1. CASE WriteToml \/ UNCHANGED supplyVars
    BY <2>1 DEF WriteToml, supplyVars, SnapInv, Match, Agrees, Past, Supply
  <2> QED BY <2>1, SnapWrite, SnapRead, SnapStart DEF SupplyNext
<1>3. SnapInv => SupplyIsOneSnapshot
  BY DEF SnapInv, SupplyIsOneSnapshot
<1> QED BY <1>1, <1>2, <1>3, SupplyTypeCorrect, PTL DEF Spec
=============================================================================
