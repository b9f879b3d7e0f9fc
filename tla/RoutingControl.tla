--------------------------- MODULE RoutingControl ---------------------------
(***************************************************************************)
(* The operator's side of routing: mode.json, enabled.json, the commands   *)
(* of orchestrator_routing.py and orchestrator_mode.py that write them,    *)
(* the selections of route_model.py that read both, one after the other,   *)
(* what a selection answers while the switch is OFF, and the telemetry log *)
(* it appends to while it is ON (what it answers then is RoutingHealth).   *)
(* Every command and every selection is a process; nothing locks a file,   *)
(* and no writer looks at the count that os.write returns: what the disk   *)
(* takes only in part is put in place, or left in the log, all the same.   *)
(***************************************************************************)
EXTENDS Integers, Sequences, FiniteSets

CONSTANTS
    Operator,       \* who runs commands, one at a time each
    Selector,       \* who runs route_model.py select
    Requests,       \* <<role, skill | attempt | implementer>> asked of it
    BossBinding,    \* skill_boss_bindings: the endpoint of each skill
    RoleChain,      \* role_chains: the endpoints of each worker role
    VerifierChain,  \* verifier_chains, << >> for an implementer without one
    Family,         \* the family of each endpoint of the Core registry
    DefaultVerifier,\* OPUS_4_6_THINKING
    MaxCommands,    \* bound: commands issued
    MaxRows         \* bound: telemetry appends

Mode == {"SolMode", "GrokMode"}
What == {"on", "off", "mode", "use", "set"}   \* set: orchestrator_mode.py

\* on and off take no mode.
Commands == ({"on", "off"} \X {"SolMode"}) \cup ({"mode", "use", "set"} \X Mode)

ASSUME ControlAssumption ==
    /\ MaxCommands \in Nat
    /\ MaxRows \in Nat

VARIABLES
    modeFile,   \* mode.json: a mode, "linked", or "none" if missing or invalid
    switchFile, \* enabled.json, in the same way
    cmd,        \* the command each operator is at
    issued,     \* how many commands were issued
    sel,        \* the selection each selector is at
    log,        \* routing-telemetry.jsonl: what each append left there
    short       \* history: how many of them the disk cut short

vars == <<modeFile, switchFile, cmd, issued, sel, log, short>>

\* read_mode and is_routing_enabled: everything invalid reads as the default.
ModeIn(file) == IF file = "GrokMode" THEN "GrokMode" ELSE "SolMode"
SwitchIn(file) == IF file = "ON" THEN "ON" ELSE "OFF"

InForce == <<SwitchIn(switchFile), ModeIn(modeFile)>>

\* A command: its next step, then "ok" or "failed"; what it printed.
\* alone: history, no other command overlapped it or has been issued since.
\* whole: history, the disk took all of every write of it.
Command ==
    [ at : {"mode", "switch", "report", "ok", "failed"}, what : What, mode : Mode,
      told : {"ON", "OFF", "unsaid"} \X Mode, alone : BOOLEAN, whole : BOOLEAN ]

NoCommand ==
    [ at |-> "failed", what |-> "off", mode |-> "SolMode",
      told |-> <<"unsaid", "SolMode">>, alone |-> FALSE, whole |-> TRUE ]

Running(o) == cmd[o].at \in {"mode", "switch", "report"}

\* A selection.  pairs: history, the switch and mode in force when it began
\* and those that the commands about were to leave.  met: history, whether it
\* overlapped no command, one that ran alone and wrote whole files, or others.
Selection ==
    [ at : {"switch", "mode", "append", "done"}, ask : Requests, on : {"ON", "OFF"},
      mode : Mode, pairs : SUBSET ({"ON", "OFF"} \X Mode), met : {"none", "one", "other"} ]

\* A telemetry append leaves the whole line, or a beginning of it.
Line == [complete |-> TRUE, newline |-> TRUE]
CutLine == {[complete |-> c, newline |-> FALSE] : c \in BOOLEAN}

Fragment == [complete : BOOLEAN, newline : BOOLEAN]

TypeOK ==
    /\ modeFile \in Mode \cup {"none", "linked"}
    /\ switchFile \in {"ON", "OFF", "none", "linked"}
    /\ cmd \in [Operator -> Command]
    /\ issued \in 0..MaxCommands
    /\ sel \in [Selector -> Selection]
    /\ log \in Seq(Fragment) /\ Len(log) <= MaxRows
    /\ short \in Nat

Init ==
    /\ modeFile \in {"SolMode", "none", "linked"}
    /\ switchFile \in {"ON", "none", "linked"}
    /\ cmd = [o \in Operator |-> NoCommand]
    /\ issued = 0
    /\ \E q \in Requests :
          sel = [s \in Selector |-> [ at |-> "done", ask |-> q, on |-> "OFF",
                                      mode |-> "SolMode", pairs |-> {}, met |-> "none" ]]
    /\ log = << >>
    /\ short = 0

-----------------------------------------------------------------------------
(* The commands.                                                           *)

NextStep_Swapped(what, step) ==  \* OneCommandOnePair: use turns routing on first
    CASE step = "begin"                     -> IF what \in {"on", "off", "use"}
                                               THEN "switch" ELSE "mode"
      [] step = "switch" /\ what = "use"    -> "mode"
      [] OTHER                              -> "report"
NextStep_Short(what, step) ==  \* CommandTellsTheTruth: use does not turn it on
    IF step = "begin" THEN (IF what \in {"on", "off"} THEN "switch" ELSE "mode")
    ELSE "report"
\* Every command writes, the mode before the switch, and then prints a line.
NextStep(what, step) ==
    CASE step = "begin"                -> IF what \in {"on", "off"} THEN "switch" ELSE "mode"
      [] step = "mode" /\ what = "use" -> "switch"
      [] OTHER                         -> "report"

Wanted_Defect(what) == what  \* TypeOK: the command's own name is stored
Wanted(what) == IF what = "off" THEN "OFF" ELSE "ON"

\* The switch and the mode that the command c is to leave.
Target(c) ==
    <<IF c.what \in {"on", "off", "use"} THEN Wanted(c.what) ELSE SwitchIn(switchFile),
      IF c.what \in {"mode", "use", "set"} THEN c.mode ELSE ModeIn(modeFile)>>

Issue(o) ==
    /\ ~Running(o)
    /\ issued < MaxCommands
    /\ issued' = issued + 1
    /\ \E c \in Commands :
          cmd' = [p \in Operator |->
                    IF p = o
                    THEN [ NoCommand EXCEPT !.at = NextStep(c[1], "begin"),
                             !.what = c[1], !.mode = c[2],
                             !.alone = \A r \in Operator \ {o} : ~Running(r) ]
                    ELSE [ cmd[p] EXCEPT !.alone = FALSE ]]
    /\ sel' = [s \in Selector |->
                  IF sel[s].at = "done" THEN sel[s]
                  ELSE [ sel[s] EXCEPT !.pairs = @ \cup {Target(cmd'[o])},
                           !.met = IF @ = "none" THEN "one" ELSE "other" ]]
    /\ UNCHANGED <<modeFile, switchFile, log, short>>

\* The command goes on, its write done; whole or cut, it does not know.
Done(o) ==
    /\ cmd' = [cmd EXCEPT ![o].at = NextStep(cmd[o].what, @)]
    /\ UNCHANGED sel

DoneCut(o) ==
    /\ cmd' = [cmd EXCEPT ![o].at = NextStep(cmd[o].what, @), ![o].whole = FALSE]
    /\ sel' = [s \in Selector |->
                  IF sel[s].at = "done" THEN sel[s] ELSE [ sel[s] EXCEPT !.met = "other" ]]

\* write_mode: os.replace puts the new file in place at once, and refuses to
\* replace a symbolic link.  A file cut short is no JSON, so invalid.
WriteMode(o) ==
    /\ cmd[o].at = "mode"
    /\ modeFile # "linked"
    /\ \/ modeFile' = cmd[o].mode /\ Done(o)
       \/ modeFile' = "none" /\ DoneCut(o)
    /\ UNCHANGED <<switchFile, issued, log, short>>

\* set_routing_enabled
WriteSwitch(o) ==
    /\ cmd[o].at = "switch"
    /\ switchFile # "linked"
    /\ \/ switchFile' = Wanted(cmd[o].what) /\ Done(o)
       \/ switchFile' = "none" /\ DoneCut(o)
    /\ UNCHANGED <<modeFile, issued, log, short>>

\* A symbolic link, an OSError or the end of the process, before any step.
Fail(o) ==
    /\ Running(o)
    /\ cmd' = [cmd EXCEPT ![o].at = "failed"]
    /\ UNCHANGED <<modeFile, switchFile, issued, sel, log, short>>

\* The line a command prints: on and off read the mode back, mode reads the
\* switch, use reads nothing, orchestrator_mode.py shows the mode it reads
\* back and fails if that is not the one it wrote.
Told(c) ==
    CASE c.what \in {"on", "off"} -> <<Wanted(c.what), ModeIn(modeFile)>>
      [] c.what = "mode"          -> <<SwitchIn(switchFile), c.mode>>
      [] c.what = "use"           -> <<"ON", c.mode>>
      [] c.what = "set"           -> <<"unsaid", ModeIn(modeFile)>>

Confirmed(c) == c.what = "set" => ModeIn(modeFile) = c.mode

Report(o) ==
    /\ cmd[o].at = "report"
    /\ cmd' = [cmd EXCEPT ![o].at = IF Confirmed(cmd[o]) THEN "ok" ELSE "failed",
                          ![o].told = Told(cmd[o])]
    /\ UNCHANGED <<modeFile, switchFile, issued, sel, log, short>>

-----------------------------------------------------------------------------
(* The selections.                                                         *)

Quiet == UNCHANGED <<modeFile, switchFile, cmd, issued>>

About == {o \in Operator : Running(o)}

Met == CASE About = {}                                       -> "none"
         [] \E o \in About : cmd[o].alone /\ cmd[o].whole -> "one"
         [] OTHER                                            -> "other"

Begin(s) ==
    /\ sel[s].at = "done"
    /\ \E q \in Requests :
          sel' = [sel EXCEPT ![s] =
                    [ at |-> "switch", ask |-> q, on |-> "OFF", mode |-> "SolMode",
                      pairs |-> {InForce} \cup {Target(cmd[o]) : o \in About},
                      met |-> Met ]]
    /\ Quiet /\ UNCHANGED <<log, short>>

ReadSwitch(s) ==
    /\ sel[s].at = "switch"
    /\ sel' = [sel EXCEPT ![s].at = "mode", ![s].on = SwitchIn(switchFile)]
    /\ Quiet /\ UNCHANGED <<log, short>>

\* With the switch OFF the selection answers from the Core at once.
ReadMode(s) ==
    /\ sel[s].at = "mode"
    /\ sel' = [sel EXCEPT ![s].at = IF sel[s].on = "ON" THEN "append" ELSE "done",
                          ![s].mode = ModeIn(modeFile)]
    /\ Quiet /\ UNCHANGED <<log, short>>

\* append_routing_event: one write, whose count is not looked at.
AppendEvent(s) ==
    /\ sel[s].at = "append"
    /\ Len(log) < MaxRows
    /\ \/ log' = Append(log, Line) /\ short' = short
       \/ \E cut \in CutLine : log' = Append(log, cut) /\ short' = short + 1
    /\ sel' = [sel EXCEPT ![s].at = "done"]
    /\ Quiet

\* --no-telemetry, or an error of the append, which is only warned about.
SkipEvent(s) ==
    /\ sel[s].at = "append"
    /\ sel' = [sel EXCEPT ![s].at = "done"]
    /\ Quiet /\ UNCHANGED <<log, short>>

Select(s) == Begin(s) \/ ReadSwitch(s) \/ ReadMode(s) \/ AppendEvent(s) \/ SkipEvent(s)

Run(o) == Issue(o) \/ WriteMode(o) \/ WriteSwitch(o) \/ Fail(o) \/ Report(o)

Next ==
    \/ \E o \in Operator : Run(o)
    \/ \E s \in Selector : Select(s)

Spec == Init /\ [][Next]_vars

-----------------------------------------------------------------------------
(* What a selection answers while the switch is OFF.                       *)

\* attempt is clamped to the chain: one past its end repeats the last.
Attempted(chain, attempt) ==
    chain[IF attempt > Len(chain) THEN Len(chain) ELSE IF attempt < 1 THEN 1 ELSE attempt]

\* validate_verifier_independence
Independent(imp, e) ==
    /\ {imp, e} \subseteq DOMAIN Family
    /\ imp # e
    /\ Family[imp] # Family[e]

\* The first independent verifier of the implementer's chain; without one the
\* first of the chain, and without a chain the default verifier.
LegacyVerifier(imp) ==
    LET chain == VerifierChain[imp]
        may   == {i \in DOMAIN chain : Independent(imp, chain[i])}
    IN  IF may # {} THEN chain[CHOOSE i \in may : \A j \in may : i <= j]
        ELSE IF chain # << >> THEN chain[1] ELSE DefaultVerifier

\* _legacy_select
LegacyAnswer(ask) ==
    CASE ask[1] = "BOSS"     -> BossBinding[ask[2]]
      [] ask[1] = "VERIFIER" -> LegacyVerifier(ask[2])
      [] OTHER               -> Attempted(RoleChain[ask[1]], ask[2])

-----------------------------------------------------------------------------
(* Properties.                                                             *)

\* The last answer of s was given, with the switch as it says.
Answered(s, on) == sel[s].at \in {"append", "done"} /\ sel[s].on = on /\ sel[s].pairs # {}

\* A selection that overlaps one command at most, one that no other command
\* disturbs and whose writes the disk takes whole, is routed under the mode in
\* force when it began or under the one that command is to leave, and only if
\* the switch was ON with it: never under a mixture of its two reads or of the
\* two writes of use.
OneCommandOnePair ==
    \A s \in Selector :
        Answered(s, "ON") /\ sel[s].met # "other" => <<"ON", sel[s].mode>> \in sel[s].pairs

\* Despite a write cut short: off, since an invalid switch is OFF, and set, the
\* one command that reads back what it wrote.
Forgiving == {"off", "set"}

\* A command that reports success, with no other command about, printed the
\* switch and the mode that every later selection finds: on, mode and use if the
\* disk took their writes whole, off and set in any case.
CommandTellsTheTruth ==
    \A o \in Operator :
        cmd[o].at = "ok" /\ cmd[o].alone /\ (cmd[o].whole \/ cmd[o].what \in Forgiving) =>
            /\ cmd[o].told[1] \in {"unsaid", SwitchIn(switchFile)}
            /\ cmd[o].told[2] = ModeIn(modeFile)

Readable_Defect(i) == \A j \in 1..i :  \* LossBounded: reading stops at a bad row
    log[j].complete /\ (j = 1 \/ log[j - 1].newline) /\ (j = Len(log) \/ log[j].newline)
\* read_telemetry_events: a row is what stands between two newlines, and it
\* is an event if it is one complete line.
Readable(i) ==
    /\ log[i].complete
    /\ i = 1 \/ log[i - 1].newline
    /\ i = Len(log) \/ log[i].newline

\* A line the disk cut short costs its own event and the next at most.
LossBounded ==
    Cardinality({i \in DOMAIN log : ~Readable(i)}) <= 2 * short

\* Every event whose whole line was written is read back, as
\* append_routing_event and read_telemetry_events say.
AppendedEventsAreRead == \A i \in DOMAIN log : log[i] = Line => Readable(i)

\* No legacy answer names the implementer as the verifier of its own work.
NeverVerifiesItself ==
    \A s \in Selector :
        Answered(s, "OFF") /\ sel[s].ask[1] = "VERIFIER" =>
            LegacyAnswer(sel[s].ask) # sel[s].ask[2]
=============================================================================
