------------------------ MODULE RoutingControlProofs ------------------------
(***************************************************************************)
(* One command at a time takes effect as a whole: the selections' two      *)
(* reads, in that order, against the two writes of use, in that order.     *)
(* What a write that the disk cuts short leaves is not promised anything.  *)
(***************************************************************************)
EXTENDS RoutingControl, FiniteSetTheorems, TLAPS

\* A command writes the switch last, and starts with a write.
LEMMA NextStepTyped ==
    ASSUME NEW what \in What, NEW step
    PROVE  /\ NextStep(what, step) \in {"mode", "switch", "report"}
           /\ step = "switch" => NextStep(what, step) = "report"
  BY DEF NextStep, What

\* Whatever a file holds reads as a mode, or as a state of the switch.
LEMMA ReadsTyped ==
    /\ \A file : ModeIn(file) \in Mode
    /\ \A file : SwitchIn(file) \in {"ON", "OFF"}
    /\ \A m \in Mode : ModeIn(m) = m
  BY DEF ModeIn, SwitchIn, Mode

LEMMA WantedTyped ==
    \A what : Wanted(what) \in {"ON", "OFF"} /\ SwitchIn(Wanted(what)) = Wanted(what)
  BY DEF Wanted, SwitchIn

-----------------------------------------------------------------------------
LEMMA TypeInit == Init => TypeOK
<1> SUFFICES ASSUME Init PROVE TypeOK
  OBVIOUS
<1>1. cmd \in [Operator -> Command]
  BY DEF Init, NoCommand, Command, What, Mode
<1>2. sel \in [Selector -> Selection]
  BY DEF Init, Selection, Mode
<1>3. log \in Seq(Fragment) /\ Len(log) <= MaxRows
  BY ControlAssumption DEF Init
<1>4. issued \in 0..MaxCommands /\ short \in Nat
  BY ControlAssumption DEF Init
<1>5. /\ modeFile \in Mode \cup {"none", "linked"}
      /\ switchFile \in {"ON", "OFF", "none", "linked"}
  BY DEF Init, Mode
<1> QED
  BY <1>1, <1>2, <1>3, <1>4, <1>5 DEF TypeOK

\* The parts of the type invariant that a step of one process changes.
LEMMA PartsTyped ==
    ASSUME TypeOK
    PROVE  /\ cmd \in [Operator -> Command]
           /\ sel \in [Selector -> Selection]
           /\ issued \in Nat
           /\ log \in Seq(Fragment)
           /\ short \in Nat
  BY ControlAssumption DEF TypeOK

\* One selection, or one command, goes on.
LEMMA SelectorType ==
    ASSUME sel \in [Selector -> Selection], NEW s \in Selector, NEW new \in Selection,
           sel' = [sel EXCEPT ![s] = new]
    PROVE  sel' \in [Selector -> Selection]
  OBVIOUS

LEMMA OperatorType ==
    ASSUME cmd \in [Operator -> Command], NEW o \in Operator, NEW new \in Command,
           cmd' = [cmd EXCEPT ![o] = new]
    PROVE  cmd' \in [Operator -> Command]
  OBVIOUS

LEMMA TargetTyped ==
    ASSUME NEW c \in Command
    PROVE  Target(c) \in {"ON", "OFF"} \X Mode
  BY ReadsTyped, WantedTyped DEF Target, Command

\* What a write does to the commands and to the selections under way, whole or
\* cut short.
LEMMA Wrote ==
    ASSUME TypeOK, NEW o \in Operator, Done(o) \/ DoneCut(o)
    PROVE  /\ cmd' \in [Operator -> Command] /\ sel' \in [Selector -> Selection]
           /\ \A p \in Operator \ {o} : cmd'[p] = cmd[p]
           /\ cmd'[o].at = NextStep(cmd[o].what, cmd[o].at)
           /\ cmd'[o].what = cmd[o].what /\ cmd'[o].mode = cmd[o].mode
           /\ cmd'[o].alone = cmd[o].alone
           /\ IF Done(o) THEN cmd'[o].whole = cmd[o].whole /\ sel' = sel
              ELSE /\ cmd'[o].whole = FALSE
                   /\ \A s \in Selector : IF sel[s].at = "done" THEN sel'[s] = sel[s]
                                           ELSE sel'[s].met = "other" /\ sel'[s].at = sel[s].at
<1>1. /\ cmd[o] \in Command /\ cmd[o].what \in What
      /\ cmd \in [Operator -> Command] /\ sel \in [Selector -> Selection]
  BY DEF TypeOK, Command
<1> DEFINE step == NextStep(cmd[o].what, cmd[o].at)
<1>2. step \in {"mode", "switch", "report"}
  BY <1>1, NextStepTyped
<1>3. CASE Done(o)
  <2>1. cmd' = [cmd EXCEPT ![o] = [cmd[o] EXCEPT !.at = step]] /\ sel' = sel
    BY <1>1, <1>3 DEF Done
  <2> HIDE DEF step
  <2>2. /\ [cmd[o] EXCEPT !.at = step] \in Command /\ cmd'[o] = [cmd[o] EXCEPT !.at = step]
        /\ \A p \in Operator \ {o} : cmd'[p] = cmd[p]
    BY <1>1, <1>2, <2>1 DEF Command
  <2>3. /\ cmd'[o].at = step /\ cmd'[o].what = cmd[o].what /\ cmd'[o].mode = cmd[o].mode
        /\ cmd'[o].alone = cmd[o].alone /\ cmd'[o].whole = cmd[o].whole
    BY <1>1, <2>2 DEF Command
  <2> QED BY <1>1, <1>3, <2>1, <2>2, <2>3, OperatorType DEF step
<1>4. CASE ~Done(o)
  <2> DEFINE Hit(q) == IF q.at = "done" THEN q ELSE [ q EXCEPT !.met = "other" ]
  <2>1. /\ cmd' = [cmd EXCEPT ![o] = [cmd[o] EXCEPT !.at = step, !.whole = FALSE]]
        /\ sel' = [s \in Selector |-> Hit(sel[s])]
    BY <1>1, <1>4 DEF DoneCut
  <2>2. \A q \in Selection : /\ Hit(q) \in Selection
                             /\ IF q.at = "done" THEN Hit(q) = q
                                ELSE Hit(q).met = "other" /\ Hit(q).at = q.at
    BY DEF Selection
  <2> HIDE DEF step, Hit
  <2>3. /\ [cmd[o] EXCEPT !.at = step, !.whole = FALSE] \in Command
        /\ cmd'[o] = [cmd[o] EXCEPT !.at = step, !.whole = FALSE]
        /\ \A p \in Operator \ {o} : cmd'[p] = cmd[p]
    BY <1>1, <1>2, <2>1 DEF Command
  <2>4. /\ cmd'[o].at = step /\ cmd'[o].what = cmd[o].what /\ cmd'[o].mode = cmd[o].mode
        /\ cmd'[o].alone = cmd[o].alone /\ cmd'[o].whole = FALSE
    BY <1>1, <2>3 DEF Command
  <2>5. /\ sel' \in [Selector -> Selection]
        /\ \A s \in Selector : IF sel[s].at = "done" THEN sel'[s] = sel[s]
                                ELSE sel'[s].met = "other" /\ sel'[s].at = sel[s].at
    BY <1>1, <2>1, <2>2
  <2> QED BY <1>1, <1>4, <2>1, <2>3, <2>4, <2>5, OperatorType DEF step
<1> QED BY <1>3, <1>4

LEMMA TypeStep == TypeOK /\ [Next]_vars => TypeOK'
<1> SUFFICES ASSUME TypeOK, [Next]_vars PROVE TypeOK'
  OBVIOUS
<1>1. ASSUME NEW o \in Operator, Issue(o) PROVE TypeOK'
  <2>1. PICK d \in Commands :
          cmd' = [p \in Operator |->
                    IF p = o
                    THEN [ NoCommand EXCEPT !.at = NextStep(d[1], "begin"),
                             !.what = d[1], !.mode = d[2],
                             !.alone = \A r \in Operator \ {o} : ~Running(r) ]
                    ELSE [ cmd[p] EXCEPT !.alone = FALSE ]]
    BY <1>1 DEF Issue
  <2>2. d[1] \in What /\ d[2] \in Mode
    BY DEF Commands, What, Mode
  <2>3. NextStep(d[1], "begin") \in {"mode", "switch", "report"}
    BY <2>2, NextStepTyped
  <2>4. issued \in Nat
    BY ControlAssumption DEF TypeOK
  <2> DEFINE lone == \A r \in Operator \ {o} : ~Running(r)
             step == NextStep(d[1], "begin")
  <2>5. [ NoCommand EXCEPT !.at = step, !.what = d[1], !.mode = d[2],
             !.alone = lone ] \in Command
    <3>1. lone \in BOOLEAN
      OBVIOUS
    <3>2. step \in {"mode", "switch", "report"}
      BY <2>3
    <3>3. NoCommand.told \in {"ON", "OFF", "unsaid"} \X Mode
      BY DEF NoCommand, Mode
    <3> HIDE DEF lone, step
    <3> QED BY <2>2, <3>1, <3>2, <3>3 DEF NoCommand, Command
  <2>6. \A p \in Operator : [cmd[p] EXCEPT !.alone = FALSE] \in Command
    <3>1. ASSUME NEW c \in Command PROVE [c EXCEPT !.alone = FALSE] \in Command
      BY DEF Command
    <3> QED BY <3>1, PartsTyped
  <2>7. cmd' \in [Operator -> Command]
    BY <2>1, <2>5, <2>6
  <2>9. sel' \in [Selector -> Selection]
    <3> DEFINE to == Target(cmd'[o])
    <3>1. to \in {"ON", "OFF"} \X Mode
      BY <2>7, TargetTyped
    <3>2. sel' = [s \in Selector |->
                     IF sel[s].at = "done" THEN sel[s]
                     ELSE [ sel[s] EXCEPT !.pairs = @ \cup {to},
                              !.met = IF @ = "none" THEN "one" ELSE "other" ]]
      BY <1>1 DEF Issue
    <3> HIDE DEF to
    <3>3. ASSUME NEW q \in Selection
          PROVE  [ q EXCEPT !.pairs = @ \cup {to},
                     !.met = IF @ = "none" THEN "one" ELSE "other" ] \in Selection
      BY <3>1 DEF Selection
    <3> QED BY <3>2, <3>3, PartsTyped
  <2>10. issued' \in 0..MaxCommands
    <3>1. issued < MaxCommands /\ issued' = issued + 1
      BY <1>1 DEF Issue
    <3> QED BY <2>4, <3>1, ControlAssumption
  <2> QED BY <1>1, <2>7, <2>9, <2>10 DEF Issue, TypeOK
<1>2. ASSUME NEW o \in Operator, WriteMode(o) PROVE TypeOK'
  <2>1. cmd[o] \in Command /\ cmd[o].mode \in Mode
    BY DEF TypeOK, Command
  <2>4. cmd' \in [Operator -> Command] /\ sel' \in [Selector -> Selection]
    BY <1>2, Wrote DEF WriteMode
  <2> QED BY <1>2, <2>1, <2>4 DEF WriteMode, TypeOK
<1>3. ASSUME NEW o \in Operator, WriteSwitch(o) PROVE TypeOK'
  <2>4. cmd' \in [Operator -> Command] /\ sel' \in [Selector -> Selection]
    BY <1>3, Wrote DEF WriteSwitch
  <2> QED BY <1>3, <2>4, WantedTyped DEF WriteSwitch, TypeOK
<1>4. ASSUME NEW o \in Operator, Fail(o) PROVE TypeOK'
  <2>1. ASSUME NEW c \in Command PROVE [c EXCEPT !.at = "failed"] \in Command
    BY DEF Command
  <2>2. cmd' = [cmd EXCEPT ![o] = [cmd[o] EXCEPT !.at = "failed"]]
    BY <1>4 DEF Fail
  <2>3. cmd' \in [Operator -> Command]
    BY <2>1, <2>2, PartsTyped, OperatorType
  <2> QED BY <1>4, <2>3 DEF Fail, TypeOK
<1>5. ASSUME NEW o \in Operator, Report(o) PROVE TypeOK'
  <2> DEFINE end == IF Confirmed(cmd[o]) THEN "ok" ELSE "failed"
             line == Told(cmd[o])
  <2>1. cmd[o].what \in What /\ cmd[o].mode \in Mode
    BY DEF TypeOK, Command
  <2>2. line \in {"ON", "OFF", "unsaid"} \X Mode
    BY <2>1, ReadsTyped, WantedTyped DEF Told, What
  <2>3. end \in {"ok", "failed"}
    OBVIOUS
  <2>4. cmd' = [cmd EXCEPT ![o] = [cmd[o] EXCEPT !.at = end, !.told = line]]
    BY <1>5, PartsTyped DEF Report
  <2> HIDE DEF end, line
  <2>5. ASSUME NEW c \in Command PROVE [c EXCEPT !.at = end, !.told = line] \in Command
    BY <2>2, <2>3 DEF Command
  <2>6. cmd' \in [Operator -> Command]
    BY <2>4, <2>5, PartsTyped, OperatorType
  <2> QED BY <1>5, <2>6 DEF Report, TypeOK
<1>6. ASSUME NEW s \in Selector, Begin(s) PROVE TypeOK'
  <2> DEFINE pairs == {InForce} \cup {Target(cmd[o]) : o \in About}
  <2>1. PICK q \in Requests :
          sel' = [sel EXCEPT ![s] =
                    [ at |-> "switch", ask |-> q, on |-> "OFF", mode |-> "SolMode",
                      pairs |-> pairs, met |-> Met ]]
    BY <1>6 DEF Begin
  <2>2. pairs \in SUBSET ({"ON", "OFF"} \X Mode)
    <3>1. InForce \in {"ON", "OFF"} \X Mode
      BY ReadsTyped DEF InForce
    <3>2. \A o \in About : Target(cmd[o]) \in {"ON", "OFF"} \X Mode
      BY TargetTyped, PartsTyped DEF About
    <3> QED BY <3>1, <3>2
  <2>3. Met \in {"none", "one", "other"}
    BY DEF Met
  <2> HIDE DEF pairs
  <2>4. [ at |-> "switch", ask |-> q, on |-> "OFF", mode |-> "SolMode", pairs |-> pairs,
          met |-> Met ] \in Selection
    BY <2>2, <2>3 DEF Selection, Mode
  <2>5. sel' \in [Selector -> Selection]
    BY <2>1, <2>4 DEF TypeOK
  <2> QED BY <1>6, <2>5 DEF Begin, Quiet, TypeOK
<1>7. ASSUME NEW s \in Selector, ReadSwitch(s) PROVE TypeOK'
  <2> DEFINE new == [sel[s] EXCEPT !.at = "mode", !.on = SwitchIn(switchFile)]
  <2>1. sel[s] \in Selection
    BY PartsTyped
  <2>2. new \in Selection
    BY <2>1, ReadsTyped DEF Selection
  <2>3. sel' = [sel EXCEPT ![s] = new]
    BY <1>7, PartsTyped DEF ReadSwitch
  <2> HIDE DEF new
  <2>4. sel' \in [Selector -> Selection]
    BY <2>2, <2>3, PartsTyped, SelectorType
  <2> QED BY <1>7, <2>4 DEF ReadSwitch, Quiet, TypeOK
<1>8. ASSUME NEW s \in Selector, ReadMode(s) PROVE TypeOK'
  <2> DEFINE new == [sel[s] EXCEPT !.at = IF sel[s].on = "ON" THEN "append" ELSE "done", !.mode = ModeIn(modeFile)]
  <2>1. sel[s] \in Selection
    BY PartsTyped
  <2>2. new \in Selection
    BY <2>1, ReadsTyped DEF Selection
  <2>3. sel' = [sel EXCEPT ![s] = new]
    BY <1>8, PartsTyped DEF ReadMode
  <2> HIDE DEF new
  <2>4. sel' \in [Selector -> Selection]
    BY <2>2, <2>3, PartsTyped, SelectorType
  <2> QED BY <1>8, <2>4 DEF ReadMode, Quiet, TypeOK
<1>9. ASSUME NEW s \in Selector, AppendEvent(s) PROVE TypeOK'
  <2>1. sel' \in [Selector -> Selection]
    <3>1. [sel[s] EXCEPT !.at = "done"] \in Selection
      BY PartsTyped DEF Selection
    <3>2. sel' = [sel EXCEPT ![s] = [sel[s] EXCEPT !.at = "done"]]
      BY <1>9 DEF AppendEvent
    <3> QED BY <3>1, <3>2, PartsTyped, SelectorType
  <2>2. Line \in Fragment /\ \A cut \in CutLine : cut \in Fragment
    <3>1. ASSUME NEW b \in BOOLEAN, NEW c \in BOOLEAN
          PROVE  [complete |-> b, newline |-> c] \in Fragment
      BY DEF Fragment
    <3>2. Line \in Fragment
      BY <3>1 DEF Line
    <3>3. \A cut \in CutLine : cut \in Fragment
      BY <3>1, Zenon DEF CutLine
    <3> QED BY <3>2, <3>3
  <2>3. ASSUME NEW f \in Fragment
        PROVE  Append(log, f) \in Seq(Fragment) /\ Len(Append(log, f)) = Len(log) + 1
    BY PartsTyped
  <2>4. log' \in Seq(Fragment) /\ Len(log') <= MaxRows
    <3>1. PICK f \in Fragment : log' = Append(log, f)
      BY <1>9, <2>2 DEF AppendEvent
    <3>2. Len(log) \in Nat /\ Len(log) < MaxRows
      BY <1>9, PartsTyped DEF AppendEvent
    <3> QED BY <2>3, <3>1, <3>2, ControlAssumption
  <2>5. short' \in Nat
    BY <1>9 DEF AppendEvent, TypeOK
  <2> QED BY <1>9, <2>1, <2>4, <2>5 DEF AppendEvent, Quiet, TypeOK
<1>10. ASSUME NEW s \in Selector, SkipEvent(s) PROVE TypeOK'
  <2>1. sel' \in [Selector -> Selection]
    <3>1. [sel[s] EXCEPT !.at = "done"] \in Selection
      BY PartsTyped DEF Selection
    <3>2. sel' = [sel EXCEPT ![s] = [sel[s] EXCEPT !.at = "done"]]
      BY <1>10 DEF SkipEvent
    <3> QED BY <3>1, <3>2, PartsTyped, SelectorType
  <2> QED BY <1>10, <2>1 DEF SkipEvent, Quiet, TypeOK
<1>11. CASE UNCHANGED vars
  BY <1>11 DEF vars, TypeOK
<1> QED
  BY <1>1, <1>2, <1>3, <1>4, <1>5, <1>6, <1>7, <1>8, <1>9, <1>10, <1>11 DEF Next, Run, Select

\* The files, the commands, the selections and the log keep their types, for
\* any number of operators and selections.
THEOREM ControlTypeCorrect == Spec => []TypeOK
<1> QED
  BY TypeInit, TypeStep, PTL DEF Spec

-----------------------------------------------------------------------------
(* One command, one pair.                                                  *)

\* A command that runs alone is the only one that runs; the write it is at is
\* one of its own; and use has written its mode, if the disk took it whole, when
\* it comes to the switch.
Undisturbed(o) ==
    LET c == cmd[o]
    IN  Running(o) =>
          /\ c.alone => \A p \in Operator : Running(p) => p = o
          /\ c.at = "mode" => c.what \in {"mode", "use", "set"}
          /\ c.at = "switch" => c.what \in {"on", "off", "use"}
          /\ c.at = "switch" /\ c.what = "use" /\ c.alone /\ c.whole => ModeIn(modeFile) = c.mode

\* What a selection knows while it is under way and at most one command was
\* about.  The second clause is the point: once it has read ON, the mode it
\* will read is one that goes with ON; for if the switch has gone OFF since,
\* that one command was off and writes nothing more.
Knows(s) ==
    LET q == sel[s]
    IN  /\ q.at # "done" /\ q.met # "other" =>
              /\ \A o \in Operator : Running(o) =>
                    /\ q.met = "one" /\ cmd[o].alone /\ cmd[o].whole
                    /\ Target(cmd[o]) \in q.pairs
              /\ SwitchIn(switchFile) = "ON" => InForce \in q.pairs
        /\ q.at = "mode" /\ q.on = "ON" /\ q.met # "other" =>
              /\ <<"ON", ModeIn(modeFile)>> \in q.pairs
              /\ q.met = "none" => SwitchIn(switchFile) = "ON"
              /\ SwitchIn(switchFile) # "ON" =>
                    \A o \in Operator : cmd[o].at \notin {"mode", "switch"}
        /\ q.at \in {"append", "done"} /\ q.on = "ON" /\ q.met # "other" =>
              <<"ON", q.mode>> \in q.pairs

PairInv ==
    /\ TypeOK
    /\ \A o \in Operator : Undisturbed(o)
    /\ \A s \in Selector : Knows(s)

LEMMA PairInit == Init => PairInv
<1> SUFFICES ASSUME Init PROVE PairInv
  OBVIOUS
<1>1. \A o \in Operator : ~Running(o)
  BY DEF Init, NoCommand, Running
<1>2. \A s \in Selector : sel[s].at = "done" /\ sel[s].on = "OFF"
  BY DEF Init
<1> QED
  BY <1>1, <1>2, TypeInit DEF PairInv, Undisturbed, Knows

\* What issuing a command does to the commands and to one selection.
LEMMA Issued ==
    ASSUME TypeOK, NEW o \in Operator, Issue(o)
    PROVE  /\ \A p \in Operator \ {o} :
                 /\ cmd'[p].at = cmd[p].at /\ cmd'[p].alone = FALSE
                 /\ cmd'[p].what = cmd[p].what /\ cmd'[p].mode = cmd[p].mode
           /\ cmd'[o].at = "mode" => cmd'[o].what \in {"mode", "use", "set"}
           /\ cmd'[o].at = "switch" => cmd'[o].what \in {"on", "off"}
           /\ cmd'[o].alone <=> \A p \in Operator \ {o} : ~Running(p)
           /\ cmd'[o].whole
           /\ \A s \in Selector :
                 IF sel[s].at = "done" THEN sel'[s] = sel[s]
                 ELSE /\ sel'[s].at = sel[s].at /\ sel'[s].on = sel[s].on
                      /\ sel'[s].mode = sel[s].mode
                      /\ sel'[s].pairs = sel[s].pairs \cup {Target(cmd'[o])}
                      /\ sel'[s].met = IF sel[s].met = "none" THEN "one" ELSE "other"
<1>t. sel \in [Selector -> Selection] /\ cmd \in [Operator -> Command]
  BY PartsTyped
<1>1. ASSUME NEW p \in Operator \ {o}
      PROVE  /\ cmd'[p].at = cmd[p].at /\ cmd'[p].alone = FALSE
             /\ cmd'[p].what = cmd[p].what /\ cmd'[p].mode = cmd[p].mode
  <2>1. cmd'[p] = [cmd[p] EXCEPT !.alone = FALSE] /\ cmd[p] \in Command
    BY <1>t DEF Issue
  <2> QED BY <2>1 DEF Command
<1>2. /\ cmd'[o].at = "mode" => cmd'[o].what \in {"mode", "use", "set"}
      /\ cmd'[o].at = "switch" => cmd'[o].what \in {"on", "off"}
      /\ cmd'[o].alone <=> \A p \in Operator \ {o} : ~Running(p)
      /\ cmd'[o].whole
  <2> DEFINE lone == \A r \in Operator \ {o} : ~Running(r)
  <2>1. PICK d \in Commands :
          cmd'[o] = [ NoCommand EXCEPT !.at = NextStep(d[1], "begin"),
                        !.what = d[1], !.mode = d[2], !.alone = lone ]
    BY DEF Issue
  <2>2. /\ cmd'[o].at = NextStep(d[1], "begin") /\ cmd'[o].what = d[1]
        /\ cmd'[o].alone = lone /\ cmd'[o].whole
    <3> HIDE DEF lone
    <3> QED BY <2>1 DEF NoCommand
  <2>3. d[1] \in What
    BY DEF Commands, What
  <2> QED BY <2>2, <2>3 DEF NextStep, What
<1>3. ASSUME NEW s \in Selector
      PROVE  IF sel[s].at = "done" THEN sel'[s] = sel[s]
             ELSE /\ sel'[s].at = sel[s].at /\ sel'[s].on = sel[s].on
                  /\ sel'[s].mode = sel[s].mode
                  /\ sel'[s].pairs = sel[s].pairs \cup {Target(cmd'[o])}
                  /\ sel'[s].met = IF sel[s].met = "none" THEN "one" ELSE "other"
  <2> DEFINE to == Target(cmd'[o])
  <2>1. /\ sel[s] \in Selection
        /\ sel'[s] = IF sel[s].at = "done" THEN sel[s]
                     ELSE [ sel[s] EXCEPT !.pairs = @ \cup {to},
                              !.met = IF @ = "none" THEN "one" ELSE "other" ]
    BY <1>t DEF Issue
  <2> HIDE DEF to
  <2> QED BY <2>1 DEF Selection, to
<1> QED BY <1>1, <1>2, <1>3

LEMMA IssueKeepsPairInv ==
    ASSUME PairInv, NEW o \in Operator, Issue(o)
    PROVE  /\ \A p \in Operator : Undisturbed(p)'
           /\ \A s \in Selector : Knows(s)'
<1>t. TypeOK
  BY DEF PairInv
<1>u. modeFile' = modeFile /\ switchFile' = switchFile /\ ~Running(o)
  BY DEF Issue
<1>1. ASSUME NEW p \in Operator PROVE Undisturbed(p)'
  <2>1. Undisturbed(p) /\ (cmd'[o].at = "switch" => cmd'[o].what # "use")
    BY <1>t, Issued DEF PairInv
  <2>2. CASE p = o
    <3>1. cmd'[o].alone => \A q \in Operator : Running(q)' => q = o
      BY <1>t, Issued DEF Running
    <3>2. /\ cmd'[o].at = "mode" => cmd'[o].what \in {"mode", "use", "set"}
          /\ cmd'[o].at = "switch" => cmd'[o].what \in {"on", "off"}
      BY <1>t, Issued
    <3> QED BY <2>2, <3>1, <3>2 DEF Undisturbed
  <2>3. CASE p # o
    <3>1. /\ cmd'[p].at = cmd[p].at /\ cmd'[p].alone = FALSE /\ cmd'[p].what = cmd[p].what
      BY <1>t, <2>3, Issued
    <3> QED BY <2>1, <3>1 DEF Undisturbed, Running
  <2> QED BY <2>2, <2>3
<1>2. ASSUME NEW s \in Selector PROVE Knows(s)'
  <2>0. Knows(s)
    BY DEF PairInv
  <2>1. CASE sel[s].at = "done"
    <3>1. sel'[s] = sel[s]
      BY <1>t, <2>1, Issued
    <3> QED BY <2>0, <2>1, <3>1 DEF Knows
  <2>2. CASE sel[s].at # "done" /\ sel[s].met # "none"
    <3>1. sel'[s].met = "other"
      BY <1>t, <2>2, Issued
    <3> QED BY <3>1 DEF Knows
  <2>3. CASE sel[s].at # "done" /\ sel[s].met = "none"
    <3>1. /\ sel'[s].at = sel[s].at /\ sel'[s].on = sel[s].on
          /\ sel'[s].mode = sel[s].mode /\ sel'[s].met = "one"
          /\ sel'[s].pairs = sel[s].pairs \cup {Target(cmd'[o])}
      BY <1>t, <2>3, Issued
    <3>2. \A p \in Operator : ~Running(p)
      BY <2>0, <2>3 DEF Knows
    <3>3. \A p \in Operator : Running(p)' => p = o
      BY <1>t, <3>2, Issued DEF Running
    <3>4. cmd'[o].alone /\ cmd'[o].whole
      BY <1>t, <3>2, Issued
    <3>5. Target(cmd[o])' = Target(cmd'[o])
      BY <1>u DEF Target
    <3>6. /\ SwitchIn(switchFile) = "ON" => InForce \in sel[s].pairs
          /\ sel[s].at = "mode" /\ sel[s].on = "ON" =>
                <<"ON", ModeIn(modeFile)>> \in sel[s].pairs /\ SwitchIn(switchFile) = "ON"
          /\ sel[s].at = "append" /\ sel[s].on = "ON" =>
                <<"ON", sel[s].mode>> \in sel[s].pairs
      BY <2>0, <2>3 DEF Knows
    <3>7. InForce' = InForce
      BY <1>u DEF InForce
    <3>8. /\ \A p \in Operator : Running(p)' =>
                cmd'[p].alone /\ cmd'[p].whole /\ Target(cmd[p])' \in sel'[s].pairs
          /\ SwitchIn(switchFile') = "ON" => InForce' \in sel'[s].pairs
      BY <1>u, <3>1, <3>3, <3>4, <3>5, <3>6, <3>7
    <3> QED BY <1>u, <2>3, <3>1, <3>6, <3>8 DEF Knows
  <2> QED BY <2>1, <2>2, <2>3
<1> QED BY <1>1, <1>2

\* What the other steps of a command do: one write of its own, or its end.  The
\* file a cut write leaves is invalid, the command is whole no more, and of the
\* selections under way nothing is claimed any longer.
LEMMA Stepped ==
    ASSUME PairInv, NEW o \in Operator, Run(o), ~Issue(o)
    PROVE  /\ Running(o)
           /\ \A p \in Operator \ {o} : cmd'[p] = cmd[p]
           /\ \A p \in Operator : Running(p)' => Running(p)
           /\ cmd'[o].what = cmd[o].what /\ cmd'[o].mode = cmd[o].mode
           /\ cmd'[o].alone = cmd[o].alone
           /\ \/ cmd'[o].whole = cmd[o].whole /\ sel' = sel
              \/ /\ cmd'[o].whole = FALSE
                   /\ \A s \in Selector : IF sel[s].at = "done" THEN sel'[s] = sel[s]
                                           ELSE sel'[s].met = "other" /\ sel'[s].at = sel[s].at
           /\ \/ /\ cmd[o].at = "mode" /\ switchFile' = switchFile
                 /\ ModeIn(modeFile') = cmd[o].mode \/ cmd'[o].whole = FALSE
                 /\ cmd[o].what \in {"mode", "use", "set"}
                 /\ cmd'[o].at = IF cmd[o].what = "use" THEN "switch" ELSE "report"
              \/ /\ cmd[o].at = "switch" /\ modeFile' = modeFile
                 /\ \/ SwitchIn(switchFile') = Wanted(cmd[o].what)
                    \/ SwitchIn(switchFile') = "OFF" /\ cmd'[o].whole = FALSE
                 /\ cmd[o].what \in {"on", "off", "use"}
                 /\ cmd'[o].at = "report"
              \/ /\ modeFile' = modeFile /\ switchFile' = switchFile
                 /\ cmd'[o].whole = cmd[o].whole /\ sel' = sel
                 /\ cmd'[o].at \in {"ok", "failed"}
<1>t. /\ TypeOK /\ cmd \in [Operator -> Command] /\ cmd[o] \in Command
      /\ cmd[o].what \in What /\ cmd[o].mode \in Mode
  BY PartsTyped DEF PairInv, Command
<1>w. Undisturbed(o)
  BY DEF PairInv
<1>1. Running(o)
  BY DEF Run, WriteMode, WriteSwitch, Fail, Report, Running
<1>4. CASE WriteMode(o)
  <2>0. cmd[o].at = "mode" /\ (Done(o) \/ DoneCut(o)) /\ switchFile' = switchFile
    BY <1>4 DEF WriteMode
  <2>1. cmd'[o].at = NextStep(cmd[o].what, "mode")
    BY <1>t, <2>0, Wrote
  <2>2. cmd[o].what \in {"mode", "use", "set"}
    BY <1>1, <1>w, <2>0 DEF Undisturbed
  <2>3. cmd'[o].at = IF cmd[o].what = "use" THEN "switch" ELSE "report"
    BY <2>1, <2>2 DEF NextStep
  <2>4. ModeIn(modeFile') = cmd[o].mode \/ cmd'[o].whole = FALSE
    <3>1. CASE Done(o) /\ modeFile' = cmd[o].mode
      BY <1>t, <3>1, ReadsTyped
    <3>2. CASE DoneCut(o)
      BY <1>t, <3>2 DEF DoneCut, Command
    <3> QED BY <1>4, <3>1, <3>2 DEF WriteMode
  <2> QED BY <1>1, <1>t, <2>0, <2>2, <2>3, <2>4, Wrote DEF Running
<1>5. CASE WriteSwitch(o)
  <2>0. cmd[o].at = "switch" /\ (Done(o) \/ DoneCut(o)) /\ modeFile' = modeFile
    BY <1>5 DEF WriteSwitch
  <2>1. cmd'[o].at = NextStep(cmd[o].what, "switch")
    BY <1>t, <2>0, Wrote
  <2>2. cmd[o].what \in {"on", "off", "use"} /\ cmd'[o].at = "report"
    BY <1>1, <1>t, <1>w, <2>0, <2>1, NextStepTyped DEF Undisturbed
  <2>3. \/ SwitchIn(switchFile') = Wanted(cmd[o].what)
        \/ SwitchIn(switchFile') = "OFF" /\ cmd'[o].whole = FALSE
    <3>1. CASE Done(o) /\ switchFile' = Wanted(cmd[o].what)
      BY <3>1, WantedTyped
    <3>2. CASE switchFile' = "none" /\ DoneCut(o)
      BY <1>t, <3>2 DEF DoneCut, Command, SwitchIn
    <3> QED BY <1>5, <3>1, <3>2 DEF WriteSwitch
  <2> QED BY <1>1, <1>t, <2>0, <2>2, <2>3, Wrote DEF Running
<1>6. CASE Fail(o) \/ Report(o)
  <2>1. /\ cmd'[o].at \in {"ok", "failed"} /\ modeFile' = modeFile /\ switchFile' = switchFile
        /\ sel' = sel /\ \A p \in Operator \ {o} : cmd'[p] = cmd[p]
        /\ cmd'[o].what = cmd[o].what /\ cmd'[o].mode = cmd[o].mode
        /\ cmd'[o].alone = cmd[o].alone /\ cmd'[o].whole = cmd[o].whole
    BY <1>t, <1>6 DEF Fail, Report, Command
  <2> QED BY <1>1, <2>1 DEF Running
<1> QED BY <1>4, <1>5, <1>6 DEF Run

LEMMA StepKeepsPairInv ==
    ASSUME PairInv, NEW o \in Operator, Run(o), ~Issue(o)
    PROVE  /\ \A p \in Operator : Undisturbed(p)'
           /\ \A s \in Selector : Knows(s)'
<1>t. cmd[o] \in Command /\ cmd[o].mode \in Mode
  BY PartsTyped DEF PairInv, Command
<1>1. ASSUME NEW p \in Operator PROVE Undisturbed(p)'
  <2>0. Undisturbed(p) /\ Undisturbed(o)
    BY DEF PairInv
  <2>1. CASE p = o
    <3>1. ASSUME Running(o)', cmd'[o].alone PROVE \A q \in Operator : Running(q)' => q = o
      BY <2>0, <3>1, Stepped DEF Undisturbed
    <3>2. cmd'[o].at # "mode"
      BY Stepped
    <3>3. cmd'[o].at = "switch" =>
             /\ cmd'[o].what = "use"
             /\ ModeIn(modeFile') = cmd'[o].mode \/ cmd'[o].whole = FALSE
      BY Stepped
    <3> QED BY <2>1, <3>1, <3>2, <3>3 DEF Undisturbed
  <2>2. CASE p # o
    <3>1. cmd'[p] = cmd[p] /\ Running(o) /\ (Running(p)' => Running(p))
      BY <2>2, Stepped
    <3>2. Running(p)' => ~cmd'[p].alone
      BY <2>0, <2>2, <3>1 DEF Undisturbed
    <3> QED BY <2>0, <3>1, <3>2 DEF Undisturbed
  <2> QED BY <2>1, <2>2
<1>2. ASSUME NEW s \in Selector PROVE Knows(s)'
  <2>0. Knows(s) /\ Running(o)
    BY Stepped DEF PairInv
  <2>1. CASE sel'[s] # sel[s]
    <3>1. sel'[s].met = "other"
      BY <2>1, Stepped
    <3> QED BY <3>1 DEF Knows
  <2>3. CASE sel'[s] = sel[s] /\ (sel[s].at = "done" \/ sel[s].met = "other")
    BY <2>0, <2>3 DEF Knows
  <2>2. CASE sel'[s] = sel[s] /\ sel[s].at # "done" /\ sel[s].met # "other"
    <3>1. /\ sel[s].met = "one" /\ cmd[o].alone /\ cmd[o].whole
          /\ Target(cmd[o]) \in sel[s].pairs
          /\ SwitchIn(switchFile) = "ON" => InForce \in sel[s].pairs
      BY <2>0, <2>2 DEF Knows
    <3>w. cmd'[o].whole = cmd[o].whole /\ cmd'[o].whole # FALSE
      BY <2>2, <3>1, Stepped
    <3>2. /\ \A p \in Operator : Running(p) => p = o
          /\ cmd[o].at = "switch" /\ cmd[o].what = "use" => ModeIn(modeFile) = cmd[o].mode
      BY <2>0, <3>1 DEF Undisturbed, PairInv
    <3>3. Target(cmd[o])' = Target(cmd[o]) \/ ~Running(o)'
      <4>1. CASE cmd'[o].at \in {"ok", "failed"}
        BY <4>1 DEF Running
      <4>2. CASE cmd'[o].at \notin {"ok", "failed"}
        BY <4>2, Stepped DEF Target
      <4> QED BY <4>1, <4>2
    <3>4. SwitchIn(switchFile') = "ON" => InForce' \in sel[s].pairs
      <4>1. CASE cmd[o].at = "mode" /\ cmd'[o].at \notin {"ok", "failed"}
        <5>1. SwitchIn(switchFile') = "ON" => InForce' = Target(cmd[o])
          BY <3>w, <4>1, Stepped DEF InForce, Target, Wanted
        <5> QED BY <3>1, <5>1
      <4>2. CASE cmd[o].at = "switch" /\ cmd'[o].at \notin {"ok", "failed"}
        <5>1. InForce' = Target(cmd[o])
          BY <3>2, <3>w, <4>2, Stepped DEF InForce, Target
        <5> QED BY <3>1, <5>1
      <4>3. CASE cmd'[o].at \in {"ok", "failed"}
        BY <3>1, <4>3, Stepped DEF InForce
      <4> QED BY <4>1, <4>2, <4>3, Stepped
    <3>5. \A p \in Operator : Running(p)' =>
             /\ sel[s].met = "one" /\ cmd'[p].alone /\ cmd'[p].whole
             /\ Target(cmd[p])' \in sel[s].pairs
      <4>1. ASSUME NEW p \in Operator, Running(p)' PROVE p = o
        BY <3>2, <4>1, Stepped
      <4> QED BY <3>1, <3>3, <3>w, <4>1, Stepped
    <3>6. ASSUME sel[s].at = "mode", sel[s].on = "ON"
          PROVE  /\ <<"ON", ModeIn(modeFile')>> \in sel[s].pairs
                 /\ SwitchIn(switchFile') # "ON" =>
                       \A p \in Operator : cmd'[p].at \notin {"mode", "switch"}
      <4>0. /\ <<"ON", ModeIn(modeFile)>> \in sel[s].pairs
            /\ SwitchIn(switchFile) # "ON" =>
                  \A p \in Operator : cmd[p].at \notin {"mode", "switch"}
        BY <2>0, <2>2, <3>6 DEF Knows
      <4>1. CASE SwitchIn(switchFile') = "ON"
        <5>1. CASE modeFile' = modeFile
          BY <4>0, <4>1, <5>1
        <5>2. CASE modeFile' # modeFile
          <6>1. InForce' = <<"ON", ModeIn(modeFile')>>
            BY <4>1 DEF InForce
          <6> QED BY <3>4, <4>1, <6>1
        <5> QED BY <5>1, <5>2
      <4>2. CASE SwitchIn(switchFile') # "ON"
        <5>1. modeFile' = modeFile /\ cmd'[o].at \notin {"mode", "switch"}
          BY <4>0, <4>2, Stepped
        <5>2. \A p \in Operator : cmd'[p].at \in {"mode", "switch"} => p = o
          BY <3>2, Stepped DEF Running
        <5> QED BY <4>0, <5>1, <5>2
      <4> QED BY <4>1, <4>2
    <3>7. sel[s].at = "append" /\ sel[s].on = "ON" => <<"ON", sel[s].mode>> \in sel[s].pairs
      BY <2>0, <2>2 DEF Knows
    <3> QED BY <2>0, <2>2, <3>1, <3>4, <3>5, <3>6, <3>7 DEF Knows
  <2> QED BY <2>1, <2>2, <2>3
<1> QED BY <1>1, <1>2

LEMMA SelectKeepsPairInv ==
    ASSUME PairInv, NEW s \in Selector, Select(s)
    PROVE  /\ \A p \in Operator : Undisturbed(p)'
           /\ \A q \in Selector : Knows(q)'
<1>t. sel \in [Selector -> Selection] /\ cmd \in [Operator -> Command]
  BY PartsTyped DEF PairInv
<1>q. modeFile' = modeFile /\ switchFile' = switchFile /\ cmd' = cmd
  BY DEF Select, Begin, ReadSwitch, ReadMode, AppendEvent, SkipEvent, Quiet
<1>1. \A p \in Operator : Undisturbed(p)'
  BY <1>q DEF PairInv, Undisturbed, Running
<1>2. ASSUME NEW q \in Selector, q # s PROVE Knows(q)'
  <2>1. sel'[q] = sel[q]
    BY <1>t, <1>2 DEF Select, Begin, ReadSwitch, ReadMode, AppendEvent, SkipEvent
  <2>2. Knows(q)
    BY DEF PairInv
  <2> QED BY <1>q, <2>1, <2>2 DEF Knows, Running, InForce, Target
<1>3. Knows(s)'
  <2>0. Knows(s) /\ sel[s] \in Selection
    BY <1>t DEF PairInv
  <2>1. CASE Begin(s)
    <3> DEFINE pairs == {InForce} \cup {Target(cmd[o]) : o \in About}
    <3>1. sel'[s].at = "switch" /\ sel'[s].pairs = pairs /\ sel'[s].met = Met
      BY <1>t, <2>1 DEF Begin
    <3>2. ASSUME NEW o \in Operator, Running(o), Met # "other"
          PROVE  Met = "one" /\ cmd[o].alone /\ cmd[o].whole /\ Target(cmd[o]) \in pairs
      <4>1. o \in About
        BY <3>2 DEF About
      <4>2. PICK p \in About : cmd[p].alone /\ cmd[p].whole
        BY <3>2, <4>1 DEF Met
      <4>3. o = p
        BY <3>2, <4>2 DEF About, PairInv, Undisturbed
      <4> QED BY <4>1, <4>2, <4>3 DEF Met
    <3>3. InForce \in pairs
      OBVIOUS
    <3> HIDE DEF pairs
    <3> QED BY <1>q, <3>1, <3>2, <3>3 DEF Knows, Running, InForce, Target
  <2>2. CASE ReadSwitch(s)
    <3>1. /\ sel'[s].at = "mode" /\ sel'[s].on = SwitchIn(switchFile)
          /\ sel'[s].pairs = sel[s].pairs /\ sel'[s].met = sel[s].met
          /\ sel[s].at = "switch"
      BY <1>t, <2>0, <2>2 DEF ReadSwitch, Selection
    <3>2. SwitchIn(switchFile) = "ON" => InForce = <<"ON", ModeIn(modeFile)>>
      BY DEF InForce
    <3> QED BY <1>q, <2>0, <3>1, <3>2 DEF Knows, Running, InForce, Target
  <2>3. CASE ReadMode(s)
    <3>1. /\ sel'[s].at \in {"append", "done"} /\ sel'[s].on = sel[s].on
          /\ sel'[s].mode = ModeIn(modeFile)
          /\ sel'[s].pairs = sel[s].pairs /\ sel'[s].met = sel[s].met
          /\ sel[s].at = "mode"
      BY <1>t, <2>0, <2>3 DEF ReadMode, Selection
    <3> QED BY <1>q, <2>0, <3>1 DEF Knows, Running, InForce, Target
  <2>4. CASE AppendEvent(s) \/ SkipEvent(s)
    <3>1. /\ sel'[s].at = "done" /\ sel[s].at = "append"
          /\ sel'[s].on = sel[s].on /\ sel'[s].mode = sel[s].mode
          /\ sel'[s].pairs = sel[s].pairs /\ sel'[s].met = sel[s].met
      BY <1>t, <2>0, <2>4 DEF AppendEvent, SkipEvent, Selection
    <3> QED BY <1>q, <2>0, <3>1 DEF Knows
  <2> QED BY <2>1, <2>2, <2>3, <2>4 DEF Select
<1> QED BY <1>1, <1>2, <1>3

LEMMA PairStep == PairInv /\ [Next]_vars => PairInv'
<1> SUFFICES ASSUME PairInv, [Next]_vars PROVE PairInv'
  OBVIOUS
<1>1. TypeOK'
  BY TypeStep DEF PairInv
<1>2. ASSUME NEW o \in Operator, Run(o)
      PROVE  (\A p \in Operator : Undisturbed(p)') /\ (\A s \in Selector : Knows(s)')
  BY <1>2, IssueKeepsPairInv, StepKeepsPairInv
<1>3. ASSUME NEW s \in Selector, Select(s)
      PROVE  (\A p \in Operator : Undisturbed(p)') /\ (\A q \in Selector : Knows(q)')
  BY <1>3, SelectKeepsPairInv
<1>4. CASE UNCHANGED vars
  BY <1>1, <1>4 DEF vars, PairInv, Undisturbed, Knows, Running, InForce, Target
<1> QED
  BY <1>1, <1>2, <1>3, <1>4 DEF Next, PairInv

\* A selection that overlaps one undisturbed command at most, whose writes the
\* disk takes whole, is routed under the mode that was in force, or that the
\* command is to leave, together with ON: whatever ran before, cut writes
\* included, and however many operators and selections run.
THEOREM OneCommandOnePairHolds == Spec => []OneCommandOnePair
<1>1. PairInv => OneCommandOnePair
  BY DEF PairInv, Knows, OneCommandOnePair, Answered
<1> QED
  BY <1>1, PairInit, PairStep, PTL DEF Spec

-----------------------------------------------------------------------------
(* What a command prints.                                                  *)

\* What o's command has printed is what the files say.
ToldTruth(o) ==
    /\ cmd[o].told[1] \in {"unsaid", SwitchIn(switchFile)}
    /\ cmd[o].told[2] = ModeIn(modeFile)

\* While no other command has been issued since, nobody else is about, also when
\* o's own command is at its end; each file it was to write holds what it wrote,
\* if the disk took it whole, when it comes to print, and after off the switch
\* reads OFF in any case; and what it printed stays true.
Unspoilt(o) ==
    LET c == cmd[o]
    IN  c.alone =>
          /\ \A p \in Operator : Running(p) => p = o
          /\ c.at = "report" =>
                /\ (c.what \in {"on", "use"} /\ c.whole) \/ c.what = "off" =>
                      SwitchIn(switchFile) = Wanted(c.what)
                /\ c.what \in {"mode", "use", "set"} /\ c.whole => ModeIn(modeFile) = c.mode
          /\ c.at = "ok" /\ (c.whole \/ c.what \in Forgiving) => ToldTruth(o)

TruthInv == \A o \in Operator : Unspoilt(o)

LEMMA TruthInit == Init => TruthInv
  BY DEF Init, TruthInv, Unspoilt, NoCommand

\* A command that is issued spoils every other; its own has written nothing.
LEMMA IssueKeepsTruth ==
    ASSUME PairInv, TruthInv, NEW o \in Operator, Issue(o)
    PROVE  TruthInv'
<1>t. TypeOK
  BY DEF PairInv
<1> SUFFICES ASSUME NEW p \in Operator, cmd'[p].alone PROVE Unspoilt(p)'
  BY DEF TruthInv, Unspoilt
<1>1. p = o
  BY <1>t, Issued
<1>2. \A q \in Operator : Running(q)' => q = o
  BY <1>t, <1>1, Issued DEF Running
<1>3. cmd'[o].at \in {"mode", "switch"}
  <2>1. PICK d \in Commands :
          cmd'[o] = [ NoCommand EXCEPT !.at = NextStep(d[1], "begin"), !.what = d[1],
                        !.mode = d[2], !.alone = \A r \in Operator \ {o} : ~Running(r) ]
    BY DEF Issue
  <2>2. cmd'[o].at = NextStep(d[1], "begin")
    BY <2>1 DEF NoCommand
  <2> QED BY <2>2 DEF NextStep
<1> QED BY <1>1, <1>2, <1>3 DEF Unspoilt

\* A step of a command leaves what a finished command that is alone has printed
\* as it is: such a command has no other beside it.
LEMMA StepKeepsTruth ==
    ASSUME PairInv, TruthInv, NEW o \in Operator, Run(o), ~Issue(o)
    PROVE  TruthInv'
<1>t. /\ cmd \in [Operator -> Command] /\ cmd[o] \in Command
      /\ cmd[o].what \in What /\ cmd[o].mode \in Mode
  BY PartsTyped DEF PairInv, Command
<1> SUFFICES ASSUME NEW p \in Operator, cmd'[p].alone PROVE Unspoilt(p)'
  BY DEF TruthInv, Unspoilt
<1>1. p = o
  <2>1. CASE p # o
    <3>1. cmd'[p] = cmd[p] /\ Running(o)
      BY <2>1, Stepped
    <3> QED BY <3>1 DEF TruthInv, Unspoilt
  <2> QED BY <2>1
<1>2. cmd[o].alone /\ cmd'[o].what = cmd[o].what /\ cmd'[o].mode = cmd[o].mode
  BY <1>1, Stepped
<1>3. Undisturbed(o) /\ Unspoilt(o) /\ Running(o)
  BY Stepped DEF PairInv, TruthInv
<1>4. \A q \in Operator : Running(q)' => q = o
  BY <1>2, <1>3, Stepped DEF Unspoilt
<1>5. CASE Report(o)
  <2> DEFINE end == IF Confirmed(cmd[o]) THEN "ok" ELSE "failed"
             line == Told(cmd[o])
  <2>1. /\ cmd' = [cmd EXCEPT ![o] = [cmd[o] EXCEPT !.at = end, !.told = line]]
        /\ cmd[o].at = "report" /\ UNCHANGED <<modeFile, switchFile>>
    BY <1>5, <1>t DEF Report
  <2>2. cmd'[o].at = end /\ cmd'[o].told = line
    <3> HIDE DEF end, line
    <3> QED BY <1>t, <2>1 DEF Command
  <2>3. /\ (cmd[o].what \in {"on", "use"} /\ cmd[o].whole) \/ cmd[o].what = "off" =>
              SwitchIn(switchFile) = Wanted(cmd[o].what)
        /\ cmd[o].what \in {"mode", "use", "set"} /\ cmd[o].whole => ModeIn(modeFile) = cmd[o].mode
    BY <1>2, <1>3, <2>1 DEF Unspoilt
  <2>4. cmd[o].whole \/ cmd[o].what \in Forgiving =>
           line[1] \in {"unsaid", SwitchIn(switchFile)} /\ line[2] = ModeIn(modeFile)
    BY <1>t, <2>3 DEF Told, What, Wanted, Forgiving
  <2>6. cmd'[o].whole = cmd[o].whole /\ cmd'[o].what = cmd[o].what
    <3> HIDE DEF end, line
    <3> QED BY <1>t, <2>1 DEF Command
  <2>5. cmd'[o].whole \/ cmd'[o].what \in Forgiving => ToldTruth(o)'
    BY <2>1, <2>2, <2>4, <2>6 DEF ToldTruth
  <2> QED BY <1>1, <1>4, <2>2, <2>5 DEF Unspoilt
<1>6. CASE Fail(o)
  <2>1. cmd'[o].at = "failed"
    BY <1>6, <1>t DEF Fail
  <2> QED BY <1>1, <1>4, <2>1 DEF Unspoilt
<1>7. CASE WriteMode(o) \/ WriteSwitch(o)
  <2>1. cmd'[o].at \notin {"ok", "failed"}
    <3>1. cmd'[o].at = NextStep(cmd[o].what, cmd[o].at)
      BY <1>7, Wrote DEF WriteMode, WriteSwitch, PairInv
    <3> QED BY <3>1, <1>t, NextStepTyped
  <2>2. cmd'[o].at = "report" =>
           /\ (cmd[o].what \in {"on", "use"} /\ cmd'[o].whole) \/ cmd[o].what = "off" =>
                 SwitchIn(switchFile') = Wanted(cmd[o].what)
           /\ cmd[o].what \in {"mode", "use", "set"} /\ cmd'[o].whole =>
                 ModeIn(modeFile') = cmd[o].mode
    <3>1. CASE cmd[o].at = "mode"
      BY <2>1, <3>1, Stepped
    <3>2. CASE cmd[o].at = "switch"
      <4>1. /\ modeFile' = modeFile /\ cmd[o].what \in {"on", "off", "use"}
            /\ \/ SwitchIn(switchFile') = Wanted(cmd[o].what)
               \/ SwitchIn(switchFile') = "OFF" /\ cmd'[o].whole = FALSE
        BY <2>1, <3>2, Stepped
      <4>2. cmd'[o].whole => cmd[o].whole
        BY Stepped
      <4> QED BY <1>2, <1>3, <3>2, <4>1, <4>2 DEF Undisturbed, Wanted
    <3> QED BY <1>7, <3>1, <3>2 DEF WriteMode, WriteSwitch
  <2> QED BY <1>1, <1>2, <1>4, <2>1, <2>2 DEF Unspoilt
<1> QED BY <1>5, <1>6, <1>7 DEF Run

LEMMA TruthStep == PairInv /\ TruthInv /\ [Next]_vars => TruthInv'
<1> SUFFICES ASSUME PairInv, TruthInv, [Next]_vars PROVE TruthInv'
  OBVIOUS
<1>1. ASSUME NEW o \in Operator, Run(o) PROVE TruthInv'
  BY <1>1, IssueKeepsTruth, StepKeepsTruth
<1>2. ASSUME UNCHANGED <<modeFile, switchFile, cmd>> PROVE TruthInv'
  BY <1>2 DEF TruthInv, Unspoilt, ToldTruth, Running
<1>3. ASSUME NEW s \in Selector, Select(s) PROVE TruthInv'
  <2>1. UNCHANGED <<modeFile, switchFile, cmd>>
    BY <1>3 DEF Select, Begin, ReadSwitch, ReadMode, AppendEvent, SkipEvent, Quiet
  <2> QED BY <1>2, <2>1
<1> QED BY <1>1, <1>2, <1>3 DEF Next, vars

\* What a command prints when it succeeds is what every later selection finds,
\* until another command is issued: each of the five reads back, or has itself
\* written, what it says (orchestrator_routing.py, orchestrator_mode.py).  Of on,
\* mode and use this asks that the disk took their writes whole; an off that was
\* cut short still reads OFF, and a set that was reads it back and fails.
THEOREM CommandTellsTheTruthHolds == Spec => []CommandTellsTheTruth
<1>1. TruthInv => CommandTellsTheTruth
  BY DEF TruthInv, Unspoilt, ToldTruth, CommandTellsTheTruth
<1> QED
  BY <1>1, PairInit, PairStep, TruthInit, TruthStep, PTL DEF Spec

-----------------------------------------------------------------------------
(* What a short write costs.                                               *)

\* The rows that were cut short, and those that follow one.
CutRows == {i \in DOMAIN log : ~log[i].newline}
RowsAfterCut == {i \in DOMAIN log : i - 1 \in CutRows}

\* Every cut was counted, and what was not cut is a whole line.
CutsCounted ==
    /\ Cardinality(CutRows) = short
    /\ \A i \in DOMAIN log : log[i].newline => log[i].complete

LEMMA RowsFinite ==
    ASSUME TypeOK
    PROVE  /\ DOMAIN log = 1..Len(log) /\ Len(log) \in Nat
           /\ IsFiniteSet(DOMAIN log) /\ IsFiniteSet(CutRows) /\ IsFiniteSet(RowsAfterCut)
<1>1. DOMAIN log = 1..Len(log) /\ Len(log) \in Nat
  BY PartsTyped
<1>2. IsFiniteSet(DOMAIN log)
  BY <1>1, FS_Interval
<1>3. CutRows \in SUBSET DOMAIN log /\ RowsAfterCut \in SUBSET DOMAIN log
  BY DEF CutRows, RowsAfterCut
<1> QED BY <1>1, <1>2, <1>3, FS_Subset

\* A row that follows a cut one can be charged to it.
LEMMA AfterCutBounded ==
    ASSUME TypeOK
    PROVE  Cardinality(RowsAfterCut) <= Cardinality(CutRows)
<1> DEFINE f == [i \in RowsAfterCut |-> i - 1]
<1>1. f \in Injection(RowsAfterCut, CutRows)
  <2>1. f \in [RowsAfterCut -> CutRows]
    BY DEF RowsAfterCut
  <2>2. \A i, j \in RowsAfterCut : f[i] = f[j] => i = j
    BY RowsFinite DEF RowsAfterCut
  <2> QED BY <2>1, <2>2 DEF Injection, IsInjective
<1> HIDE DEF f
<1> QED BY <1>1, RowsFinite, FS_Injection

LEMMA CutsInit == Init => CutsCounted
<1> SUFFICES ASSUME Init PROVE CutsCounted
  OBVIOUS
<1>1. CutRows = {}
  BY DEF Init, CutRows
<1>2. Cardinality({}) = 0
  BY FS_EmptySet
<1> QED BY <1>1, <1>2 DEF Init, CutsCounted

\* One append: one more row, and one more cut if it is one.
LEMMA AppendKeepsCuts ==
    ASSUME TypeOK, CutsCounted, NEW s \in Selector, AppendEvent(s)
    PROVE  CutsCounted'
<1> DEFINE n == Len(log) + 1
<1>0. log \in Seq(Fragment) /\ Len(log) \in Nat /\ DOMAIN log = 1..Len(log)
      /\ short \in Nat /\ IsFiniteSet(CutRows)
  BY PartsTyped, RowsFinite
<1>1. PICK r \in Fragment :
        /\ log' = Append(log, r)
        /\ \/ r = Line /\ short' = short
           \/ r \in CutLine /\ short' = short + 1
  <2>1. ASSUME NEW b \in BOOLEAN, NEW c \in BOOLEAN
        PROVE  [complete |-> b, newline |-> c] \in Fragment
    BY DEF Fragment
  <2>2. Line \in Fragment
    BY <2>1 DEF Line
  <2>3. \A cut \in CutLine : cut \in Fragment
    BY <2>1, Zenon DEF CutLine
  <2> QED BY <2>2, <2>3 DEF AppendEvent
<1>2. /\ DOMAIN log' = 1..n /\ log'[n] = r
      /\ \A i \in DOMAIN log : log'[i] = log[i]
  BY <1>0, <1>1
<1>3. n \notin CutRows /\ \A i \in 1..n : i \in DOMAIN log \/ i = n
  BY <1>0 DEF CutRows
<1>4. CASE r = Line /\ short' = short
  <2>1. CutRows' = CutRows
    BY <1>0, <1>2, <1>3, <1>4 DEF CutRows, Line
  <2>2. \A i \in DOMAIN log' : log'[i].newline => log'[i].complete
    BY <1>2, <1>3, <1>4 DEF CutsCounted, Line
  <2> QED BY <1>4, <2>1, <2>2 DEF CutsCounted
<1>5. CASE r \in CutLine /\ short' = short + 1
  <2>1. r.newline = FALSE
    BY <1>5 DEF CutLine
  <2>2. CutRows' = CutRows \cup {n}
    BY <1>0, <1>2, <1>3, <2>1 DEF CutRows
  <2>3. Cardinality(CutRows') = Cardinality(CutRows) + 1
    BY <1>0, <1>3, <2>2, FS_AddElement
  <2>4. \A i \in DOMAIN log' : log'[i].newline => log'[i].complete
    BY <1>2, <1>3, <2>1 DEF CutsCounted
  <2> QED BY <1>5, <2>3, <2>4 DEF CutsCounted
<1> QED BY <1>1, <1>4, <1>5

LEMMA CutsStep == TypeOK /\ CutsCounted /\ [Next]_vars => CutsCounted'
<1> SUFFICES ASSUME TypeOK, CutsCounted, [Next]_vars PROVE CutsCounted'
  OBVIOUS
<1>1. ASSUME NEW s \in Selector, AppendEvent(s) PROVE CutsCounted'
  BY <1>1, AppendKeepsCuts
<1>2. ASSUME UNCHANGED <<log, short>> PROVE CutsCounted'
  BY <1>2 DEF CutsCounted, CutRows
<1>3. ASSUME NEW o \in Operator, Run(o) PROVE UNCHANGED <<log, short>>
  BY <1>3 DEF Run, Issue, WriteMode, WriteSwitch, Fail, Report
<1>4. ASSUME NEW s \in Selector, Select(s), ~AppendEvent(s) PROVE UNCHANGED <<log, short>>
  BY <1>4 DEF Select, Begin, ReadSwitch, ReadMode, SkipEvent
<1> QED BY <1>1, <1>2, <1>3, <1>4 DEF Next, vars

\* However long the log, a write the disk cuts short costs its own event and the
\* one after it at most: a row that cannot be read was cut itself, or begins
\* where a cut one ends (append_routing_event, read_telemetry_events).
THEOREM LossBoundedHolds == Spec => []LossBounded
<1>1. TypeOK /\ CutsCounted => LossBounded
  <2> SUFFICES ASSUME TypeOK, CutsCounted PROVE LossBounded
    OBVIOUS
  <2> DEFINE lost == {i \in DOMAIN log : ~Readable(i)}
  <2>1. lost \in SUBSET (CutRows \cup RowsAfterCut)
    <3> SUFFICES ASSUME NEW i \in DOMAIN log, ~Readable(i), i \notin CutRows
                 PROVE  i \in RowsAfterCut
      OBVIOUS
    <3>1. log[i].newline /\ log[i].complete
      BY DEF CutRows, CutsCounted
    <3>2. i # 1 /\ ~log[i - 1].newline
      BY <3>1 DEF Readable
    <3>3. i - 1 \in DOMAIN log
      BY <3>2, RowsFinite
    <3> QED BY <3>2, <3>3 DEF CutRows, RowsAfterCut
  <2>2. /\ IsFiniteSet(CutRows \cup RowsAfterCut)
        /\ Cardinality(CutRows \cup RowsAfterCut)
              = Cardinality(CutRows) + Cardinality(RowsAfterCut)
                  - Cardinality(CutRows \cap RowsAfterCut)
    BY RowsFinite, FS_Union
  <2>3. /\ Cardinality(CutRows \cap RowsAfterCut) \in Nat
        /\ Cardinality(RowsAfterCut) \in Nat
        /\ Cardinality(lost) <= Cardinality(CutRows \cup RowsAfterCut)
        /\ Cardinality(lost) \in Nat
    <3>1. IsFiniteSet(CutRows \cap RowsAfterCut)
      BY RowsFinite, FS_Intersection
    <3>2. IsFiniteSet(lost) /\ Cardinality(lost) <= Cardinality(CutRows \cup RowsAfterCut)
      BY <2>1, <2>2, FS_Subset
    <3> QED BY <3>1, <3>2, RowsFinite, FS_CardinalityType
  <2>4. Cardinality(CutRows) = short /\ short \in Nat
    BY PartsTyped DEF CutsCounted
  <2> HIDE DEF lost
  <2>5. Cardinality(lost) <= 2 * short
    BY <2>2, <2>3, <2>4, AfterCutBounded
  <2> QED BY <2>5 DEF LossBounded, lost
<1> QED
  BY <1>1, TypeInit, TypeStep, CutsInit, CutsStep, PTL DEF Spec
=============================================================================
