-------------------------- MODULE ConfigureModels --------------------------
(***************************************************************************)
(* models.yaml and the commands that change it: configure_models.py --set, *)
(* up to the rename inside mutate_configuration_file.  A command reads the *)
(* file three times before it replaces it and nothing locks the file:      *)
(* other commands and the user's editor come between any two steps, and a  *)
(* command can die at each of them.                                        *)
(***************************************************************************)
EXTENDS ModelPolicy

CONSTANTS
    Operator,       \* the commands that run
    Selections,     \* selections the commands ask for
    Remembered,     \* contents whose hash an operator may have noted earlier
    Edits           \* what the user's editor leaves in the file

VARIABLES
    file,           \* models.yaml
    backups,        \* the contents of the .bak files
    op              \* the command of each operator

configVars == <<file, backups, op>>

\* A file's bytes: a configuration and whether yaml.safe_dump wrote them (the
\* comments are gone then); "broken" stands for any that does not parse or has
\* the wrong shape, "absent" for no regular file (missing, a link, a directory),
\* "torn" for a copy that was cut short.
NoConfig == [view |-> << >>, policy |-> << >>]
Absent == [form |-> "absent", config |-> NoConfig]
Broken == [form |-> "broken", config |-> NoConfig]
Torn == [form |-> "torn", config |-> NoConfig]
Bytes == {Absent, Broken} \cup [form : {"hand", "dumped"}, config : Config]

\* What --set may ask for: parse_assignment takes one model for a role.
RoleChoices == UNION {[some -> Models] : some \in SUBSET Roles}

ASSUME ConfigureAssumption ==
    Selections \subseteq RoleChoices /\ Remembered \subseteq Bytes /\ Edits \subseteq Bytes

Dumped(c) == [form |-> "dumped", config |-> c]

\* The hash of the bytes is abstracted by the bytes.
Readable(b) == b.form \in {"hand", "dumped"} /\ Valid(b.config)

\* dry: without --apply; hasty: --apply without --approve or without
\* --expected-sha256; approved: with both.
Mode == {"dry", "hasty", "approved"}

Stage == {"idle", "asked", "loaded", "hashed", "planned", "copied", "staged"}

\* bytes: the read that is hashed and backed up; new: what will be written.
\* since: history, the contents the file has had since the command began.
Command ==
    [ at : Stage, mode : Mode, choice : RoleChoices,
      expect : Bytes, bytes : Bytes, new : Bytes, since : SUBSET Bytes ]

NoCommand ==
    [ at |-> "idle", mode |-> "dry", choice |-> << >>,
      expect |-> Absent, bytes |-> Absent, new |-> Absent, since |-> {} ]

ConfigInit ==
    /\ file \in Edits
    /\ backups = {}
    /\ op = [p \in Operator |-> NoCommand]

End(p) == op' = [op EXCEPT ![p] = NoCommand]

Advance(p, stage) == op' = [op EXCEPT ![p].at = stage]

\* The commands at work, each of which may see the file become b.
SeenBy(b) ==
    [q \in Operator |->
        IF op[q].at = "idle" THEN op[q] ELSE [op[q] EXCEPT !.since = @ \cup {b}]]

\* An operator asks for a choice, with the hash of a file seen earlier or now.
Ask(p) ==
    /\ op[p].at = "idle"
    /\ \E choice \in Selections, mode \in Mode, expect \in Remembered \cup {file} :
          /\ expect # Absent
          /\ op' = [op EXCEPT ![p] =
                       [NoCommand EXCEPT !.at = "asked", !.mode = mode, !.choice = choice,
                                         !.expect = expect, !.since = {file}]]
    /\ UNCHANGED <<file, backups>>

\* main: compute_file_sha256 and load_configuration, then the two flags.
Load(p) ==
    /\ op[p].at = "asked"
    /\ IF Readable(file) /\ op[p].mode # "hasty" THEN Advance(p, "loaded") ELSE End(p)
    /\ UNCHANGED <<file, backups>>

\* Breaks ImplementsGuardedRegister: the expected hash is not compared.
Hash_Defect(p) ==
    /\ op[p].at = "loaded"
    /\ IF file # Absent
       THEN op' = [op EXCEPT ![p].at = "hashed", ![p].bytes = file]
       ELSE End(p)
    /\ UNCHANGED <<file, backups>>

\* mutate_configuration_file: read the bytes, compare their hash.
Hash(p) ==
    /\ op[p].at = "loaded"
    /\ IF file # Absent /\ (op[p].mode = "approved" => file = op[p].expect)
       THEN op' = [op EXCEPT ![p].at = "hashed", ![p].bytes = file]
       ELSE End(p)
    /\ UNCHANGED <<file, backups>>

\* Read the file again, apply the choice, serialize it and check the result.
\* A dry run ends here.
Plan(p) ==
    /\ op[p].at = "hashed"
    /\ IF Readable(file) /\ Applicable(file.config, op[p].choice) /\ op[p].mode = "approved"
       THEN op' = [op EXCEPT ![p].at = "planned",
                             ![p].new = Dumped(Apply(file.config, op[p].choice))]
       ELSE End(p)
    /\ UNCHANGED <<file, backups>>

\* The bytes of the first read, in a file nobody had: O_EXCL.
Copy(p) ==
    /\ op[p].at = "planned"
    /\ backups' = backups \cup {op[p].bytes}
    /\ Advance(p, "copied")
    /\ UNCHANGED file

\* The disk is full: what was written of the copy stays, the command dies of
\* an OSError that is not a ConfigurationError.
CopyFails(p) ==
    /\ op[p].at = "planned"
    /\ backups' = backups \cup {Torn}
    /\ End(p)
    /\ UNCHANGED file

\* os.stat, then the temporary file.
WriteTemp(p) ==
    /\ op[p].at = "copied"
    /\ IF file # Absent THEN Advance(p, "staged") ELSE End(p)
    /\ UNCHANGED <<file, backups>>

\* os.replace. Nothing looks at the file again.
Replace(p) ==
    /\ op[p].at = "staged"
    /\ file' = op[p].new
    /\ op' = [SeenBy(file') EXCEPT ![p] = NoCommand]
    /\ UNCHANGED backups

\* An error, an interrupt or a kill: a temporary file may be left over, which
\* nothing reads.
Die(p) ==
    /\ op[p].at # "idle"
    /\ End(p)
    /\ UNCHANGED <<file, backups>>

\* The user's editor.
Edit ==
    /\ \E b \in Edits \ {file} : file' = b
    /\ op' = SeenBy(file')
    /\ UNCHANGED backups

ConfigStep(p) ==
    Load(p) \/ Hash(p) \/ Plan(p) \/ Copy(p) \/ CopyFails(p) \/ WriteTemp(p) \/ Replace(p) \/ Die(p)

-----------------------------------------------------------------------------
ConfigTypeOK ==
    /\ file \in Bytes
    /\ backups \subseteq Bytes \cup {Torn}
    /\ op \in [Operator -> Command]

\* A choice of listed models is never refused on a configuration that is valid:
\* it comes first in both views of its role, the other models keep their order,
\* and no other role changes (apply_role_selections ends with the validation of
\* its own result, which fails if the two views come apart).
ListedChoiceHonoured ==
    Readable(file) =>
        \A choice \in Selections :
            LET listed == \A r \in DOMAIN choice : choice[r] \in ToSet(Identifiers(file.config, r))
                new == Apply(file.config, choice)
                expected(r) ==
                    IF r \in DOMAIN choice
                    THEN <<choice[r]>> \o Without(Identifiers(file.config, r), choice[r])
                    ELSE Identifiers(file.config, r)
            IN  listed =>
                    /\ Applicable(file.config, choice)
                    /\ \A r \in Roles : Identifiers(new, r) = expected(r)
                    /\ \A o \in DOMAIN new.policy \ {OperatorOf[r] : r \in DOMAIN choice} :
                          new.policy[o] = file.config.policy[o]

\* What a command writes is a choice applied to what it read.
IsChange(v, w) ==
    \E choice \in Selections :
        Readable(v) /\ Applicable(v.config, choice) /\ w = Dumped(Apply(v.config, choice))

Register == INSTANCE GuardedRegister
    WITH Changer <- Operator, Derived <- IsChange, None <- Absent,
         value <- file, kept <- backups \ {Torn},
         open <- [p \in Operator |-> op[p].since],
         approved <- [p \in Operator |-> op[p].expect]

\* models.yaml only changes by the user's hand or by a choice applied to contents
\* the file had while the command ran, and then the contents that were approved
\* were seen in the file during the command and are in a complete backup: this is
\* what the hash, the two reads and the backup before os.replace are worth when
\* other commands and editors come between them (mutate_configuration_file).
ImplementsGuardedRegister == Register!Spec

=============================================================================
