------------------------------- MODULE TlsPair -------------------------------
(***************************************************************************)
(* The certificate and the key the panel serves with: `ovmanager tls`      *)
(* (internal/cli/tls.go) writes the two files one after the other, and a   *)
(* starting panel (cmd/main.go) reads them, after it has copied a pair of  *)
(* the data directory onto declared paths that are empty.                  *)
(***************************************************************************)
EXTENDS Naturals

CONSTANT Pairs  \* key pairs an operator installs or generates

ASSUME TlsAssumption ==
    Pairs \cap {"missing", "torn", "down", "http", "nothing", "removed",
                "mismatch", "unknown"} = {}

VARIABLES
    tlsDeclared, \* what the .env declares: no file, both, or the certificate only
    tlsFiles,    \* what each file holds
    tlsCommand,  \* the running `ovmanager tls`
    tlsLast,     \* history: what the last command achieved, undisturbed
    serving      \* what the panel serves

tlsVars == <<tlsDeclared, tlsFiles, tlsCommand, tlsLast, serving>>

Files == {"declared cert", "declared key", "data cert", "data key"}
Missing == "missing"
Torn == "torn"    \* created or truncated, not written

TlsTypeOK ==
    /\ tlsDeclared \in {"none", "both", "cert"}
    /\ tlsFiles \in [Files -> Pairs \cup {Missing, Torn}]
    /\ tlsCommand \in [step : {"none", "cert", "key"}, cert : Pairs \cup {Missing},
                       key : Pairs \cup {Missing}, alone : BOOLEAN]
    /\ tlsLast \in Pairs \cup {"nothing", "removed", "mismatch", "unknown"}
    /\ serving \in Pairs \cup {"down", "http"}

\* alone: no panel has started since the command began.
NoCommand == [step |-> "none", cert |-> Missing, key |-> Missing, alone |-> TRUE]

\* A release from before the declarations may have left its pair in the data
\* directory.
TlsInit ==
    /\ tlsDeclared \in {"none", "both", "cert"}
    /\ \E p \in Pairs \cup {Missing} :
          tlsFiles = [f \in Files |->
                        IF f \in {"data cert", "data key"} THEN p ELSE Missing]
    /\ tlsCommand = NoCommand /\ tlsLast = "nothing" /\ serving = "down"

\* panel.SSLCertPath and panel.SSLKeyPath: each on its own.
PanelCert == IF tlsDeclared = "none" THEN "data cert" ELSE "declared cert"
PanelKey == IF tlsDeclared = "both" THEN "declared key" ELSE "data key"

\* Mutant: the command writes to the data directory.
DataCert == "data cert"

\* tlsTargetPaths: the declared ones when both are declared.
CliCert == IF tlsDeclared = "both" THEN "declared cert" ELSE "data cert"
CliKey == IF tlsDeclared = "both" THEN "declared key" ELSE "data key"

-----------------------------------------------------------------------------
(* ovmanager tls.                                                          *)

\* `tls install`: the two sources are read and not compared; and
\* `tls selfsigned`: a pair is generated.
TlsInstall(p, q) ==
    /\ tlsCommand.step = "none"
    /\ tlsCommand' = [NoCommand EXCEPT !.step = "cert", !.cert = p, !.key = q]
    /\ UNCHANGED <<tlsDeclared, tlsFiles, tlsLast, serving>>

TlsWriteCert ==
    /\ tlsCommand.step = "cert"
    /\ tlsFiles' = [tlsFiles EXCEPT ![CliCert] = tlsCommand.cert]
    /\ tlsCommand' = [tlsCommand EXCEPT !.step = "key"]
    /\ UNCHANGED <<tlsDeclared, tlsLast, serving>>

TlsWriteKey ==
    /\ tlsCommand.step = "key"
    /\ tlsFiles' = [tlsFiles EXCEPT ![CliKey] = tlsCommand.key]
    /\ tlsCommand' = NoCommand
    /\ tlsLast' = IF ~tlsCommand.alone THEN "unknown"
                  ELSE IF tlsCommand.cert = tlsCommand.key THEN tlsCommand.key
                  ELSE "mismatch"
    /\ UNCHANGED <<tlsDeclared, serving>>

\* A write fails or the command is killed: the file may have been truncated,
\* and what was written before stays.
TlsWriteDies ==
    /\ tlsCommand.step \in {"cert", "key"}
    /\ LET f == IF tlsCommand.step = "cert" THEN CliCert ELSE CliKey IN
       \E content \in {tlsFiles[f], Torn} :
          tlsFiles' = [tlsFiles EXCEPT ![f] = content]
    /\ tlsCommand' = NoCommand /\ tlsLast' = "unknown"
    /\ UNCHANGED <<tlsDeclared, serving>>

\* Mutant: the files of the data directory stay when others are declared.
TargetsOnly == {CliCert, CliKey}

\* The targets, and the pair a starting panel would copy onto them.
Removable == {CliCert, CliKey, "data cert", "data key"}

\* `tls remove`, which may be killed on its way.
TlsRemove ==
    /\ tlsCommand.step = "none"
    /\ \E gone \in SUBSET Removable :
          /\ tlsFiles' = [f \in Files |-> IF f \in gone THEN Missing ELSE tlsFiles[f]]
          /\ tlsLast' = IF gone = Removable THEN "removed" ELSE "unknown"
    /\ UNCHANGED <<tlsDeclared, tlsCommand, serving>>

-----------------------------------------------------------------------------
(* The panel starts.                                                       *)

Exists(files, f) == files[f] # Missing

\* migrateLegacyTLS: copied in two steps, either of which may fail before or
\* after it has truncated its file.
Migrated(files) ==
    IF \/ Exists(files, PanelCert) /\ Exists(files, PanelKey)
       \/ ~Exists(files, "data cert") \/ ~Exists(files, "data key")
    THEN {files}
    ELSE LET one == [files EXCEPT ![PanelCert] = files["data cert"]] IN
         {files, one, [files EXCEPT ![PanelCert] = Torn],
          [one EXCEPT ![PanelKey] = files["data key"]], [one EXCEPT ![PanelKey] = Torn]}

\* Without both files it binds the loopback interface and speaks plain HTTP;
\* with a pair that does not match it exits.
Served(files) ==
    IF ~Exists(files, PanelCert) \/ ~Exists(files, PanelKey) THEN "http"
    ELSE IF files[PanelCert] = files[PanelKey] /\ files[PanelCert] \in Pairs
    THEN files[PanelCert]
    ELSE "down"

TlsPanelStarts ==
    /\ \E files \in Migrated(tlsFiles) :
          /\ tlsFiles' = files
          /\ serving' = Served(files)
    /\ tlsCommand' = [tlsCommand EXCEPT !.alone = tlsCommand.step = "none"]
    /\ UNCHANGED <<tlsDeclared, tlsLast>>

TlsNext ==
    \/ \E p, q \in Pairs : TlsInstall(p, q)
    \/ TlsWriteCert \/ TlsWriteKey \/ TlsWriteDies \/ TlsRemove
    \/ TlsPanelStarts

-----------------------------------------------------------------------------
(* Properties.                                                             *)

\* After a command that ended well and met no starting panel on its way, every
\* panel that starts serves what the command said:
\* the installed pair, wherever the .env declares it, or nothing if its halves
\* do not match, which the command does not look at; or plain HTTP when the
\* certificate was removed.  With the certificate alone declared the panel
\* reads one file the command does not write, and a panel that starts between
\* the two writes copies an old certificate over the new one (tls.go:26-39,
\* 60-76, 97-102, main.go:308-330).
TlsServesAsTold ==
    [][TlsPanelStarts /\ tlsCommand.step = "none" =>
         /\ tlsLast \in Pairs /\ tlsDeclared # "cert" => serving' = tlsLast
         /\ tlsLast = "mismatch" /\ tlsDeclared # "cert" => serving' = "down"
         /\ tlsLast = "removed" => serving' = "http"]_tlsVars
=============================================================================
