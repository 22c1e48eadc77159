------------------------------ MODULE HostFiles ------------------------------
(***************************************************************************)
(* What the panel's host does around the serving process: the update of    *)
(* the installation (UpdateSwap), the release the panel offers for it      *)
(* (ReleaseOffer), the schema migration of a start (Migrations), the TLS   *)
(* pair (TlsPair) and the daily backup (BackupWorker).                     *)
(*                                                                         *)
(* The five share no variable, so a step of one commutes with every step   *)
(* of another and each property is about one of them: a behaviour moves    *)
(* one part, chosen at its start.                                          *)
(***************************************************************************)
EXTENDS UpdateSwap, ReleaseOffer, Migrations, TlsPair, BackupWorker

VARIABLE part  \* the part that moves

Chosen(S) == CHOOSE x \in S : TRUE

hostVars == <<part, updVars, offerVars, migVars, tlsVars, bakVars>>

\* A panel that came up on a database of its own.
MigAtRest ==
    /\ database = [EmptyDatabase EXCEPT !.version = Head32, !.tables = 2,
                      !.extra = TRUE, !.columns = TRUE, !.ownerIndex = TRUE,
                      !.settings = TRUE,
                      !.admins = <<[name |-> "admin", owner |-> TRUE, password |-> TRUE]>>]
    /\ dotenv = Chosen(Environments)
    /\ migration = [MigIdle EXCEPT !.at = "up"]
    /\ given = {}
    /\ origin = [built |-> FALSE, env |-> dotenv, edited |-> FALSE]

\* The parts that do not move stay in one of their initial states.
HostInit ==
    /\ part \in {"update", "offer", "migration", "tls", "backup"}
    /\ UpdInit
    /\ part = "update" \/ (~inTree /\ service = Chosen(Releases))
    /\ OfferInit
    /\ part = "offer" \/ github = [up |-> FALSE, latest |-> Nothing, tags |-> <<>>]
    /\ IF part = "migration" THEN MigInit ELSE MigAtRest
    /\ TlsInit
    /\ part = "tls" \/ (tlsDeclared = "none" /\ tlsFiles["data cert"] = Missing)
    /\ BakInit

UpdateMoves ==
    /\ part = "update" /\ UpdNext
    /\ UNCHANGED <<part, offerVars, migVars, tlsVars, bakVars>>

OfferMoves ==
    /\ part = "offer" /\ OfferNext
    /\ UNCHANGED <<part, updVars, migVars, tlsVars, bakVars>>

MigrationMoves ==
    /\ part = "migration" /\ MigNext
    /\ UNCHANGED <<part, updVars, offerVars, tlsVars, bakVars>>

TlsMoves ==
    /\ part = "tls" /\ TlsNext
    /\ UNCHANGED <<part, updVars, offerVars, migVars, bakVars>>

BackupMoves ==
    /\ part = "backup" /\ BakNext
    /\ UNCHANGED <<part, updVars, offerVars, migVars, tlsVars>>

HostNext == UpdateMoves \/ OfferMoves \/ MigrationMoves \/ TlsMoves \/ BackupMoves

\* systemd starts the panel until it stays up; the backup ticker fires every
\* minute and a copy ends within its timeout.
HostFairness ==
    /\ WF_migVars(part = "migration" /\ MigWork)
    /\ WF_bakVars(part = "backup" /\ BakTick)

HostSpec == HostInit /\ [][HostNext]_hostVars /\ HostFairness

HostTypeOK == UpdTypeOK /\ OfferTypeOK /\ MigTypeOK /\ TlsTypeOK /\ BakTypeOK
=============================================================================
