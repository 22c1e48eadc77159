---------------------------- MODULE ReleaseOffer ----------------------------
(***************************************************************************)
(* What the panel offers as an update (internal/panel/updater.go): the     *)
(* release GitHub calls the latest, else the best of its tags, kept for an *)
(* hour whether the request succeeded or not.                              *)
(*                                                                         *)
(* A tag is the sequence of its leading numbers: <<>> for one that does    *)
(* not begin with a digit ("nightly").                                     *)
(***************************************************************************)
EXTENDS Naturals, Sequences, SequencesExt

CONSTANTS
    Tags,     \* the names GitHub may report
    Running,  \* version.Version
    MaxTags   \* bound: length of the tag list

ASSUME OfferAssumption == Tags \cup {Running} \subseteq Seq(Nat) /\ MaxTags \in Nat

VARIABLES
    github,     \* what GitHub would answer now
    offerCache, \* updateCache
    offered     \* the answer of the last GET /updater/status

offerVars == <<github, offerCache, offered>>

Nothing == <<"none">>
Names == {<<"tag", t>> : t \in Tags} \cup {Nothing}

GitHub == [up : BOOLEAN, latest : Names, tags : BoundedSeq(Tags, MaxTags)]

OfferTypeOK ==
    /\ github \in GitHub
    /\ offerCache \in [fresh : BOOLEAN, latest : Names]
    /\ offered \in [latest : Names, available : BOOLEAN]

OfferInit ==
    /\ github \in GitHub
    /\ offerCache = [fresh |-> FALSE, latest |-> Nothing]
    /\ offered = [latest |-> Nothing, available |-> FALSE]

\* The retired line 2.1 to 2.4.
IsLegacyPreReset(v) == Len(v) >= 2 /\ v[1] = 2 /\ v[2] \in 1 .. 4

Part(v, i) == IF i <= Len(v) THEN v[i] ELSE 0

\* Mutant: the last difference decides.
NewerAtEnd(a, b) ==
    /\ ~IsLegacyPreReset(a)
    /\ \E i \in 1 .. Len(a) + Len(b) :
          /\ Part(a, i) > Part(b, i)
          /\ \A j \in i + 1 .. Len(a) + Len(b) : Part(a, j) = Part(b, j)

\* The first difference decides; missing parts count as 0.
VersionNewer(a, b) ==
    /\ ~IsLegacyPreReset(a)
    /\ \E i \in 1 .. Len(a) + Len(b) :
          /\ Part(a, i) > Part(b, i)
          /\ \A j \in 1 .. i - 1 : Part(a, j) = Part(b, j)

\* Of the tags, the first, or a later one that is newer than the best so far.
BestTag(tags) ==
    LET best[n \in 0 .. Len(tags)] ==
            IF n = 0 THEN Nothing
            ELSE IF best[n - 1] = Nothing \/ VersionNewer(tags[n], best[n - 1][2])
            THEN <<"tag", tags[n]>>
            ELSE best[n - 1] IN
    best[Len(tags)]

FetchLatest ==
    IF ~github.up THEN Nothing
    ELSE IF github.latest # Nothing /\ ~IsLegacyPreReset(github.latest[2])
    THEN github.latest
    ELSE BestTag(github.tags)

LatestCached == IF offerCache.fresh THEN offerCache.latest ELSE FetchLatest

UpdateStatus ==
    /\ offerCache' = [fresh |-> TRUE, latest |-> LatestCached]
    /\ offered' = [latest |-> LatestCached,
                   available |-> LatestCached # Nothing
                                 /\ VersionNewer(LatestCached[2], Running)]
    /\ UNCHANGED github

HourPasses ==
    /\ offerCache' = [offerCache EXCEPT !.fresh = FALSE]
    /\ UNCHANGED <<github, offered>>

GitHubChanges ==
    /\ github' \in GitHub
    /\ UNCHANGED <<offerCache, offered>>

OfferNext == UpdateStatus \/ HourPasses \/ GitHubChanges

-----------------------------------------------------------------------------
(* Properties.                                                             *)

\* The order of releases that have up to three parts.
Above(a, b) ==
    \/ Part(a, 1) > Part(b, 1)
    \/ Part(a, 1) = Part(b, 1) /\ Part(a, 2) > Part(b, 2)
    \/ Part(a, 1) = Part(b, 1) /\ Part(a, 2) = Part(b, 2) /\ Part(a, 3) > Part(b, 3)

Upgrade(v) == ~IsLegacyPreReset(v) /\ Above(v, Running)

\* An update is offered only to a release of the current line that is newer
\* than the running one.  A fresh answer that had to come from the tags offers
\* the highest of them if it is newer, when none is of the retired line
\* (versionNewer and the choice of the best tag, updater.go:93-113, 157-175).
OfferIsUpgrade ==
    [][UpdateStatus =>
        /\ offered'.available => Upgrade(offered'.latest[2])
        /\ /\ ~offerCache.fresh /\ github.up /\ github.latest = Nothing
           /\ \A i \in DOMAIN github.tags : ~IsLegacyPreReset(github.tags[i])
           /\ \E i \in DOMAIN github.tags : Upgrade(github.tags[i])
           => /\ offered'.available
              /\ \A i \in DOMAIN github.tags :
                    ~Above(github.tags[i], offered'.latest[2])
      ]_offerVars
=============================================================================
