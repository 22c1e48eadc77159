----------------------------- MODULE MCHostFiles -----------------------------
(* Instances of HostFiles: two releases with their own schema, a retired    *)
(* and a malformed tag among the releases, databases of six ages.           *)
EXTENDS HostFiles

MCSchemaOf == [r \in Releases |-> r]

MCTags == {<<2, 4, 6>>, <<2, 5>>, <<1, 9, 9>>, <<>>}
MCRunning == <<2, 0, 0>>

MCEnvironments ==
    {[owner |-> "", hash |-> FALSE, keys |-> FALSE],
     [owner |-> "boss", hash |-> TRUE, keys |-> TRUE]}

Account(n, o, p) == [name |-> n, owner |-> o, password |-> p]

\* What the release at version v left.
Aged(v, admins, snaps, secret) ==
    [version |-> v, tables |-> 2, extra |-> v > 24, columns |-> v = Head32,
     ownerIndex |-> v > 25, settings |-> TRUE, admins |-> admins,
     ownerColumn |-> v < 24, users |-> {1}, automatic |-> v > 28,
     sequence |-> IF v > 28 THEN Largest({1} \cup snaps) ELSE 0,
     snapshots |-> snaps, secret |-> secret, oldSessions |-> v < 28]

MCLegacy ==
    {Aged(0, <<Account("admin", FALSE, TRUE), Account("boss", FALSE, TRUE)>>, {}, "fernet"),
     Aged(11, <<>>, {}, "plain"),
     Aged(25, <<Account("admin", TRUE, TRUE), Account("boss", TRUE, TRUE)>>, {3}, "plain"),
     Aged(32, <<Account("admin", TRUE, TRUE)>>, {2}, "v2"),
     Aged(33, <<Account("admin", TRUE, TRUE)>>, {2}, "v2")}
=============================================================================
