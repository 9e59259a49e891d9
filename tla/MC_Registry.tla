---------------------------- MODULE MC_Registry ----------------------------
EXTENDS Registry

Regional(ssm, tais) == UniqueId(ssm, None, NoList, tais, NoList)

\* One that is used everywhere, one that it clashes with, and one in another area
\* and with another id: the third is less than the second, by area, and greater
\* than the first, by id.  And a TMGI without an SSM.
Everywhere == GlobalSsm(1)
Here == Regional(1, {2})
There == Regional(3, {1})
Tmgi == UniqueId(None, 1, NoList, NoList, NoList)

Ids == {Everywhere, Here, There, Tmgi}
Ssms == Ids \ {Tmgi}

\* One or two distribution sessions
Maps == {<<Everywhere, NoId>>, <<Here, NoId>>, <<There, NoId>>, <<Tmgi, NoId>>,
         <<NoId, Here>>, <<NoId, There>>, <<Here, There>>, <<There, Here>>,
         <<Everywhere, There>>, <<Everywhere, Here>>, <<There, Tmgi>>}

\* Identifiers of services and of ingest sessions are handed out at random.
Symmetry == Permutations(Service) \cup Permutations(Ingest)
=============================================================================
