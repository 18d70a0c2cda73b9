------------------------------- MODULE MCGroups -------------------------------
(* Instances of Groups for TLC.                                              *)
EXTENDS Groups

CONSTANTS a, b

Scenario(present, groups0, members, kinds, ops, joins, breaks) ==
    [present |-> present, groups |-> groups0, members |-> members, kinds |-> kinds,
     ops |-> ops, joins |-> joins, breaks |-> breaks]

\* Two members; in some the connection may break.
Pair == Scenario({Host, a}, {1}, {}, AllKinds \ {"create"}, 2, 0, 0)
PairLoss == Scenario({Host, a}, {1}, {Host}, {"destroy", "add", "remove"}, 2, 0, 1)
PairLossNew == Scenario({Host, a}, {}, {}, {"create", "add", "info"}, 2, 0, 1)
\* Another node joins while they work.
Joiner(S) == Scenario({Host, a}, {1}, S, AllKinds \ {"create"}, 1, 1, 0)
JoinerNew == Scenario({Host, a}, {}, {}, {"create", "add"}, 2, 1, 0)
Second == Scenario({Host}, {1}, {}, AllKinds \ {"create"}, 2, 1, 0)
SecondNew == Scenario({Host}, {}, {}, {"create", "add"}, 2, 1, 0)
\* Three members.
TrioAdd == Scenario({Host, a, b}, {1}, {}, {"destroy", "add"}, 2, 0, 0)
TrioRemove == Scenario({Host, a, b}, {1}, {b}, {"destroy", "remove"}, 2, 0, 0)
TrioLoss == Scenario({Host, a, b}, {1}, {b}, {"destroy", "add"}, 1, 0, 1)
TrioNew == Scenario({Host, a, b}, {}, {}, {"create", "add"}, 2, 0, 0)

AllScenarios ==
    {Pair, PairLoss, PairLossNew, Joiner({}), Joiner({Host}), JoinerNew, Second, SecondNew,
     TrioAdd, TrioRemove, TrioLoss, TrioNew}
==============================================================================
