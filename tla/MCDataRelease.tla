---------------------------- MODULE MCDataRelease ----------------------------
(* Instances of DataRelease for TLC: two bulletins of one day, and bundles that know one      *)
(* market only, learn a label by a pattern, move another, or take a version already taken.    *)
EXTENDS DataRelease, TLC

CONSTANTS carrot, leek, pettah, kandy, none, nobody, w1, w2, b1, b2

MCSymmetry == Permutations({w1, w2}) \cup Permutations({b1, b2})

MCRow ==
    {[art |-> 1, ref |-> 1, label |-> "c", market |-> pettah, price |-> 10, sound |-> TRUE],
     [art |-> 1, ref |-> 2, label |-> "l", market |-> pettah, price |-> 15, sound |-> TRUE],
     [art |-> 1, ref |-> 3, label |-> "c", market |-> kandy, price |-> 0, sound |-> FALSE],
     [art |-> 2, ref |-> 1, label |-> "c", market |-> pettah, price |-> 20, sound |-> TRUE],
     [art |-> 2, ref |-> 2, label |-> "l", market |-> pettah, price |-> 30, sound |-> TRUE]}

MCReadIn == [a \in 1..2 |-> IF a = 1 THEN {1, 2} ELSE {3}]

MCRank == [a \in 1..2 |-> a]

MCMapped(c, l) == [x \in {"c", "l"} |-> IF x = "c" THEN c ELSE l]

MCBundle(version, items, patterns, sold) ==
    [version |-> version, items |-> items, patterns |-> patterns, markets |-> sold]

MCBundles ==
    {MCBundle(2, MCMapped(carrot, NoItem), MCMapped(NoItem, NoItem), {kandy}),
     MCBundle(2, MCMapped(carrot, NoItem), MCMapped(NoItem, carrot), {pettah, kandy}),
     MCBundle(3, MCMapped(leek, carrot), MCMapped(NoItem, NoItem), {pettah, kandy})}
=============================================================================
