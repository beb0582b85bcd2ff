------------------------------ MODULE MCTiers -------------------------------
(* Two crawls and two ingestions of two dates, over days enough for a date to *)
(* leave both windows.                                                        *)
EXTENDS Tiers, TLC

CONSTANTS c1, c2, i1, i2

MCCrawls == {c1, c2}
MCIngests == {i1, i2}
MCDates == {1, 2}

\* Tasks of a kind are interchangeable.
MCSymmetry ==
  {p @@ q : p \in Permutations(MCCrawls), q \in Permutations(MCIngests)}
=============================================================================
