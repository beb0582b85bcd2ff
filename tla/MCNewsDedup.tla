----------------------------- MODULE MCNewsDedup -----------------------------
(* One release that all three sources have, one of them twice. *)
EXTENDS NewsDedup, TLC

CONSTANTS mfn1, esap1, rss1, rss2, i1, i2

MCRawRows == {mfn1, esap1, rss1, rss2}
MCSourceOf ==
  [r \in MCRawRows |->
     IF r = mfn1 THEN "mfn" ELSE IF r = esap1 THEN "esap" ELSE "ir_rss"]
MCGroupOf == [r \in MCRawRows |-> "A"]
MCRankOf == [mfn |-> 0, esap |-> 1, ir_rss |-> 2]
MCIngests == {i1, i2}

\* Two rows of two sources, and no overlap.
MCTwoRows == {mfn1, rss1}
MCTwoSourceOf == [r \in MCTwoRows |-> MCSourceOf[r]]
MCTwoGroupOf == [r \in MCTwoRows |-> "A"]
MCOneIngest == {i1}

\* Ingestions are interchangeable, and so are the rows of one source.
MCSymmetry ==
  {p @@ q : p \in Permutations(MCIngests), q \in Permutations({rss1, rss2})}
=============================================================================
