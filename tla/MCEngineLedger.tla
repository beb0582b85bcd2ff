--------------------------- MODULE MCEngineLedger ---------------------------
(* Two sessions, of an old release and of a new one, that each call tools    *)
(* twice, on an id of a tool with a returns_model and on one of ad_hoc_query, *)
(* and one ingestion.  The new release requires a field that the old one did  *)
(* not write; the old one ignores it.                                         *)
EXTENDS EngineLedger

CONSTANTS s1, s2, a, b, old, new

MCSessions == {s1, s2}
MCCallIds == {a, b}
MCTyped == {a}
MCReleases == {old, new}
MCReads == {<<old, old>>, <<new, new>>, <<old, new>>}
MCCodeOf == [s \in MCSessions |-> IF s = s1 THEN old ELSE new]
=============================================================================
