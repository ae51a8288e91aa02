----------------------------- MODULE MCImports -----------------------------
(* The catalog has a newer version of a manual, under the id of the old    *)
(* one, and another manual.  The API is configured for the snapshot of the *)
(* new version, as configs/all-models.yaml is for one of the catalog.      *)
EXTENDS Imports

MCChunk == {"api1", "api2", "new1", "other1"}
MCSourceOf ==
    [c \in MCChunk |-> IF c = "new1" THEN "new" ELSE IF c = "other1" THEN "other" ELSE "api"]
MCIdOf == [e \in Entry |-> IF e = "other" THEN 2 ELSE 1]
MCSnapshotOf == [s \in Source |-> IF s = "api" THEN "new" ELSE s]
MCCatalogs == {<<"new", "other">>}
=============================================================================
