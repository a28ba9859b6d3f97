-------------------------- MODULE MCServerRegistry -------------------------
(* Instances of ServerRegistry for TLC. *)
EXTENDS ServerRegistry, TLC

\* An insertion of some kind, a clone, an edit or a deletion that overlaps it, and a third that creates, deletes or imports.
Mixed == [r \in Reqs |-> IF r = 1 THEN {"create", "upload", "config"}
                         ELSE IF r = 2 THEN {"clone", "edit", "delete"} ELSE {"create", "delete", "import"}]

\* The names are alike.
Symmetry == Permutations(Names)

\* Bound of the exploration: names matter to what is compared, starts without an
\* executable to the status, so such starts are followed where all names are one.
OneConcern == tried = {} \/ \A i, j \in Ids : row[i] # NoRow /\ row[j] # NoRow => row[i].name = row[j].name
=============================================================================
