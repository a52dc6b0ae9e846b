--------------------------- MODULE SoftDeleteTable ---------------------------
(***************************************************************************)
(* What a projected table promises (spec.md section 3): rows are appended  *)
(* under a unique id and then only mutated; a row is never physically      *)
(* deleted and a soft-deleted row stays deleted.  A table is a function    *)
(* from row id to its soft-delete flag; one step may append and soft-      *)
(* delete any number of rows, as the projection of one block does.         *)
(***************************************************************************)
CONSTANT Keys

VARIABLE rows

TypeOK == rows \in UNION {[K -> BOOLEAN] : K \in SUBSET Keys}

Init == rows = [k \in {} |-> FALSE]

(* Append the rows new and soft-delete the rows del (old or new ones).    *)
Store(new, del) ==
    rows' = [k \in DOMAIN rows \cup new |->
               k \in del \/ (k \in DOMAIN rows /\ rows[k])]

(* The appended and soft-deleted rows of a step are those it shows.        *)
Next ==
    /\ DOMAIN rows' \subseteq Keys
    /\ Store(DOMAIN rows' \ DOMAIN rows, {k \in DOMAIN rows' : rows'[k]})

Spec == Init /\ [][Next]_rows

=============================================================================
