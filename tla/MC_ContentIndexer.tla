------------------------- MODULE MC_ContentIndexer -------------------------
(***************************************************************************)
(* Model values and bounds for checking ContentIndexer with TLC.           *)
(***************************************************************************)
EXTENDS ContentIndexer, TLC

CONSTANTS a1, a2, d1, d2, transfer

MCAccounts == {a1, a2}
MCOneAccount == {a1}
MCData == {d1}
MCUnescapable == {}
EscapeData == {d1, d2}
EscapeUnescapable == {d2}
MCOtherKinds == {transfer}
MCNoOtherKinds == {}

(* The results the graphene evaluators return: the new object id for a    *)
(* single create, void for updates and removes, a generic result with the *)
(* new ids for permission_create_many.                                     *)
ChainResults ==
    [k \in ProjectedKinds |->
       CASE k \in {CardCreate, PermCreate} -> {ObjectIdResult}
         [] k = PermCreateMany -> {GenericResult}
         [] OTHER -> {VoidResult}]

(* The results spec.md 4.1 and 4.3 allow: a create may also report its id *)
(* in a generic result, a create_many's result may carry no ids.           *)
UpdateByIdResults == [ChainResults EXCEPT ![CardUpdate] = {ObjectIdResult}]
GenericCreateResults == [ChainResults EXCEPT ![CardCreate] = {GenericResult},
                                             ![PermCreate] = {GenericResult}]
UnresolvedBulkResults == [ChainResults EXCEPT ![PermCreateMany] = {VoidResult}]

AccountSymmetry == Permutations(MCAccounts)

=============================================================================
