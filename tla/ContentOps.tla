----------------------------- MODULE ContentOps -----------------------------
(***************************************************************************)
(* Discriminants shared by the engine and the plugin: op.which() of the    *)
(* operations on_block projects (postgres_content_plugin.cpp line 220 and  *)
(* 241) and result.which() of an operation_result (line 184).              *)
(***************************************************************************)
CardCreate == 41
CardUpdate == 42
CardRemove == 43
PermCreate == 44
PermRemove == 45
PermCreateMany == 64

ProjectedKinds == {CardCreate, CardUpdate, CardRemove, PermCreate, PermRemove,
                   PermCreateMany}

VoidResult == 0
ObjectIdResult == 1
GenericResult == 3

=============================================================================
