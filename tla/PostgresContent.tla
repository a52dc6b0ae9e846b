-------------------------- MODULE PostgresContent --------------------------
(***************************************************************************)
(* The postgres_content plugin (postgres_content_plugin.cpp): the block    *)
(* projector, operation router, object-result resolver, the six entity     *)
(* handlers and the relational sink (execute_sql / escape_string) over the *)
(* two tables indexer_content_cards and indexer_permissions.               *)
(*                                                                         *)
(* A table is a function from the UNIQUE id column (content_card_id or     *)
(* permission_id) to its row; the SERIAL id and created_at columns are     *)
(* left out.  The six string columns hash, url, type, description,         *)
(* content_key and storage_data always move together in every statement   *)
(* and are one field "data"; permission_type and content_key likewise are  *)
(* "grant".  block_time moves with block_num in every statement and is     *)
(* left out.                                                               *)
(***************************************************************************)
EXTENDS Naturals, Integers, Sequences, SequencesExt, ContentOps

CONSTANTS
    Accounts,          \* account ids (subject_account, operator_account)
    Data,              \* payload strings of an operation
    Unescapable,       \* payloads PQescapeLiteral rejects (bad encoding)
    StartBlock,        \* --postgres-content-start-block
    TransientFailures  \* whether a statement may fail for a reason
                       \* outside the statement (server down, lost conn.)

ASSUME Unescapable \subseteq Data /\ StartBlock \in Nat
ASSUME TransientFailures \in BOOLEAN

VARIABLES
    url,       \* _postgres_url is not empty
    signal,    \* applied_block is connected to on_block
    pg_conn,   \* pg_conn # nullptr
    cards,     \* indexer_content_cards: content_card_id -> row
    perms,     \* indexer_permissions:   permission_id -> row
    failed     \* ghost: ids of the statements execute_sql reported failed

pluginVars == <<url, signal, pg_conn, cards, perms, failed>>

-----------------------------------------------------------------------------
(* A transaction id is the 40-hex-digit ripemd160 of a transaction; the    *)
(* model names it by its block and position.  "" is NoTrx.                 *)
TrxIdHexLength == 40
NoTrx == [blk |-> 0, pos |-> 0]
TrxIdOf(b, j) == [blk |-> b, pos |-> j]
TrxLength(t) == IF t = NoTrx THEN 0 ELSE TrxIdHexLength

(* A row id: a chain object id "1.x.n" or a synthesized placeholder        *)
(* "pending-<trx>" (item = -1) or "pending-<trx>-<item>".                  *)
NoItem == -1
ObjKey(n) == [oid |-> n, trx |-> NoTrx, item |-> NoItem]
PendingKey(t) == [oid |-> 0, trx |-> t, item |-> NoItem]
PendingItemKey(t, i) == [oid |-> 0, trx |-> t, item |-> i]
NoKey == [oid |-> 0, trx |-> NoTrx, item |-> -2]   \* the empty string

(* Both id columns are VARCHAR(32) (lines 127, 151); an object id "1.7.n"  *)
(* never exceeds 22 characters.                                            *)
IdColumnWidth == 32
MaxObjectIdLength == 22

RECURSIVE Digits(_)
Digits(n) == IF n < 10 THEN 1 ELSE 1 + Digits(n \div 10)

(* The length of the id string the handlers build, lines 258, 351, 393.    *)
KeyLength(k) ==
    IF k.oid # 0 THEN MaxObjectIdLength
    ELSE Len("pending-") + TrxLength(k.trx)
         + (IF k.item = NoItem THEN 0 ELSE 1 + Digits(k.item))

-----------------------------------------------------------------------------
(* escape_string, lines 77-87: with no connection the input is returned;   *)
(* when PQescapeLiteral fails the literal '' is used instead.              *)
EmptyLiteral == "''"
Escape(d) == IF pg_conn /\ d \in Unescapable THEN EmptyLiteral ELSE d

(* The statement of a write is accepted by the server when its id fits     *)
(* the VARCHAR(32) column; execute_sql, lines 89-105, also returns false   *)
(* without a connection and when the statement fails for another reason   *)
(* (the nondeterministic "broken").                                        *)
ExecuteSql(key, broken) == pg_conn /\ ~broken /\ KeyLength(key) <= IdColumnWidth

(* get_object_id_from_result, lines 182-190.                               *)
GetObjectIdFromResult(r) ==
    IF r.which = ObjectIdResult THEN ObjKey(r.oid) ELSE NoKey

(* The id of a created row: the resolved id or "pending-" + trx_id.        *)
CreatedId(resolved, t) == IF resolved = NoKey THEN PendingKey(t) ELSE resolved

(* The row old with the columns of changes set to their new values.       *)
Assign(old, changes) ==
    [f \in DOMAIN old |-> IF f \in DOMAIN changes THEN changes[f] ELSE old[f]]

(* INSERT row ... ON CONFLICT (id) DO UPDATE SET c = EXCLUDED.c for each   *)
(* column c of excluded.                                                   *)
Upsert(tbl, key, row, excluded) ==
    IF key \in DOMAIN tbl
    THEN [tbl EXCEPT ![key] = Assign(@, [c \in excluded |-> row[c]])]
    ELSE [k \in DOMAIN tbl \cup {key} |-> IF k = key THEN row ELSE tbl[k]]

(* Bug variant: the soft delete drops the row (DELETE FROM ... WHERE).     *)
DeleteWhere(tbl, key, changes) ==
    IF key \in DOMAIN tbl THEN [k \in DOMAIN tbl \ {key} |-> tbl[k]] ELSE tbl

(* UPDATE ... SET changes WHERE id = key: no row is touched when the id is *)
(* absent.                                                                 *)
UpdateWhere(tbl, key, changes) ==
    IF key \in DOMAIN tbl THEN [tbl EXCEPT ![key] = Assign(@, changes)] ELSE tbl

(* A write's effect on the accumulator of on_block: the table changes      *)
(* when execute_sql succeeds; a failed one is logged and recorded.          *)
Write(acc, tbl, key, ok, newTbl) ==
    IF ok THEN [acc EXCEPT ![tbl] = newTbl]
    ELSE [acc EXCEPT !.failed = @ \cup {<<tbl, key>>}]

-----------------------------------------------------------------------------
(* Bug variant: the create's ON CONFLICT also sets is_removed from the     *)
(* inserted row, reviving a removed card.                                  *)
CreateRevives(acc, op, b, t, objectId, broken) ==
    LET key == CreatedId(objectId, t)
        row == [subject |-> op.subject, data |-> Escape(op.data), block |-> b,
                trx |-> t, optype |-> CardCreate, removed |-> FALSE]
    IN Write(acc, "cards", key, ExecuteSql(key, broken),
             Upsert(acc.cards, key, row, {"data", "removed"}))

(* handle_content_card_create, lines 252-285.                              *)
HandleContentCardCreate(acc, op, b, t, objectId, broken) ==
    LET key == CreatedId(objectId, t)
        row == [subject |-> op.subject, data |-> Escape(op.data), block |-> b,
                trx |-> t, optype |-> CardCreate, removed |-> FALSE]
    IN Write(acc, "cards", key, ExecuteSql(key, broken),
             Upsert(acc.cards, key, row, {"data"}))

(* handle_content_card_update, lines 287-321: same INSERT, the conflict    *)
(* also sets block_num, block_time and operation_type (not trx_id).        *)
HandleContentCardUpdate(acc, op, b, t, objectId, broken) ==
    LET key == CreatedId(objectId, t)
        row == [subject |-> op.subject, data |-> Escape(op.data), block |-> b,
                trx |-> t, optype |-> CardUpdate, removed |-> FALSE]
    IN Write(acc, "cards", key, ExecuteSql(key, broken),
             Upsert(acc.cards, key, row, {"data", "block", "optype"}))

(* Bug variant: the remove writes the permission code 45 (copy and paste). *)
RemoveWithPermCode(acc, op, b, broken) ==
    LET key == ObjKey(op.target)
    IN Write(acc, "cards", key, ExecuteSql(key, broken),
             UpdateWhere(acc.cards, key,
                         [removed |-> TRUE, block |-> b, optype |-> PermRemove]))

(* Bug variant: the remove is an INSERT ... ON CONFLICT upsert, so it      *)
(* inserts a row for an id that was never projected.                       *)
RemoveAsUpsert(acc, op, b, broken) ==
    LET key == ObjKey(op.target)
        row == [subject |-> op.subject, data |-> EmptyLiteral, block |-> b,
                trx |-> NoTrx, optype |-> CardRemove, removed |-> TRUE]
    IN Write(acc, "cards", key, ExecuteSql(key, broken),
             Upsert(acc.cards, key, row, {"removed", "block", "optype"}))

(* handle_content_card_remove, lines 323-341.                              *)
HandleContentCardRemove(acc, op, b, broken) ==
    LET key == ObjKey(op.target)
    IN Write(acc, "cards", key, ExecuteSql(key, broken),
             UpdateWhere(acc.cards, key,
                         [removed |-> TRUE, block |-> b, optype |-> CardRemove]))

(* Bug variant: subject_account and operator_account are swapped.        *)
PermRowSwapped(subject, item, b, t, code) ==
    [subject |-> item.operator, operator |-> subject, grant |-> Escape(item.data),
     block |-> b, trx |-> t, optype |-> code, removed |-> FALSE]

PermRow(subject, item, b, t, code) ==
    [subject |-> subject, operator |-> item.operator, grant |-> Escape(item.data),
     block |-> b, trx |-> t, optype |-> code, removed |-> FALSE]

(* Bug variant: the permission's ON CONFLICT also refreshes block_num and *)
(* operation_type, as the card update's does.                              *)
PermConflictRefreshesBlock == {"grant", "block", "optype"}

(* ON CONFLICT (permission_id) DO UPDATE SET permission_type, content_key. *)
PermConflict == {"grant"}

(* handle_permission_create, lines 343-374.                                *)
HandlePermissionCreate(acc, op, b, t, newObjectId, broken) ==
    LET key == CreatedId(newObjectId, t)
        item == [operator |-> op.operator, data |-> op.data]
    IN Write(acc, "perms", key, ExecuteSql(key, broken),
             Upsert(acc.perms, key, PermRow(op.subject, item, b, t, PermCreate),
                    PermConflict))

(* Bug variant: the id iterator is never advanced, so every item takes    *)
(* the first new id.                                                       *)
CreateManyItems(acc, op, b, t, ids, broken, advance) ==
    LET ItemKey(i) == IF i < Len(ids) THEN ObjKey(ids[IF advance THEN i + 1 ELSE 1])
                      ELSE PendingItemKey(t, i)
        RECURSIVE Items(_, _)
        Items(a, i) ==
            IF i = Len(op.items) THEN a
            ELSE LET item == op.items[i + 1]
                     key == ItemKey(i)
                 IN Items(Write(a, "perms", key, ExecuteSql(key, broken[i + 1]),
                                Upsert(a.perms, key,
                                       PermRow(op.subject, item, b, t, PermCreateMany),
                                       PermConflict)),
                          i + 1)
    IN Items(acc, 0)

CreateManyNoAdvance(acc, op, b, t, newObjects, broken) ==
    CreateManyItems(acc, op, b, t, SetToSortSeq(newObjects, <), broken, FALSE)

(* handle_permission_create_many, lines 376-418: item i (0-based) takes    *)
(* the i-th id of the flat_set in ascending order, then the placeholder    *)
(* "pending-<trx>-<i>" once the set is exhausted; one statement per item,  *)
(* broken[i+1] tells whether statement i fails for an outside reason.      *)
HandlePermissionCreateMany(acc, op, b, t, newObjects, broken) ==
    LET ids == SetToSortSeq(newObjects, <)
        ItemKey(i) == IF i < Len(ids) THEN ObjKey(ids[i + 1])
                      ELSE PendingItemKey(t, i)
        RECURSIVE Items(_, _)
        Items(a, i) ==
            IF i = Len(op.items) THEN a
            ELSE LET item == op.items[i + 1]
                     key == ItemKey(i)
                 IN Items(Write(a, "perms", key, ExecuteSql(key, broken[i + 1]),
                                Upsert(a.perms, key,
                                       PermRow(op.subject, item, b, t, PermCreateMany),
                                       PermConflict)),
                          i + 1)
    IN Items(acc, 0)

(* Bug variant: the permission remove upserts a row.                      *)
PermRemoveAsUpsert(acc, op, b, broken) ==
    LET key == ObjKey(op.target)
        row == [subject |-> op.subject, operator |-> op.operator,
                grant |-> EmptyLiteral, block |-> b, trx |-> NoTrx,
                optype |-> PermRemove, removed |-> TRUE]
    IN Write(acc, "perms", key, ExecuteSql(key, broken),
             Upsert(acc.perms, key, row, {"removed", "block", "optype"}))

(* handle_permission_remove, lines 420-438.                                *)
HandlePermissionRemove(acc, op, b, broken) ==
    LET key == ObjKey(op.target)
    IN Write(acc, "perms", key, ExecuteSql(key, broken),
             UpdateWhere(acc.perms, key,
                         [removed |-> TRUE, block |-> b, optype |-> PermRemove]))

-----------------------------------------------------------------------------
(* Bug variant: trx_id is computed once per block, from its first         *)
(* transaction.                                                            *)
ProjectOpFirstTrx(acc, op, b, ntrx, brk) ==
    LET t == IF 0 < ntrx THEN TrxIdOf(b, 0) ELSE NoTrx
        created == GetObjectIdFromResult(op.result)
        newObjects == IF op.result.which = GenericResult THEN op.result.objs
                      ELSE {}
    IN CASE op.kind = CardCreate ->
              HandleContentCardCreate(acc, op, b, t, created, brk[1])
         [] op.kind = CardUpdate ->
              HandleContentCardUpdate(acc, op, b, t, created, brk[1])
         [] op.kind = CardRemove -> HandleContentCardRemove(acc, op, b, brk[1])
         [] op.kind = PermCreate ->
              HandlePermissionCreate(acc, op, b, t, created, brk[1])
         [] op.kind = PermRemove -> HandlePermissionRemove(acc, op, b, brk[1])
         [] op.kind = PermCreateMany ->
              HandlePermissionCreateMany(acc, op, b, t, newObjects, brk)
         [] OTHER -> acc

(* One applied operation of on_block's loop, lines 203-248: the trx id of  *)
(* its transaction ("" when trx_in_block is out of range), the resolved    *)
(* id, and the dispatch on op.which(); any other kind is skipped.          *)
ProjectOp(acc, op, b, ntrx, brk) ==
    LET t == IF op.trx < ntrx THEN TrxIdOf(b, op.trx) ELSE NoTrx
        created == GetObjectIdFromResult(op.result)
        newObjects == IF op.result.which = GenericResult THEN op.result.objs
                      ELSE {}
    IN CASE op.kind = CardCreate ->
              HandleContentCardCreate(acc, op, b, t, created, brk[1])
         [] op.kind = CardUpdate ->
              HandleContentCardUpdate(acc, op, b, t, created, brk[1])
         [] op.kind = CardRemove -> HandleContentCardRemove(acc, op, b, brk[1])
         [] op.kind = PermCreate ->
              HandlePermissionCreate(acc, op, b, t, created, brk[1])
         [] op.kind = PermRemove -> HandlePermissionRemove(acc, op, b, brk[1])
         [] op.kind = PermCreateMany ->
              HandlePermissionCreateMany(acc, op, b, t, newObjects, brk)
         [] OTHER -> acc

(* The statements an operation issues, each of which may break.            *)
Statements(op) ==
    CASE op.kind = PermCreateMany -> Len(op.items)
      [] op.kind \in ProjectedKinds -> 1
      [] OTHER -> 0

BrokenChoices(ops) ==
    IF TransientFailures
    THEN {brk \in [1 .. Len(ops) ->
                       UNION {[1 .. Statements(ops[i]) -> BOOLEAN] : i \in 1 .. Len(ops)}] :
             \A i \in 1 .. Len(ops) : brk[i] \in [1 .. Statements(ops[i]) -> BOOLEAN]}
    ELSE {[i \in 1 .. Len(ops) |-> [j \in 1 .. Statements(ops[i]) |-> FALSE]]}

(* Bug variant: the loop stops at the first failed statement.             *)
RECURSIVE StopAtFailure(_, _, _, _, _, _)
StopAtFailure(acc, ops, b, ntrx, brk, i) ==
    IF i > Len(ops) \/ (i > 1 /\ \E j \in DOMAIN brk[i - 1] : brk[i - 1][j]) THEN acc
    ELSE StopAtFailure(ProjectOp(acc, ops[i], b, ntrx, brk[i]), ops, b, ntrx, brk, i + 1)

RECURSIVE ProjectFrom(_, _, _, _, _, _)
ProjectFrom(acc, ops, b, ntrx, brk, i) ==
    IF i > Len(ops) THEN acc
    ELSE ProjectFrom(ProjectOp(acc, ops[i], b, ntrx, brk[i]), ops, b, ntrx, brk, i + 1)

(* on_block, lines 192-250, run by the applied_block signal for block b    *)
(* with ntrx transactions and the applied operations ops.                  *)
OnBlock(b, ntrx, ops) ==
    \/ /\ ~signal
       /\ UNCHANGED pluginVars
    \/ /\ signal
       /\ ~pg_conn \/ b < StartBlock
       /\ UNCHANGED pluginVars
    \/ /\ signal /\ pg_conn /\ b >= StartBlock
       /\ \E brk \in BrokenChoices(ops) :
            LET acc == ProjectFrom([cards |-> cards, perms |-> perms, failed |-> failed],
                                   ops, b, ntrx, brk, 1)
            IN /\ cards' = acc.cards
               /\ perms' = acc.perms
               /\ failed' = acc.failed
       /\ UNCHANGED <<url, signal, pg_conn>>

(* The process dies: the impl's members (lines 66-70) and the signal       *)
(* connection are lost; every execute_sql ran in autocommit, so the rows   *)
(* already written persist.                                                *)
PluginCrash ==
    /\ url' = FALSE /\ signal' = FALSE /\ pg_conn' = FALSE
    /\ UNCHANGED <<cards, perms, failed>>

(* The process dies inside on_block's loop (lines 202-249) for block b,    *)
(* after the statements of its first k applied operations committed.       *)
OnBlockInterrupted(b, ntrx, ops) ==
    /\ signal /\ pg_conn /\ b >= StartBlock
    /\ \E k \in 1 .. Len(ops), brk \in BrokenChoices(ops) :
         LET acc == ProjectFrom([cards |-> cards, perms |-> perms, failed |-> failed],
                                SubSeq(ops, 1, k), b, ntrx, brk, 1)
         IN /\ cards' = acc.cards
            /\ perms' = acc.perms
            /\ failed' = acc.failed
    /\ url' = FALSE /\ signal' = FALSE /\ pg_conn' = FALSE

-----------------------------------------------------------------------------
(* The plugin's lifecycle as the application drives it.                    *)
PluginInit ==
    /\ url = FALSE
    /\ signal = FALSE
    /\ pg_conn = FALSE
    /\ cards = <<>> /\ perms = <<>>
    /\ failed = {}

(* plugin_initialize, lines 473-492: without a URL option (given = FALSE) *)
(* the plugin stays disabled; otherwise the start block is read and        *)
(* on_block is connected.                                                  *)
PluginInitialize(given) ==
    /\ url' = given /\ signal' = given
    /\ UNCHANGED <<pg_conn, cards, perms, failed>>

(* connect_to_postgres, lines 107-120: PQconnectdb, and on any status but *)
(* CONNECTION_OK PQfinish and pg_conn reset to nullptr.  Whether the       *)
(* server accepts the connection is the input ok.                          *)
ConnectToPostgres(ok) == pg_conn' = ok

(* create_tables, lines 122-180: the schema is one multi-statement         *)
(* execute_sql, which PQexec runs as a single implicit transaction, so the *)
(* tables and indexes are created all or none; IF NOT EXISTS keeps tables  *)
(* and rows already there.  Its result is execute_sql's on the new         *)
(* connection: false without one, else whether the server runs the DDL.   *)
CreateTables(connected, ddlOk) == connected /\ ddlOk

(* plugin_startup, lines 494-513: no URL returns at once; a failed         *)
(* connection and a failed create_tables throw, the latter with the        *)
(* connection left open.  The outcome "running" or "aborted" is what the   *)
(* host sees.                                                              *)
PluginStartup(outcome) ==
    \/ /\ ~url
       /\ outcome = "running"
       /\ UNCHANGED pluginVars
    \/ /\ url
       /\ \E connected, ddlOk \in BOOLEAN :
            /\ ConnectToPostgres(connected)
            /\ outcome = IF connected /\ CreateTables(connected, ddlOk)
                         THEN "running" ELSE "aborted"
       /\ UNCHANGED <<url, signal, cards, perms, failed>>

(* ~postgres_content_plugin_impl, lines 28-34: PQfinish on destruction;    *)
(* plugin_shutdown (515-518) itself does nothing.                          *)
PluginDestroy ==
    /\ pg_conn' = FALSE
    /\ UNCHANGED <<url, signal, cards, perms, failed>>

=============================================================================
