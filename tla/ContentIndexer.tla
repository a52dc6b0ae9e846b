--------------------------- MODULE ContentIndexer ---------------------------
(***************************************************************************)
(* The node with the postgres_content plugin: the application drives the   *)
(* plugin through plugin_initialize and plugin_startup, the engine         *)
(* (ContentChain) applies operations and closes blocks, and closing a      *)
(* block fires applied_block, which runs on_block synchronously on the     *)
(* same thread (spec.md section 5), so a block's projection is one step.   *)
(***************************************************************************)
EXTENDS Naturals, Integers, Sequences, FiniteSets

CONSTANTS
    Accounts, Data, Unescapable, StartBlock, TransientFailures,
    MaxCards, MaxPerms, MaxOps, MaxTrx, MaxBulk, OtherKinds, ResultKinds,
    NoAccount, NoData,
    MaxBlocks,            \* blocks the engine applies
    ReplayBeforeStartup,  \* whether new blocks are applied between
                          \* plugin_initialize and plugin_startup
    MaxCrashes,           \* process crashes in a behaviour
    MaxForks              \* fork switches (pop_block) in a behaviour

VARIABLES
    phase,   \* the application: "created", "initialized", "running",
             \* "aborted" (startup threw) or "stopped"
    url, signal, pg_conn, cards, perms, failed,
    chainCards, chainPerms, nextCard, nextPerm, head, ops, curTrx,
    log,      \* the closed blocks: [ntrx, ops] each, as the block log holds them
    replayed, \* blocks of the log re-applied since the last restart
    partial,  \* the tables hold a prefix of block head + 1's writes
    crashes,
    option,   \* the command line gives --postgres-content-url
    undo,     \* the engine's undo history: undo[i] holds the chain facts
              \* when block i began, for every block up to head + 1
    forks

INSTANCE PostgresContent
INSTANCE ContentChain

plugin == <<url, signal, pg_conn, cards, perms, failed>>
engine == <<chainCards, chainPerms, nextCard, nextPerm, head, ops, curTrx>>
node == <<log, replayed, partial, crashes, option, undo, forks>>
vars == <<phase, plugin, engine, node>>

(* The chain facts the engine's undo database restores on pop_block.      *)
Snapshot == [cards |-> chainCards, perms |-> chainPerms,
             nextCard |-> nextCard, nextPerm |-> nextPerm]

Init ==
    /\ phase = "created"
    /\ PluginInit
    /\ ChainInit
    /\ log = <<>> /\ replayed = 0 /\ partial = FALSE /\ crashes = 0
    /\ option \in BOOLEAN
    /\ undo = <<Snapshot>> /\ forks = 0

Initialize ==
    /\ phase = "created"
    /\ phase' = "initialized"
    /\ PluginInitialize(option)
    /\ UNCHANGED <<engine, node>>

Startup ==
    /\ phase = "initialized"
    /\ \E outcome \in {"running", "aborted"} :
         PluginStartup(outcome) /\ phase' = outcome
    /\ UNCHANGED <<engine, node>>

(* The phases in which the engine applies new blocks.                      *)
BlockPhases == IF ReplayBeforeStartup THEN {"initialized", "running"}
               ELSE {"running"}

(* The engine has re-applied its whole log: it takes new operations.      *)
CaughtUp == replayed = head

Operate ==
    /\ phase \in BlockPhases /\ CaughtUp
    /\ ApplyOperation
    /\ UNCHANGED <<phase, plugin, node>>

(* The engine closes block head + 1, logs it and fires applied_block.      *)
(* Only a replay reads the log, so it is kept only where crashes happen.   *)
CloseBlock ==
    /\ phase \in BlockPhases /\ CaughtUp
    /\ head < MaxBlocks
    /\ head' = head + 1
    /\ ops' = <<>> /\ curTrx' = 0
    /\ OnBlock(head + 1, TrxCount, ops)
    /\ log' = IF MaxCrashes > 0 THEN Append(log, [ntrx |-> TrxCount, ops |-> ops])
              ELSE log
    /\ replayed' = head + 1 /\ partial' = FALSE
    /\ undo' = IF MaxForks > 0 THEN Append(undo, Snapshot) ELSE undo
    /\ UNCHANGED <<phase, crashes, option, forks,
                   chainCards, chainPerms, nextCard, nextPerm>>

(* After a restart the engine re-applies its logged blocks in order, each  *)
(* firing applied_block again, during database open or after startup.      *)
Replay ==
    /\ phase \in {"initialized", "running"}
    /\ replayed < head
    /\ replayed' = replayed + 1
    /\ OnBlock(replayed + 1, log[replayed + 1].ntrx, log[replayed + 1].ops)
    /\ UNCHANGED <<phase, engine, log, partial, crashes, option, undo, forks>>

(* The process dies.  The chain is deterministic and the block being       *)
(* applied is held by the network, so after the restart the engine         *)
(* replays its log and the same block head + 1 is delivered again.         *)
Crash ==
    /\ phase \in {"initialized", "running", "aborted"}
    /\ crashes < MaxCrashes
    /\ phase' = "created" /\ crashes' = crashes + 1 /\ replayed' = 0
    /\ PluginCrash
    /\ UNCHANGED <<engine, log, partial, option, undo, forks>>

(* The process dies inside on_block of block head + 1.                     *)
CrashInBlock ==
    /\ phase \in BlockPhases /\ CaughtUp
    /\ head < MaxBlocks /\ crashes < MaxCrashes
    /\ OnBlockInterrupted(head + 1, TrxCount, ops)
    /\ phase' = "created" /\ crashes' = crashes + 1 /\ replayed' = 0
    /\ partial' = TRUE
    /\ UNCHANGED <<engine, log, option, undo, forks>>

(* A fork switch: the engine pops the k most recent blocks, restoring    *)
(* the chain facts from when the first of them began, and then applies    *)
(* the other branch's blocks in their place.  The plugin is connected to  *)
(* applied_block only (line 489), so it is told nothing of the popped      *)
(* blocks.                                                                 *)
ForkSwitch ==
    /\ phase \in BlockPhases /\ CaughtUp /\ ops = <<>>
    /\ forks < MaxForks
    /\ \E k \in 1 .. head :
         LET back == undo[head - k + 1]
         IN /\ chainCards' = back.cards /\ chainPerms' = back.perms
            /\ nextCard' = back.nextCard /\ nextPerm' = back.nextPerm
            /\ head' = head - k /\ replayed' = head - k
            /\ log' = IF MaxCrashes > 0 THEN SubSeq(log, 1, head - k) ELSE log
            /\ undo' = SubSeq(undo, 1, head - k + 1)
    /\ forks' = forks + 1
    /\ UNCHANGED <<phase, plugin, ops, curTrx, partial, crashes, option>>

Shutdown ==
    /\ phase = "running"
    /\ phase' = "stopped"
    /\ PluginDestroy
    /\ UNCHANGED <<engine, node>>

Next == \/ Initialize \/ Startup \/ Operate \/ CloseBlock \/ Replay
        \/ Crash \/ CrashInBlock \/ ForkSwitch \/ Shutdown

Spec == Init /\ [][Next]_vars

-----------------------------------------------------------------------------
CardIds == 1 .. MaxCards
PermIds == 1 .. MaxPerms
TrxIds == {NoTrx} \cup {TrxIdOf(b, j) : b \in 1 .. MaxBlocks, j \in 0 .. MaxTrx - 1}
RowIds ==
    {ObjKey(n) : n \in CardIds \cup PermIds} \cup {PendingKey(t) : t \in TrxIds}
    \cup {PendingItemKey(t, i) : t \in TrxIds, i \in 0 .. MaxBulk - 1}
Literals == {EmptyLiteral} \cup Data
CardRowType == [subject : Accounts, data : Literals, block : 1 .. MaxBlocks,
            trx : TrxIds, optype : {CardCreate, CardUpdate, CardRemove},
            removed : BOOLEAN]
PermRowType == [subject : Accounts, operator : Accounts, grant : Literals,
            block : 1 .. MaxBlocks, trx : TrxIds,
            optype : {PermCreate, PermRemove, PermCreateMany}, removed : BOOLEAN]
IsTable(t, Row) == DOMAIN t \subseteq RowIds /\ \A k \in DOMAIN t : t[k] \in Row

(* The tables hold rows of their schema; operation_type holds only the     *)
(* codes of the operations of that table (spec.md section 6).              *)
TypeOK ==
    /\ phase \in {"created", "initialized", "running", "aborted", "stopped"}
    /\ url \in BOOLEAN /\ signal \in BOOLEAN /\ pg_conn \in BOOLEAN
    /\ IsTable(cards, CardRowType) /\ IsTable(perms, PermRowType)
    /\ failed \subseteq {"cards", "perms"} \X RowIds
    /\ head \in 0 .. MaxBlocks /\ Len(ops) <= MaxOps /\ curTrx \in 0 .. MaxTrx - 1
    /\ Len(log) \in {0, head} /\ replayed \in 0 .. head /\ partial \in BOOLEAN
    /\ crashes \in 0 .. MaxCrashes /\ forks \in 0 .. MaxForks
    /\ Len(undo) \in {1, head + 1}

-----------------------------------------------------------------------------
(* The literal a payload is stored as.                                     *)
Stored(d) == IF d \in Unescapable THEN EmptyLiteral ELSE d

(* An object the plugin must have projected: created in a closed block at  *)
(* or above the start block while the plugin was configured, with no       *)
(* failed statement for its row.                                           *)
Projected(tbl, chain, n) ==
    /\ url
    /\ chain[n].born \in StartBlock .. head
    /\ <<tbl, ObjKey(n)>> \notin failed

(* Removed on chain by block b at the latest.                             *)
RemovedBy(chain, n, b) == chain[n].status = "removed" /\ chain[n].died <= b

(* The last block whose writes may be in the tables: after a crash inside *)
(* on_block, a prefix of block head + 1's.                                 *)
Written == IF partial THEN head + 1 ELSE head

(* Completeness (spec.md sections 1 and 4.3): every card and permission    *)
(* created in a projected block has a row under its chain id with the      *)
(* subject (and, for a permission, the operator and encrypted key) of its  *)
(* creating operation, soft-deleted if it was removed in a closed block.   *)
(* Bulk-created permissions pair item i with the i-th new id of the        *)
(* result (handle_permission_create_many), so a pairing error shows here.  *)
ProjectionComplete ==
    /\ \A c \in DOMAIN chainCards : Projected("cards", chainCards, c) =>
         LET row == cards[ObjKey(c)]
         IN /\ ObjKey(c) \in DOMAIN cards
            /\ row.subject = chainCards[c].subject
            /\ RemovedBy(chainCards, c, head) => row.removed
    /\ \A p \in DOMAIN chainPerms : Projected("perms", chainPerms, p) =>
         LET row == perms[ObjKey(p)]
         IN /\ ObjKey(p) \in DOMAIN perms
            /\ row.subject = chainPerms[p].subject
            /\ row.operator = chainPerms[p].operator
            /\ row.grant = Stored(chainPerms[p].data)
            /\ RemovedBy(chainPerms, p, head) => row.removed

(* Soundness: a row under a chain id belongs to an object created at or   *)
(* above the start block, by the same subject, and is soft-deleted only if *)
(* the object was removed in a block whose writes reached the tables; a    *)
(* remove of an id never projected inserts nothing (spec.md section 8).   *)
RowFact(row, chain, n) ==
    /\ n \in DOMAIN chain
    /\ chain[n].born >= StartBlock
    /\ row.subject = chain[n].subject
    /\ row.removed => RemovedBy(chain, n, Written)

ProjectionSound ==
    /\ \A k \in DOMAIN cards : k.oid # 0 => RowFact(cards[k], chainCards, k.oid)
    /\ \A k \in DOMAIN perms : k.oid # 0 =>
         RowFact(perms[k], chainPerms, k.oid) /\ perms[k].operator = chainPerms[k.oid].operator

(* The trx_id of a row under a chain id names the transaction whose        *)
(* operation inserted it: on_block resolves trx_in_block into the block's  *)
(* transaction list, and no later statement on the row rewrites trx_id.    *)
CreatingTransaction ==
    /\ \A k \in DOMAIN cards : k.oid # 0 =>
         cards[k].trx = TrxIdOf(chainCards[k.oid].born, chainCards[k.oid].trx)
    /\ \A k \in DOMAIN perms : k.oid # 0 =>
         perms[k].trx = TrxIdOf(chainPerms[k.oid].born, chainPerms[k.oid].trx)

-----------------------------------------------------------------------------
(* Replay and crash recovery.                                              *)

(* on_block re-run for logged block b over the tables as they now stand,  *)
(* every statement succeeding.                                              *)
NoFailures(o) == [i \in 1 .. Len(o) |-> [j \in 1 .. Statements(o[i]) |-> FALSE]]
Reprojected(b) ==
    ProjectFrom([cards |-> cards, perms |-> perms, failed |-> failed],
                log[b].ops, b, log[b].ntrx, NoFailures(log[b].ops), 1)

(* spec.md 8: replaying a block yields the same final row per entity id.   *)
(* Stated in the form the restart path relies on: at any point, while the  *)
(* plugin is connected, on_block re-delivering any logged block from       *)
(* start_block on leaves both tables exactly as they are, data, trx_id,    *)
(* removed flag and lifecycle columns alike, even though later blocks (or  *)
(* the first operations of the block a crash interrupted) have since       *)
(* written the same rows: each handler's ON CONFLICT and UPDATE clauses    *)
(* are no-ops on a row that block, or any later one, wrote.                *)
ReplayIsIdempotent ==
    pg_conn =>
        \A b \in StartBlock .. Len(log) :
            Reprojected(b).cards = cards /\ Reprojected(b).perms = perms

-----------------------------------------------------------------------------
(* What spec.md states and the runs expected to fail check.                *)

(* spec.md 7: a write that fails surfaces only as a logged failure and a   *)
(* stale or missing row, and 4.4: each payload is escaped into the         *)
(* statement.  So a permission row whose statements all succeeded holds    *)
(* the encrypted key of the operation that created it.  escape_string      *)
(* (lines 77-87) returns '' when PQescapeLiteral fails, and the statement  *)
(* then succeeds with that literal.                                        *)
PayloadStored ==
    \A p \in DOMAIN chainPerms :
        Projected("perms", chainPerms, p) /\ ObjKey(p) \in DOMAIN perms
            => perms[ObjKey(p)].grant = chainPerms[p].data

(* Order sensitivity (spec.md section 8): the row of a projected card      *)
(* holds the payload of the last content_card_update applied to it, which *)
(* handle_content_card_update must write under the card's id.              *)
CardReflectsLatestUpdate ==
    \A c \in DOMAIN chainCards : Projected("cards", chainCards, c) =>
        /\ ObjKey(c) \in DOMAIN cards
        /\ cards[ObjKey(c)].data = Stored(chainCards[c].data)

(* Placeholder policy (spec.md section 4.3): a create whose id was not     *)
(* resolved still leaves a row, under "pending-<trx>" or, for the i-th     *)
(* item of a bulk create, "pending-<trx>-<i>".                             *)
Placeholder(chain, n) ==
    LET t == TrxIdOf(chain[n].born, chain[n].trx)
    IN IF chain[n].item = -1 THEN PendingKey(t) ELSE PendingItemKey(t, chain[n].item)

EveryCreateHasRow ==
    /\ \A c \in DOMAIN chainCards : url /\ chainCards[c].born \in StartBlock .. head =>
         {ObjKey(c), Placeholder(chainCards, c)} \cap DOMAIN cards # {}
    /\ \A p \in DOMAIN chainPerms : url /\ chainPerms[p].born \in StartBlock .. head =>
         {ObjKey(p), Placeholder(chainPerms, p)} \cap DOMAIN perms # {}

(* Lifecycle metadata (spec.md sections 3 and 4.3): a row last written by *)
(* a content_card_update carries the block and the transaction of that    *)
(* update.                                                                 *)
UpdateRefreshesLifecycle ==
    \A k \in DOMAIN cards : cards[k].optype = CardUpdate =>
        cards[k].trx.blk = cards[k].block

(* Both tables implement SoftDeleteTable: rows are only appended and       *)
(* soft-deleted, never dropped or restored (spec.md section 3).            *)
CardTable == INSTANCE SoftDeleteTable
    WITH Keys <- RowIds, rows <- [k \in DOMAIN cards |-> cards[k].removed]
PermTable == INSTANCE SoftDeleteTable
    WITH Keys <- RowIds, rows <- [k \in DOMAIN perms |-> perms[k].removed]

AppendThenMutate == CardTable!Spec /\ PermTable!Spec

=============================================================================
