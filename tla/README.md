# TLA+ models of the postgres_content plugin

These modules model `src/libraries/plugins/postgres_content/postgres_content_plugin.cpp`
(the plugin), together with the engine that drives it. The engine is the
execution engine of the node. It is not under `src/`, so it is modelled from
spec.md. The modules are checked with TLC.

## 1. Inventory

| Part | Source | State | Operations | Modelled by |
|---|---|---|---|---|
| Plugin lifecycle | cpp 28-34, 66-70, 473-518 | `_postgres_url`, `_start_block`, `pg_conn`, the applied_block connection | plugin_initialize, plugin_startup (connect_to_postgres, create_tables, throwing), plugin_shutdown, destructor | `PostgresContent` (PluginInit, PluginInitialize, PluginStartup with ConnectToPostgres and CreateTables, PluginDestroy), `ContentIndexer` (Initialize, Startup, Shutdown) |
| Block projector / operation router | cpp 192-250 | none (it reads the block and the applied operations) | on_block: the connection gate, the start-block gate, trx_in_block → transaction id, dispatch on `op.which()` | `PostgresContent` (OnBlock, ProjectFrom, ProjectOp) |
| Object-result resolver | cpp 182-190, 243-245 | none | get_object_id_from_result; the generic result for bulk creates | `PostgresContent` (GetObjectIdFromResult) |
| Entity handlers | cpp 252-438 | the two tables | six handlers, each one or more INSERT … ON CONFLICT or UPDATE … WHERE statements | `PostgresContent` (Handle*) |
| Relational sink | cpp 77-180 | `indexer_content_cards`, `indexer_permissions` | escape_string, execute_sql, create_tables | `PostgresContent` (Escape, ExecuteSql, Upsert, UpdateWhere, Write) |
| Execution engine | not in src/ (spec.md 1, 4.2, 6) | on-chain cards and permissions, id counters, the applied-operation list of the current block | the six content operations, other operations (including virtual ones), transaction boundaries, block close, block-log replay after a restart, pop_block on a fork switch | `ContentChain` (spec-modelled), `ContentIndexer` (CloseBlock, Replay, ForkSwitch) |
| Room operations | `room.cpp`, `room.hpp` | none (value objects) | validate, calculate_fee | `RoomOps` (the structs and every validate); calculate_fee not modelled (§5) |

How the parts interact:

1. The application calls plugin_initialize. If a URL is given, it connects `on_block` to `applied_block`.
2. The application calls plugin_startup. This opens the connection and creates the tables, and throws if either fails.
3. From then on, every block the engine applies fires `applied_block`. That calls `on_block` synchronously on the engine's thread.
4. `on_block` walks the block's applied operations in order. Each operation in the projected set goes to its handler.
5. A handler builds its statement and runs it through `execute_sql`. A failure is logged, and processing goes on.

Behaviours that are hard to test here:
- A row's id comes from the operation's result. When no id is found, a placeholder id is made from the transaction id.
- A bulk create pairs its items positionally with an ordered set of ids.
- A statement can fail while the rest of the block still runs.
- Blocks can be applied before the connection exists.
- Nothing is persisted about progress, so there is no resume point.

## 2. Modules

Build order: ContentOps → PostgresContent → ContentChain → SoftDeleteTable → ContentIndexer → MC_ContentIndexer. RoomOps → MC_RoomOps stands apart.

- **RoomOps**: the room operation structs of room.hpp as record sets, and each `validate()` of room.cpp as an operator.
  - No evaluator and no operation variant of the repository refers to room operations. Their whole behaviour is therefore the check a node runs on an operation it receives.
  - The model has a client submitting operations (`Submit`) and the verdict `valid` that `Validate` gives each one.
  - A string is a sequence of character widths (the bytes UTF-8 encodes each character in). `Len` counts characters, and `ByteSize` is what `std::string::size()` returns.
  - MC_RoomOps takes names of 0, 1, 128, 129, 256 and 257 characters, either all one-byte or all two-byte. These are the lengths on each side of the limit, counted both ways.

- **ContentOps**: the operation discriminants that on_block dispatches on (41, 42, 43, 44, 45, 64) and the result variants (0, 1, 3). The plugin and the engine share them.
- **PostgresContent**: the plugin.
  - Variables:
    - `url`: `_postgres_url` is non-empty.
    - `signal`: on_block is connected.
    - `pg_conn`: the connection is open.
    - `cards`, `perms`: the tables.
    - `failed`: a ghost set of the rows whose statement failed.
  - A table is a function from a row key to a row. A key is a record `[oid, trx, item]`:
    - `ObjKey(n)` is an object id `1.x.n`.
    - `PendingKey(t)` is `pending-<t>`.
    - `PendingItemKey(t, i)` is `pending-<t>-<i>`.
  - `KeyLength` computes the length of the id string: 48 or more characters for a placeholder, against `IdColumnWidth == 32`. This reproduces the VARCHAR(32) check that Postgres applies.
  - The six string payload columns of a card are abstracted to one `data` value. permission_type and content_key are abstracted to one `grant` value.
  - A payload in `Unescapable` models PQescapeLiteral returning NULL. Such a payload is stored as the literal `''` (`EmptyLiteral`).
  - `ExecuteSql(key, broken)` succeeds unless one of these holds:
    - there is no connection;
    - the key is too long;
    - the statement is broken, which models an outside failure such as a lost connection or a constraint violation.
  - `Upsert` is `INSERT … ON CONFLICT (id) DO UPDATE SET` the columns the code names. `UpdateWhere` is `UPDATE … WHERE id =`, a no-op when the row is absent.
  - `PluginStartup` goes through `ConnectToPostgres(ok)` and `CreateTables(connected, ddlOk)`.
    - A refused connection leaves no connection and aborts startup.
    - create_tables is a single multi-statement `execute_sql`, which PQexec runs as one implicit transaction. The schema therefore appears whole or not at all.
    - `IF NOT EXISTS` keeps the tables and rows of an earlier run.
    - A failed create_tables aborts startup with the connection left open.
  - `OnBlock(b, ntrx, ops)` is the whole on_block as one step. `ProjectFrom` folds `ProjectOp` over the applied operations in order.
    - Each statement may fail independently (`BrokenChoices`), when `TransientFailures` is TRUE.
    - on_block runs synchronously inside the engine's block application (spec.md 5). Nothing else touches the plugin's state meanwhile, so one step is exact.
- **ContentChain** (spec_modelled): the engine.
  - It assigns card and permission ids in creation order.
  - It records each applied operation with its `trx_in_block` and a result variant. `ResultKinds` sets which variants each kind's evaluator may return.
  - It starts transactions, and it may record virtual operations whose `trx_in_block` is out of range.
  - An on-chain fact keeps the subject, operator, data, status, block of birth and of removal, the transaction, and the item index.
- **SoftDeleteTable**: the abstract specification of a projected table. It is a set of keys, each with an `is_removed` flag. A step may add new keys (live or removed) and set the flag of keys. It never drops a key and never clears a flag.
- **ContentIndexer**: the composition. It adds the application phase, and its actions are:
  - Initialize, Startup (ok or aborted), Operate (engine applies one operation), CloseBlock, Shutdown.
  - CloseBlock increments `head`, clears the operation list, and fires on_block with the block's transaction count.
  - `ReplayBeforeStartup` lets the engine apply new blocks between plugin_initialize and plugin_startup.
  - `option` is the command line: whether `--postgres-content-url` is given. It is fixed for the behaviour, so a restart sees the same configuration.
  - Crash and restart (`MaxCrashes`):
    - `Crash` kills the process at any point. `CrashInBlock` kills it inside `on_block` of the block being closed, after the statements of its first k operations committed (`OnBlockInterrupted`).
    - The process memory is lost: `_postgres_url`, `pg_conn` and the signal connection. The rows persist, because every `execute_sql` runs in autocommit.
    - `partial` records that the tables hold a prefix of block head + 1's writes.
    - After a crash the application goes through Initialize and Startup again. The engine's `Replay` re-applies the logged blocks in order, each firing `applied_block`, either before or after plugin_startup.
    - Then the interrupted block is delivered again. The chain is deterministic and the network holds the block.
    - `log` holds the closed blocks. It is only kept when crashes are possible, since only `Replay` reads it.
    - Crashes are cut at operation boundaries, not between the items of a bulk create. A cut between items leaves a prefix of the same per-statement writes, which the re-delivery rewrites item by item in the same way.
  - Fork switch (`MaxForks`):
    - `undo` is the engine's undo history. `undo[i]` holds the chain facts and id counters when block i began, for every block up to head + 1. It is kept only when forks are possible.
    - `ForkSwitch` pops the k most recent blocks, for any k from 1 to head, and restores `undo[head - k + 1]`. The log and the history are truncated to match.
    - The engine then applies the other branch's blocks in their place. The plugin is not told: it only listens to `applied_block`.
  - The tables are shown to implement SoftDeleteTable through `INSTANCE … WITH rows <- [k \in DOMAIN cards |-> cards[k].removed]`. This is checked as the property `AppendThenMutate`.
- **MC_ContentIndexer**: model values and the definitions of the model:
  - two accounts under a symmetry;
  - one or two payloads, some of them unescapable;
  - `transfer` as the unprojected kind;
  - the result maps: `ChainResults` is the engine as spec.md 4.2 describes it; the others are variant engines for the violation runs.

## 3. Runs

All runs set `CHECK_DEADLOCK FALSE`. The engine stops at `MaxBlocks`, and an aborted or stopped node does nothing more. Both are real final states.

| Run | cfg | Expect | Properties | Bounds |
|---|---|---|---|---|
| projection | MC_ContentIndexer.cfg | pass | TypeOK, ProjectionComplete, ProjectionSound, AppendThenMutate | 3 blocks with start block 2, 2 ops per block, 1 card, 2 perms, bulk of 2 |
| failures_trx | MC_failures_trx.cfg | pass | CreatingTransaction, ProjectionComplete, ProjectionSound | 2 blocks of 2 transactions, any statement may fail, every payload unescapable, no unprojected kinds (the projection run has them) |
| update_by_result | MC_update_by_result.cfg | violation | CardReflectsLatestUpdate | 2 payloads, update result void |
| escape_failure | MC_escape_failure.cfg | violation | PayloadStored | 2 payloads, one rejected by PQescapeLiteral, no statement failures |
| placeholder_width | MC_placeholder_width.cfg | violation | EveryCreateHasRow | create results unresolved |
| generic_create | MC_generic_create.cfg | violation | ProjectionComplete | single creates return a generic result |
| blocks_before_startup | MC_blocks_before_startup.cfg | violation | ProjectionComplete | blocks applied between initialize and startup |
| update_lifecycle | MC_update_lifecycle.cfg | violation | UpdateRefreshesLifecycle | update returns the card id, 3 blocks |
| crash | MC_crash.cfg | pass | ProjectionComplete, ProjectionSound, ReplayIsIdempotent | 2 blocks from block 1, one crash, 1 card, 1 perm |
| fork | MC_fork.cfg | pass | AppendThenMutate | 2 blocks, one fork switch popping one or both |
| fork_switch | MC_fork_switch.cfg | violation | ProjectionSound | 2 blocks, one fork switch |
| room_name_bytes | MC_room_name_bytes.cfg | violation | NameLimitInCharacters | names on both sides of 256, in one- and two-byte characters |

What each property says:

- **ProjectionComplete**: every object created in a projected block, whose own statement did not fail, has its row under its chain id. The row carries the creating subject (and, for a permission, the operator and the stored key), and its soft-delete flag matches the chain's.
- **ProjectionSound**: a row under a chain id belongs to an object created at or after the start block, by the same subject and operator. It is removed only if the object was removed. A remove of an absent id inserts nothing.
- **CreatingTransaction**: a row's `trx_id` names the transaction whose operation inserted it. This covers the `trx_in_block` resolution and the bulk pairing.
- **AppendThenMutate**: the refinement to SoftDeleteTable described in §2.
- **ProjectionComplete and ProjectionSound after a crash**:
  - A removal in a closed block must be in the tables (Complete).
  - A removal in the tables must come from a block whose writes reached them (Sound). That block is `Written`: head, or head + 1 while a block is partial.
  - Without crashes the two together are the equality of flag and chain status.
- **ReplayIsIdempotent**: spec.md 8 says that replaying a block twice yields the same final rows. The property states this in the strong form that the restart path needs.
  - In every reachable state where the plugin is connected, re-running `on_block` for any logged block from start_block on leaves both tables exactly as they are: data, trx_id, the removed flag and the lifecycle columns alike.
  - This holds even when later blocks, or the first operations of a block a crash interrupted, have written the same rows since.
  - It quantifies over every replay that could happen in the state, not only those the run took, and covers every column.
  - Since the rows must stay exactly as they are, it also implies that no replay moves a row's block_num backwards.
- **NameLimitInCharacters**: room_create and room_update accept exactly the names of 1 to 256 characters, as room.hpp and the assertion messages say (§4).
- **PayloadStored**: a permission row whose statements all succeeded holds the encrypted key of its creating operation. This is what spec.md 4.4 (escape returns a safely quoted literal) and 7 (a failure shows only as a log line and a stale or missing row) promise together.
- **CardReflectsLatestUpdate, EveryCreateHasRow, UpdateRefreshesLifecycle, PayloadStored**: these state spec.md 8, 4.3, 4.4 and 7. The violation runs show that the code does not satisfy them (§4).

Why the bounds are enough:
- Three blocks with start block 2 put one block below the gate and two above it. A card can therefore be created in one block and updated or removed in a later one.
- Two operations per block allow create-then-remove in a block and a bulk create next to a single create.
- Two permission ids let a bulk create of two items run its pairing loop twice.
- Two accounts distinguish subject from operator. Symmetry over accounts is sound because no definition names an account.
- Larger bounds (two payloads with failures, three blocks with two transactions) grow past a few minutes without adding new interleavings of the handlers.

Each property of a passing run has a mutant in PROJECT.json: a plausible bug in the code that TLC then finds. Examples:
- a remove written as an upsert;
- the bulk id iterator not advanced;
- on_block stopping at the first failed statement;
- the trx id taken from the wrong transaction;
- a row dropped instead of soft-deleted.

Fairness:
- No run assumes fairness and no run checks liveness.
- The plugin has no progress of its own. `on_block` is a synchronous callback of the engine, and it runs only when the engine applies a block. plugin_initialize and plugin_startup run only when the host calls them.
- A liveness property such as "a block cut short by a crash is eventually projected" would hold only because fairness granted to the host's replay and to block delivery forces it. It would say nothing about the plugin's code.
- What the code does decide is covered by safety: ReplayIsIdempotent says that a replay, whenever it happens, repairs a partial block without disturbing later rows.

## 4. Findings

- **update_by_result** (cpp 293): handle_content_card_update keys the row by the result's object id, not by `op.content_card`.
  - An update creates no object, so its result carries no object id. The evaluators are not in src/, and the model gives an update the void result (the "none" case of spec.md 4.1).
  - The row id is then `pending-<trx>`: 48 characters, which the VARCHAR(32) `content_card_id` column (cpp 127) refuses. The INSERT fails and is only logged, so nothing is written.
  - The card's row therefore never shows the update. spec.md 4.3 and 8 say the update overwrites the card's row and two updates leave it showing the second.
- **placeholder_width** (cpp 258, 351, 393 against 127 and 151): `"pending-"` plus a 40-hex-digit transaction id is 48 characters. The id columns are VARCHAR(32), so every placeholder INSERT fails and is only logged. The placeholder policy of spec.md 4.3 therefore never leaves a row.
- **escape_failure** (cpp 82): when PQescapeLiteral fails, escape_string returns the empty string. The handler splices it into the statement, which succeeds with the literal `''`.
  - The permission row is written and reported as a success, but it holds `''` instead of the encrypted key.
  - spec.md 4.4 says escape returns a safely quoted literal. spec.md 7 says a failure surfaces only as a logged failure and a stale or missing row. Here there is neither a failure nor a stale row, only wrong data.
- **generic_create** (cpp 185): the resolver ignores `generic_operation_result`. spec.md 4.1 says it handles that variant.
- **blocks_before_startup** (cpp 194 and 489): blocks applied after plugin_initialize but before plugin_startup meet `!pg_conn` and are dropped. Nothing catches up later.
- **update_lifecycle** (cpp 313): the update's ON CONFLICT refreshes block_num and operation_type but not trx_id.
- **fork_switch** (cpp 489): spec.md 1 and 4.2 say the projector runs once per *finalized* block. The plugin subscribes to `applied_block`, which fires for every block the engine applies, reversible ones included, and nothing handles a popped block.
  - After a fork switch the popped block's rows stay in the tables.
  - A row can sit under an object id the chain no longer has. The trace TLC finds is: create in block 1, pop block 1.
  - A row can sit under an id the chain reassigns to another subject. The create's ON CONFLICT rewrites only the payload, so the row never gets the new subject.

- **room_name_bytes** (room.cpp 42 and 57): `name.size() <= 256` counts bytes, but the header comment ("max 256 chars") and the assertion message ("max 256 characters") count characters.
  - A room name of 129 two-byte characters (258 bytes) is rejected. That covers any name of more than 128 characters in Cyrillic, Greek or accented Latin script.
  - TLC finds it in an initial state.

What the crash runs show holds:
- A crash anywhere in `on_block`, followed by restart, replay and re-delivery, converges. Every statement is an idempotent upsert or UPDATE keyed by id, so a prefix of a block followed by the whole block gives the whole block's result.
- No replayed statement moves a row's lifecycle back. More strongly, replaying any logged block at any point changes no row at all (ReplayIsIdempotent).
- The one thing a restart cannot mend is the blocks dropped before plugin_startup. That is the blocks_before_startup finding.

## 5. Not modelled

Out of this project:
- **Room fees** (`calculate_fee` in room.cpp). Four of them return the flat `k.fee`.
  - The rotate-key fee is `size_t` arithmetic, `total_size * price_per_kbyte / 1024`, converted to the signed 64-bit `share_type`.
  - `room_rotate_key_operation` and its `fee_parameters_type` are declared nowhere in the repository. The type of `price_per_kbyte`, and with it the width of the product, is unknown.
  - Its fields are taken from their uses in room.cpp.
  - Room operations never reach the content plugin. They are not in any operation variant of the repository.
- **Option parsing** (plugin_set_program_options).
- **The SQL text itself**: the model keeps which row each statement touches and which columns it sets.
- **block_time, created_at, the SERIAL id and the indexes**: no property distinguishes them. block_time is a function of block_num.

- **Permanent connection loss as its own action**. A broken statement already models a lost connection: `TransientFailures` lets any subset of statements fail. spec.md 9 says no reconnect should exist. A dedicated action would therefore only restrict failure patterns that are already checked.
- **Block irreversibility**. The engine may pop any block it still holds. The last irreversible block, which would bound a fork switch, is not in src/ and spec.md does not describe it. The fork_switch finding holds for any pop depth.
- **A replay before startup combined with a crash, and more than one crash.** The blocks_before_startup finding already shows the rows dropped before startup. Two crashes over three blocks grow past the time limit of a run.
