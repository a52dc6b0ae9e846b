---------------------------- MODULE ContentChain ----------------------------
(***************************************************************************)
(* The consensus/execution engine as the plugin sees it (spec.md sections  *)
(* 1, 4.2 and 6; the engine is not part of src/).  It applies operations   *)
(* to on-chain content cards and permissions, assigns object ids in        *)
(* creation order, and records for the block being applied the list of     *)
(* applied operations, each with its transaction-in-block index and its    *)
(* discriminated result.  The block itself is closed by the composing      *)
(* module, which fires applied_block.                                      *)
(***************************************************************************)
EXTENDS Naturals, Integers, Sequences, ContentOps

CONSTANTS
    Accounts, Data,
    MaxCards,       \* content card ids 1..MaxCards
    MaxPerms,       \* permission ids 1..MaxPerms
    MaxOps,         \* applied operations per block
    MaxTrx,         \* transactions per block
    MaxBulk,        \* items of one permission_create_many
    OtherKinds,     \* discriminants the plugin does not project
    ResultKinds,    \* op kind -> result discriminants its evaluator returns
    NoAccount, NoData  \* the default of a field an operation does not have

VARIABLES
    chainCards,  \* id -> on-chain card [subject, data, status, born, died, trx, item]
    chainPerms,  \* id -> on-chain permission
    nextCard, nextPerm,
    head,        \* number of the last applied block
    ops,         \* applied operations of the block being applied
    curTrx       \* index of the transaction being applied

chainVars == <<chainCards, chainPerms, nextCard, nextPerm, head, ops, curTrx>>

Result(kind, which, oid, objs) ==
    [which |-> which,
     oid |-> IF which = ObjectIdResult THEN oid ELSE 0,
     objs |-> IF which = GenericResult THEN objs ELSE {}]

(* The applied operation appended for this step, in the current           *)
(* transaction; fields an operation kind does not have are defaults.       *)
Applied(kind, subject, operator, data, target, items, which, oid, objs) ==
    [kind |-> kind, trx |-> curTrx, subject |-> subject, operator |-> operator,
     data |-> data, target |-> target, items |-> items,
     result |-> Result(kind, which, oid, objs)]

Room == Len(ops) < MaxOps
Live(tbl, id) == id \in DOMAIN tbl /\ tbl[id].status = "live"
Extend(f, id, v) == [x \in DOMAIN f \cup {id} |-> IF x = id THEN v ELSE f[x]]

ChainInit ==
    /\ chainCards = <<>> /\ chainPerms = <<>>
    /\ nextCard = 1 /\ nextPerm = 1
    /\ head = 0 /\ ops = <<>> /\ curTrx = 0

content_card_create(a, d) ==
    /\ Room /\ nextCard <= MaxCards
    /\ \E w \in ResultKinds[CardCreate] :
         ops' = Append(ops, Applied(CardCreate, a, NoAccount, d, 0, <<>>,
                                    w, nextCard, {nextCard}))
    /\ chainCards' = Extend(chainCards, nextCard,
         [subject |-> a, data |-> d, status |-> "live", born |-> head + 1, died |-> 0,
          trx |-> curTrx, item |-> -1])
    /\ nextCard' = nextCard + 1
    /\ UNCHANGED <<chainPerms, nextPerm, head, curTrx>>

content_card_update(c, d) ==
    /\ Room /\ Live(chainCards, c)
    /\ \E w \in ResultKinds[CardUpdate] :
         ops' = Append(ops, Applied(CardUpdate, chainCards[c].subject,
                                    NoAccount, d, c, <<>>, w, c, {}))
    /\ chainCards' = [chainCards EXCEPT ![c].data = d]
    /\ UNCHANGED <<chainPerms, nextCard, nextPerm, head, curTrx>>

content_card_remove(c) ==
    /\ Room /\ Live(chainCards, c)
    /\ \E w \in ResultKinds[CardRemove] :
         ops' = Append(ops, Applied(CardRemove, chainCards[c].subject,
                                    NoAccount, NoData, c, <<>>, w, c, {}))
    /\ chainCards' = [chainCards EXCEPT ![c].status = "removed", ![c].died = head + 1]
    /\ UNCHANGED <<chainPerms, nextCard, nextPerm, head, curTrx>>

(* A permission as created on chain; trx and item (-1 for a single        *)
(* create) record where the operation was applied.                         *)
PermFact(a, o, d, item) ==
    [subject |-> a, operator |-> o, data |-> d, status |-> "live",
     born |-> head + 1, died |-> 0, trx |-> curTrx, item |-> item]

permission_create(a, o, d) ==
    /\ Room /\ nextPerm <= MaxPerms
    /\ \E w \in ResultKinds[PermCreate] :
         ops' = Append(ops, Applied(PermCreate, a, o, d, 0, <<>>,
                                    w, nextPerm, {nextPerm}))
    /\ chainPerms' = Extend(chainPerms, nextPerm, PermFact(a, o, d, -1))
    /\ nextPerm' = nextPerm + 1
    /\ UNCHANGED <<chainCards, nextCard, head, curTrx>>

(* Item i of the batch is created as object nextPerm + i - 1.              *)
permission_create_many(a, items) ==
    LET n == Len(items)
        new == {nextPerm + i - 1 : i \in 1 .. n}
    IN /\ Room /\ nextPerm + n - 1 <= MaxPerms
       /\ \E w \in ResultKinds[PermCreateMany] :
            ops' = Append(ops, Applied(PermCreateMany, a, NoAccount, NoData,
                                       0, items, w, nextPerm, new))
       /\ chainPerms' = [p \in DOMAIN chainPerms \cup new |->
                           IF p \in new
                           THEN PermFact(a, items[p - nextPerm + 1].operator,
                                         items[p - nextPerm + 1].data, p - nextPerm)
                           ELSE chainPerms[p]]
       /\ nextPerm' = nextPerm + n
       /\ UNCHANGED <<chainCards, nextCard, head, curTrx>>

permission_remove(p) ==
    /\ Room /\ Live(chainPerms, p)
    /\ \E w \in ResultKinds[PermRemove] :
         ops' = Append(ops, Applied(PermRemove, chainPerms[p].subject,
                                    NoAccount, NoData, p, <<>>, w, p, {}))
    /\ chainPerms' = [chainPerms EXCEPT ![p].status = "removed", ![p].died = head + 1]
    /\ UNCHANGED <<chainCards, nextCard, nextPerm, head, curTrx>>

(* Any other operation (a transfer, a room operation, a virtual operation  *)
(* whose trx_in_block is the transaction count, i.e. out of range).        *)
other_operation(k, virtual) ==
    /\ Room
    /\ ops' = Append(ops, [Applied(k, NoAccount, NoAccount, NoData, 0, <<>>,
                                   VoidResult, 0, {})
                           EXCEPT !.trx = IF virtual THEN MaxTrx ELSE curTrx])
    /\ UNCHANGED <<chainCards, chainPerms, nextCard, nextPerm, head, curTrx>>

(* The next transaction of the block starts once the current one applied  *)
(* an operation.                                                           *)
NextTransaction ==
    /\ \E i \in DOMAIN ops : ops[i].trx = curTrx
    /\ curTrx + 1 < MaxTrx
    /\ curTrx' = curTrx + 1
    /\ UNCHANGED <<chainCards, chainPerms, nextCard, nextPerm, head, ops>>

Items == UNION {[1 .. n -> [operator : Accounts, data : Data]] : n \in 1 .. MaxBulk}

ApplyOperation ==
    \/ \E a \in Accounts, d \in Data : content_card_create(a, d)
    \/ \E c \in DOMAIN chainCards, d \in Data : content_card_update(c, d)
    \/ \E c \in DOMAIN chainCards : content_card_remove(c)
    \/ \E a, o \in Accounts, d \in Data : permission_create(a, o, d)
    \/ \E a \in Accounts, items \in Items : permission_create_many(a, items)
    \/ \E p \in DOMAIN chainPerms : permission_remove(p)
    \/ \E k \in OtherKinds, v \in BOOLEAN : other_operation(k, v)
    \/ NextTransaction

(* Transactions of the block being closed: ops name 0 .. curTrx.           *)
TrxCount == IF \E i \in DOMAIN ops : ops[i].trx = curTrx THEN curTrx + 1 ELSE curTrx

=============================================================================
