---------------------------------- MODULE Tips ----------------------------------
(***************************************************************************)
(* Tips, batch payments and receipts of the contract (lib.rs,              *)
(* batch_send.rs).  Tips go straight from the sender to the recipient; the *)
(* contract keeps a record of each, a count and a running total by         *)
(* recipient.  send_tip and batch_send_multi write the counters at every   *)
(* item, batch_send writes them once at the end from a map it builds.      *)
(* A batch is a sequence of items: vectors of different lengths are        *)
(* refused and change nothing.                                             *)
(***************************************************************************)
EXTENDS TokenCustody, Sequences, SequencesExt, Sums

CONSTANTS
    Tippers,             \* accounts
    TipAmounts,          \* amounts a sender may ask for
    MAX_BATCH_SIZE, MAX_USER_RECEIPTS,
    MaxTips              \* bound of the model on the tips of a recipient

ASSUME TipsAssumption ==
    /\ TipAmounts \subseteq Int
    /\ {MAX_BATCH_SIZE, MAX_USER_RECEIPTS, MaxTips} \subseteq Nat

VARIABLES
    tips,                \* by recipient: [total, count] and records, by index
    receiptCount,        \* DataKey::ReceiptCount(from)
    receiptByIndex,      \* DataKey::ReceiptByIndex, TotalReceiptCount long
    received             \* tokens the recipients got, on the token contracts

tipVars == <<tips, receiptCount, receiptByIndex, received>>

Items == [to : Tippers, amount : TipAmounts]
Batches == SeqOf(Items, MAX_BATCH_SIZE + 1)

(* Counters, records and receipts are values of their type. *)
TipsTypeOK ==
    /\ DOMAIN tips = Tippers
    /\ \A a \in Tippers : /\ tips[a].total \in Nat /\ tips[a].count \in Nat
                          /\ DOMAIN tips[a].records \subseteq Nat
                          /\ Range(tips[a].records) \subseteq TipAmounts
    /\ receiptCount \in [Tippers -> 0 .. MAX_USER_RECEIPTS]
    /\ receiptByIndex \in Seq(Tippers \X Nat)
    /\ received \in [Tippers -> Nat]

TipsInit ==
    /\ tips = [a \in Tippers |-> [total |-> 0, count |-> 0, records |-> << >>]]
    /\ receiptCount = [a \in Tippers |-> 0] /\ receiptByIndex = <<>>
    /\ received = [a \in Tippers |-> 0]

--------------------------------------------------------------------------------
\* A map or a storage key is set: the entry is overwritten if it is there.
WithEntry(table, key, value) ==
    [k \in DOMAIN table \cup {key} |-> IF k = key THEN value ELSE table[k]]

\* require_transfer_succeeded: the recipient's balance grows by the amount, which
\* a transfer to oneself does not do.
Transferred(balances, item) == [balances EXCEPT ![item.to] = @ + item.amount]

\* What a call works on: the stored values, the tokens received and, in batch_send,
\* recipient_updates.
Start == [tips |-> tips, received |-> received, updates |-> << >>]

\* What send_tip and an item of batch_send_multi do.
Tipped(state, item) ==
    LET old == state.tips[item.to]
        new == [total |-> old.total + item.amount, count |-> old.count + 1,
                records |-> WithEntry(old.records, old.count, item.amount)]
    IN  [state EXCEPT !.received = Transferred(@, item), !.tips = [@ EXCEPT ![item.to] = new]]

Noted(state, item, old) ==
    LET to == item.to
        new == [count |-> old.count + 1, acc |-> old.acc + item.amount]
        row == [state.tips[to] EXCEPT !.records = WithEntry(@, old.count, item.amount)]
    IN  [tips |-> [state.tips EXCEPT ![to] = row],
         received |-> Transferred(state.received, item),
         updates |-> WithEntry(state.updates, to, new)]

Collected_RereadFault(state, item) ==
    LET to == item.to
        stored == state.tips[to].count
    IN  Noted(state, item, [count |-> stored,
                            acc |-> IF to \in DOMAIN state.updates THEN state.updates[to].acc ELSE 0])

\* The count and amount of recipient_updates, which starts from the stored count.
Ahead(state, to) ==
    IF to \in DOMAIN state.updates THEN state.updates[to]
    ELSE [count |-> state.tips[to].count, acc |-> 0]

\* An item of batch_send: the record is written at once, the counters are collected.
Collected(state, item) == Noted(state, item, Ahead(state, item.to))

\* The second loop of batch_send writes the counters.
Settled(state) ==
    [a \in Tippers |->
        IF a \in DOMAIN state.updates
        THEN [total |-> state.tips[a].total + state.updates[a].acc,
              count |-> state.updates[a].count, records |-> state.tips[a].records]
        ELSE state.tips[a]]

\* The loop over the items, which takes them in order.
AfterItem(kind, state, item) == IF kind = "send" THEN Collected(state, item) ELSE Tipped(state, item)

AfterItems(kind, items) ==
    LET run[n \in 0 .. Len(items)] ==
            IF n = 0 THEN Start ELSE AfterItem(kind, run[n - 1], items[n])
    IN  run[Len(items)]

WithinBound(items) ==
    \A a \in Tippers : tips[a].count + Len(SelectSeq(items, LAMBDA i : i.to = a)) <= MaxTips

SendTip(from, item) ==
    LET end == Tipped(Start, item)
    IN  /\ ~paused /\ from # item.to /\ item.amount > 0 /\ WithinBound(<<item>>)
        /\ tips' = end.tips /\ received' = end.received
        /\ UNCHANGED <<custodyVars, receiptCount, receiptByIndex>>

\* The checks.  An item to the sender is refused at once by batch_send_multi and
\* panics at its transfer in batch_send, which rolls the whole call back.
ValidBatch(from, items) ==
    /\ ~paused /\ Len(items) \in 1 .. MAX_BATCH_SIZE
    /\ \A i \in DOMAIN items : items[i].amount > 0 /\ items[i].to # from
    /\ WithinBound(items)

BatchSend(from, items) ==
    LET end == AfterItems("send", items)
    IN  /\ ValidBatch(from, items)
        /\ tips' = Settled(end) /\ received' = end.received
        /\ UNCHANGED <<custodyVars, receiptCount, receiptByIndex>>

BatchSendMulti(from, items) ==
    LET end == AfterItems("multi", items)
    IN  /\ ValidBatch(from, items)
        /\ tips' = end.tips /\ received' = end.received
        /\ UNCHANGED <<custodyVars, receiptCount, receiptByIndex>>

\* mint_receipt, of a positive amount; receipts hold metadata only.
MintReceipt(from) ==
    /\ ~paused /\ receiptCount[from] < MAX_USER_RECEIPTS
    /\ receiptByIndex' = Append(receiptByIndex, <<from, receiptCount[from]>>)
    /\ receiptCount' = [receiptCount EXCEPT ![from] = @ + 1]
    /\ UNCHANGED <<custodyVars, tips, received>>

TipsNext ==
    \/ \E flag \in BOOLEAN : SetPaused(flag) /\ UNCHANGED tipVars
    \/ \E from \in Tippers :
         \/ MintReceipt(from)
         \/ \E item \in Items : SendTip(from, item)
         \/ \E items \in Batches : BatchSend(from, items) \/ BatchSendMulti(from, items)

TipsSpec == CustodyInit /\ TipsInit /\ [][TipsNext]_<<custodyVars, tipVars>>

--------------------------------------------------------------------------------
(* Whatever mix of single tips and batches a recipient is paid by, with the  *)
(* same recipient several times in one batch, its records are numbered       *)
(* without a gap, none is overwritten, and they add up to its total and to   *)
(* the tokens it received.                                                   *)
TipsAddUp ==
    \A a \in Tippers :
        /\ DOMAIN tips[a].records = 0 .. tips[a].count - 1
        /\ Total(tips[a].records) = tips[a].total
        /\ tips[a].total = received[a]

(* The global index names every receipt of every account once.               *)
ReceiptsAreIndexed ==
    /\ IsInjective(receiptByIndex)
    /\ Range(receiptByIndex) = UNION {{a} \X (0 .. receiptCount[a] - 1) : a \in Tippers}

(* Tips and receipts add up and none is overwritten or listed twice.        *)
RecordsAddUp == TipsAddUp /\ ReceiptsAreIndexed
================================================================================
