------------------------------ MODULE Polyphony ------------------------------
(***************************************************************************)
(* A polyphony instance that follows the compressor's tables: the actions   *)
(* of a block are merged per key; far from the tip they are batched and     *)
(* executed without inverses, at the tip every block is executed in one     *)
(* transaction with its inverses, which a rollback executes.                *)
(*                                                                         *)
(* Delivery is immediate here.  That the right blocks arrive in the right   *)
(* order, also after crashes, is the subject of Indexer and Storage.        *)
(***************************************************************************)
EXTENDS Reducers

CONSTANT MaxBatch     \* blocks_per_batch

VARIABLES kv,         \* the TiKV instance
          batch,      \* the SyncBatcher: key -> merged action
          pending,    \* its number of blocks
          live,       \* self.mutable
          undo        \* the rollback buffer: height -> key -> inverse action

polyphonyVars == <<ledgerVars, kv, batch, pending, live, undo>>
-----------------------------------------------------------------------------
(* SyncBatcher.                                                             *)

\* The outputs on a key, in order.
On(outs, k) == LET mine == SelectSeq(outs, LAMBDA o : o.key = k)
               IN  [i \in DOMAIN mine |-> mine[i].act]

\* (variant) of two actions on one key the later one is kept
PushLast(actions, outs) ==
    [k \in {o.key : o \in ToSet(outs)} |-> Last(On(outs, k))] @@ actions

PushActions(actions, outs) ==
    [k \in {o.key : o \in ToSet(outs)} |->
        LET mine == On(outs, k)
        IN  IF k \in DOMAIN actions THEN FoldLeft(Merge, actions[k], mine)
            ELSE FoldLeft(Merge, mine[1], Tail(mine))] @@ actions

\* The byte estimate may ask for a flush at any time.
ShouldFlush(large) == large \/ pending >= MaxBatch
-----------------------------------------------------------------------------
\* A block behind the mutable window.
RollForwardBulk(outs, large) ==
    /\ ~live
    /\ IF ShouldFlush(large)
       THEN /\ kv' = ApplyActions(kv, batch)
            /\ batch' = PushActions(Empty, outs) /\ pending' = 1
       ELSE /\ batch' = PushActions(batch, outs) /\ pending' = pending + 1
            /\ UNCHANGED kv
    /\ UNCHANGED <<live, undo>>

\* A block of the mutable window; the first one flushes the batch.
RollForwardLive(h, outs) ==
    LET base == ApplyActions(kv, batch)
        actions == PushActions(Empty, outs)
    IN  /\ kv' = ApplyLive(base, actions)
        /\ undo' = Put(undo, h, InverseActions(base, actions))
        /\ batch' = Empty /\ pending' = 0
        /\ live' = TRUE

\* (variant) oldest first
RollBackOldestFirst(h, tip) ==
    /\ \A k \in (h + 1)..tip : k \in DOMAIN undo
    /\ kv' = FoldLeft(LAMBDA t, k : ApplyActions(t, undo[h + k]), kv,
                      [k \in 1..(tip - h) |-> k])
    /\ undo' = Drop(undo, (h + 1)..tip)
    /\ UNCHANGED <<batch, pending, live>>

\* Block by block, newest first; without the blocks in the buffer the worker panics.
RollBackTo(h, tip) ==
    /\ \A k \in (h + 1)..tip : k \in DOMAIN undo
    /\ kv' = FoldLeft(LAMBDA t, k : ApplyActions(t, undo[tip + 1 - k]), kv,
                      [k \in 1..(tip - h) |-> k])
    /\ undo' = Drop(undo, (h + 1)..tip)
    /\ UNCHANGED <<batch, pending, live>>

Forward(txs) ==
    /\ Apply(txs)
    /\ LET h == Tip(db) + 1
       IN  \E sent \in {PageBlock(db'.resolver[h]), LogBlock(db'.resolver[h])} :
           \E c \in {BlockContext(h, db'.blocks[h], sent)} :
           \E outs \in {ReduceBlock(c)} :
              \/ \E large \in BOOLEAN : RollForwardBulk(outs, large)
              \/ RollForwardLive(h, outs)

Back(h) == RollBack(h) /\ RollBackTo(h, Tip(db))

\* The compressor alone.
Behind == /\ (\E txs \in BlockBodies : ApplyFails(txs)) \/ Restart
          /\ UNCHANGED <<kv, batch, pending, live, undo>>

PolyphonyInit ==
    /\ LedgerInit
    /\ kv = Empty /\ batch = Empty /\ pending = 0
    /\ live = FALSE /\ undo = Empty

PolyphonyNext ==
    \/ \E txs \in BlockBodies : Forward(txs)
    \/ \E h \in 1..MaxHeight : Back(h)
    \/ Behind

PolyphonySpec == PolyphonyInit /\ [][PolyphonyNext]_polyphonyVars
-----------------------------------------------------------------------------
(* What the keys must be.                                                   *)

\* The instance once the batch is written.
Reads == ApplyActions(kv, batch)

Table(t, name) == {k \in DOMAIN t : k[1] = name}
ReadAmount(t, k) == Amount(Value(t, k))

\* The table has exactly the entries of a function.
Holds(t, name, entries) == Restrict(t, Table(t, name)) = entries
\* The counters of the table are the amounts of a function, where absent is zero.
Totals(t, name, amounts) ==
    /\ \A k \in DOMAIN amounts : ReadAmount(t, k) = amounts[k]
    /\ \A k \in Table(t, name) \ DOMAIN amounts : ReadAmount(t, k) = 0

Utxos == db.txo
Places == UNION {{<<h, i - 1>> : i \in DOMAIN db.blocks[h]} : h \in DOMAIN db.blocks}
TxAt(p) == db.blocks[p[1]][p[2] + 1]
Scripts == {o.script : o \in UNION {ToSet(Tx[t].outs) : t \in DOMAIN Tx}}
Spends(t, s) == \E r \in Inputs(t) : Tx[r[1]].outs[r[2] + 1].script = s
Pays(t, s) == \E o \in ToSet(Tx[t].outs) : o.script = s

\* What an address holds and did is what the chain says: its unspent outputs, their
\* sum, and every transaction that spends from it or pays to it with its place in the
\* chain, whether the blocks were batched or came at the tip and after rollbacks;
\* and the cursor is the tip (the script hash reducers, storage/tikv.rs).
OutputsIndexed ==
    LET t == Reads IN
    /\ Holds(t, "utxo", [k \in {<<"utxo", Utxos[r].script, Utxos[r].height, r>> : r \in DOMAIN Utxos}
                        |-> Utxos[k[4]].value])
    /\ Totals(t, "sat", [k \in {<<"sat", s>> : s \in Scripts} |->
                        MapThenSumSet(LAMBDA r : Utxos[r].value,
                                      {r \in DOMAIN Utxos : Utxos[r].script = k[2]})])
    /\ Holds(t, "tx", [k \in {x \in {<<"tx", s, p[1], TxAt(p), p[2]>> : s \in Scripts, p \in Places} :
                              Spends(x[4], x[2]) \/ Pays(x[4], x[2])}
                      |-> [input |-> Spends(k[4], k[2]), output |-> Pays(k[4], k[2])]])
    /\ Holds(t, "cursor", [k \in {<<"cursor">> : h \in DOMAIN db.blocks} |->
                          <<Tip(db), db.blocks[Tip(db)]>>])

DuneUtxos == {r \in DOMAIN Utxos : Utxos[r].dunes # Empty}
Held(id, s) == MapThenSumSet(LAMBDA r : Get(Utxos[r].dunes, id, 0),
                             {r \in DOMAIN Utxos : Utxos[r].script = s})
Holdings == {<<id, s>> : id \in DOMAIN db.terms, s \in Scripts}
\* The claims that the blocks of the chain report as successful.
ClaimsOf(id) ==
    UNION {{<<h, m>> : m \in {x \in db.resolver[h].mints :
                LET tx == Tx[TxAt(<<h, x[1]>>)]
                IN  DuneId(Claims(Decipher(tx.stone, Len(tx.outs)))[x[2]]) = id}} :
           h \in DOMAIN db.blocks}

\* What the index says of dunes is what the chain says: the dunes of each unspent
\* output, who holds how much seen from the holder and from the dune, the unspent
\* outputs of a dune, its terms, its name and its mints (the rune reducers).
DunesIndexed ==
    LET t == Reads IN
    /\ Holds(t, "runes", [k \in {<<"runes", r>> : r \in DuneUtxos} |-> Utxos[k[2]].dunes])
    /\ Totals(t, "dunes", [k \in {<<"dunes", x[2], x[1]>> : x \in Holdings} |-> Held(k[3], k[2])])
    /\ Totals(t, "holder", [k \in {<<"holder", x[1], x[2]>> : x \in Holdings} |-> Held(k[2], k[3])])
    /\ Holds(t, "duneutxo",
             [k \in UNION {{<<"duneutxo", id, Utxos[r].height, r>> : id \in DOMAIN Utxos[r].dunes} :
                           r \in DuneUtxos} |->
                 <<Utxos[k[4]].script, Utxos[k[4]].dunes[k[2]], Utxos[k[4]].value>>])
    /\ Holds(t, "name", [k \in {<<"name", n>> : n \in DOMAIN db.names} |-> db.names[k[2]]])
    /\ Table(t, "etching") = {<<"etching", id>> : id \in DOMAIN db.terms}
    /\ \A id \in DOMAIN db.terms :
          LET e == t[<<"etching", id>>]
          IN  <<e.name, e.max_mint_txs, e.amount_per_mint>>
                  = <<db.terms[id].name, db.terms[id].cap, db.terms[id].amount>>
    /\ Totals(t, "mints", [k \in {<<"mints", id>> : id \in DOMAIN db.terms} |->
                          Cardinality(ClaimsOf(k[2]))])

Inscribed == {r \in DOMAIN Utxos : Utxos[r].inscriptions # <<>>}
\* An inscription that one transaction reveals.  Reducers do not look at others'
\* DRC-20 messages.
Single(id) == Parse(<<Tx[id].sig>>) = "complete"
Drc20Actions == UNION {ToSet(db.resolver[h].brc20) : h \in DOMAIN db.blocks}
Tickers == DOMAIN db.drc20
\* No DRC-20 message that the reducers overlook is about the script.
Overlooked(s) == \E a \in Drc20Actions : /\ a.op # "deploy"
                                         /\ a.script = s /\ ~Single(a.id)
LockedBy(s, tick) ==
    MapThenSumSet(LAMBDA r :
        MapThenSumSet(LAMBDA id : Utxos[r].unused[id].amt,
                      {id \in DOMAIN Utxos[r].unused : Utxos[r].unused[id].tick = tick}),
        {r \in DOMAIN Utxos : Utxos[r].script = s})
\* The width of an offset in the messages to polyphony and in its tables.
Offset32(n) == n % (MaxOffset + 1)
Lists(t) == {<<k[2], k[3], t[k]>> : k \in Table(t, "inscription")}
RevealedOnce(S) == {x \in S : Cardinality(RevealsOf(x[2])) = 1}
\* The height and the number of the latest reveal.
Reveal(id) ==
    LET h == Max({x \in DOMAIN db.blocks : \E n \in ToSet(db.resolver[x].new) : n.id = id})
    IN  <<h, Last(SelectSeq(db.resolver[h].new, LAMBDA n : n.id = id)).number>>
ListOf(r) == {<<Utxos[r].script, x.id, <<Utxos[r].height, r, Offset32(x.offset)>>>> :
                 x \in ToSet(Utxos[r].inscriptions)}
Coinbase(r) == Tx[r[1]].ins = <<>>
OffsetIn(r, id) == Offset32((CHOOSE x \in ToSet(Utxos[r].inscriptions) : x.id = id).offset)

\* What the index says of inscriptions and DRC-20 tokens is what the chain says: the
\* inscriptions of each unspent output (their offsets as far as 32 bits tell), their
\* numbers, the terms of tokens, who holds how much in total and available, and which
\* transfer inscriptions are unused (the inscription and brc20 reducers).  Left out are
\* messages of inscriptions that are spread over several transactions, which the
\* reducers overlook on purpose; inscriptions spent as a fee, which the list of the
\* miner's script may lack: see InscriptionsHeld; and inscriptions completed twice,
\* which a list forgets when one of the two is spent.
InscriptionsIndexed ==
    LET t == Reads IN
    /\ Holds(t, "inscribed", [k \in {<<"inscribed", r>> : r \in Inscribed} |->
                              AtOffset(Utxos[k[2]].inscriptions)])
    /\ Holds(t, "inscribedutxo",
             [k \in {<<"inscribedutxo", Utxos[r].script, Utxos[r].height, r>> : r \in Inscribed} |->
                 <<Utxos[k[4]].value, AtOffset(Utxos[k[4]].inscriptions)>>])
    /\ Lists(t) \subseteq UNION {ListOf(r) : r \in Inscribed}
    /\ RevealedOnce(UNION {ListOf(r) : r \in {x \in Inscribed : ~Coinbase(x)}}) \subseteq Lists(t)
    /\ Holds(t, "content", [k \in {<<"content", n.id>> : n \in ToSet(NewInscriptions)} |->
                            Reveal(k[2])])
    /\ Holds(t, "terms", [k \in {<<"terms", a.tick>> :
                              a \in {x \in Drc20Actions : x.op = "deploy" /\ Single(x.id)}} |->
                          <<db.drc20[k[2]], (CHOOSE a \in Drc20Actions :
                                                a.op = "deploy" /\ a.tick = k[2]).id>>])
    /\ \A tick \in Tickers, s \in {x \in Scripts : ~Overlooked(x)} :
          LET available == Get(db.balance, <<s, tick>>, 0)
              total == available + LockedBy(s, tick)
          IN  /\ ReadAmount(t, <<"available", s, tick>>) = available
              /\ ReadAmount(t, <<"total", s, tick>>) = total
              /\ ReadAmount(t, <<"brc20", tick, s>>) = total
    /\ {<<k, t[k].utxo, t[k].offset, t[k].amount>> : k \in Table(t, "transfer")} =
          UNION {{<<<<"transfer", Utxos[r].script, Utxos[r].unused[id].tick, id>>,
                    r, OffsetIn(r, id), Utxos[r].unused[id].amt>> :
                      id \in {x \in DOMAIN Utxos[r].unused : Single(x)}} : r \in DOMAIN Utxos}

\* The list of inscriptions of a script has every inscription in its unspent outputs
\* ("Inscriptions held by an address", the InscriptionsByScriptHash reducer).
InscriptionsHeld == UNION {ListOf(r) : r \in Inscribed} \subseteq Lists(Reads)
=============================================================================
