------------------------------ MODULE Reducers ------------------------------
(***************************************************************************)
(* Polyphony's reducers: the context a block is sent with by the            *)
(* compressor, and the storage actions that every reducer makes of it.      *)
(*                                                                         *)
(* A key is a tuple that starts with the table's name.  Scripts stand for   *)
(* their hashes; the display fields of etchings and the content of          *)
(* inscriptions are left out.                                               *)
(***************************************************************************)
EXTENDS Ledger, KvActions

CONSTANT MaxOffset    \* u32::MAX

ASSUME OffsetAssumption == MaxOffset \in Nat
-----------------------------------------------------------------------------
(* The context of a block as the compressor sends it.  The code converts a  *)
(* resolver entry twice, once in a page of blocks and once in the stream of *)
(* log entries.                                                             *)

\* offset as u32
AtOffset(list) == [k \in DOMAIN list |-> [list[k] EXCEPT !.offset = @ % (MaxOffset + 1)]]

\* The outputs are behind the inputs in the list that is sent, so that they win where
\* a txo is both.
PageRunes(entry) ==
    [txos |-> entry.runes @@ [r \in DOMAIN entry.inputs |-> entry.inputs[r].dunes],
     etches |-> entry.etches, mints |-> entry.mints]

PageInscriptions(entry) ==
    LET txos == entry.inscriptions
                @@ [r \in DOMAIN entry.inputs |-> entry.inputs[r].inscriptions]
    IN  [txos |-> [r \in DOMAIN txos |-> AtOffset(txos[r])],
         brc20 |-> entry.brc20, new |-> entry.new]

PageTxos(entry) ==
    [r \in DOMAIN entry.inputs |->
        [height |-> entry.inputs[r].height, script |-> entry.inputs[r].script,
         value |-> entry.inputs[r].value]]

PageBlock(entry) ==
    [txos |-> PageTxos(entry), runes |-> PageRunes(entry),
     inscriptions |-> PageInscriptions(entry)]

LogRunes(entry) ==
    [txos |-> entry.runes @@ [r \in DOMAIN entry.inputs |-> entry.inputs[r].dunes],
     etches |-> entry.etches, mints |-> entry.mints]

LogInscriptions(entry) ==
    LET txos == entry.inscriptions
                @@ [r \in DOMAIN entry.inputs |-> entry.inputs[r].inscriptions]
    IN  [txos |-> [r \in DOMAIN txos |-> AtOffset(txos[r])],
         brc20 |-> entry.brc20, new |-> entry.new]

LogTxos(entry) ==
    [r \in DOMAIN entry.inputs |->
        [height |-> entry.inputs[r].height, script |-> entry.inputs[r].script,
         value |-> entry.inputs[r].value]]

LogBlock(entry) ==
    [txos |-> LogTxos(entry), runes |-> LogRunes(entry),
     inscriptions |-> LogInscriptions(entry)]
-----------------------------------------------------------------------------
(* What polyphony's process_action makes of it.                             *)

NonEmpty(t) == RestrictValues(t, LAMBDA x : x # Empty /\ x # <<>>)

EtchIndexes(runes) ==
    [i \in {e.tx : e \in ToSet(runes.etches)} |->
        (CHOOSE e \in ToSet(runes.etches) : e.tx = i).name]

Brc20Resolver(insc) ==
    [id \in {a.id : a \in ToSet(insc.brc20)} |->
        SelectSeq(insc.brc20, LAMBDA a : a.id = id)]

NewByTx(insc) ==
    [t \in {n.tx : n \in ToSet(insc.new)} |-> CHOOSE n \in ToSet(insc.new) : n.tx = t]

BlockTxos(h, block) ==
    [r \in MadeBy(block) |-> LET o == Tx[r[1]].outs[r[2] + 1]
                             IN  [height |-> h, script |-> o.script, value |-> o.value]]

ChainedTxos(block) == SpentBy(block) \cap MadeBy(block)

\* A block and its BlockContext.  txo also has the outputs of the block itself, which
\* the reducers take from the block.
BlockContext(h, block, sent) ==
    [height |-> h, block |-> block, chained |-> ChainedTxos(block),
     txo |-> sent.txos @@ BlockTxos(h, block),
     runes |-> NonEmpty(sent.runes.txos),
     etches |-> EtchIndexes(sent.runes), mints |-> sent.runes.mints,
     inscriptions |-> NonEmpty(sent.inscriptions.txos),
     brc20 |-> Brc20Resolver(sent.inscriptions), new |-> NewByTx(sent.inscriptions)]

\* The inputs and the outputs of the i-th transaction.
Ins(c, i) == Tx[c.block[i]].ins
Outs(c, i) == [v \in DOMAIN Tx[c.block[i]].outs |-> <<c.block[i], v - 1>>]
Unchained(c, refs) == SelectSeq(refs, LAMBDA r : r \notin c.chained)

\* Polyphony has its own copies of the dunestone, the inscription and the deploy parser.
Deciphered(tx) == Decipher(tx.stone, Len(tx.outs))
FromTransactions(tx) == Parse(<<tx.sig>>)
DeployTerms(tx) == IF tx.sig.msg = None THEN None ELSE ParseDeploy(tx.sig.msg)
-----------------------------------------------------------------------------
(* reducer_output_to_storage_ops: the actions that storage makes of one     *)
(* output of a reducer.  An output consumes a txo (value None) or produces  *)
(* it, or it raises or lowers a counter.                                    *)

Out(key, action) == [key |-> key, act |-> action]

UtxosByScriptHashOp(script, height, ref, value) ==
    Out(<<"utxo", script, height, ref>>, IF value = None THEN Delete ELSE Set(value))

TxsByScriptHashOp(script, height, txid, index, input, output) ==
    Out(<<"tx", script, height, txid, index>>, Set([input |-> input, output |-> output]))

SatBalanceByScriptHashOp(script, delta) == Out(<<"sat", script>>, delta)

ScriptByScriptHashOp(script) == Out(<<"script", script>>, Set(script))

ScriptHashByAddressPayloadHashOp(script) == Out(<<"address", script>>, Set(script))

EtchingByRuneIdOp(id, info) == Out(<<"etching", id>>, Set(info))

RuneIdByRuneNameOp(id, name) == Out(<<"name", name>>, Set(id))

MintsByRuneIdOp(id) == Out(<<"mints", id>>, Increment(1))

BalancesByRuneIdOp(id, script, delta) == Out(<<"holder", id, script>>, delta)

RuneBalancesByScriptHashOp(script, id, delta) == Out(<<"dunes", script, id>>, delta)

UtxosByRuneIdOp(id, height, ref, value) ==
    Out(<<"duneutxo", id, height, ref>>, IF value = None THEN Delete ELSE Set(value))

RunesByUtxoOp(ref, value) ==
    Out(<<"runes", ref>>, IF value = None THEN Delete ELSE Set(value))

InscriptionsByUtxoOp(ref, value) ==
    Out(<<"inscribed", ref>>, IF value = None THEN Delete ELSE Set(value))

InscriptionUtxosByScriptHashOp(script, height, ref, value) ==
    Out(<<"inscribedutxo", script, height, ref>>, IF value = None THEN Delete ELSE Set(value))

InscriptionsByScriptHashOp(script, id, value) ==
    Out(<<"inscription", script, id>>, IF value = None THEN Delete ELSE Set(value))

ContentByInscriptionIdOp(id, value) == Out(<<"content", id>>, Set(value))

BalancesByBrc20Op(tick, script, delta) == Out(<<"brc20", tick, script>>, delta)

\* A balance that is lowered to zero stays.
NoDelete(delta) == IF delta.op = "dec" THEN DecrementNoDelete(delta.arg) ELSE delta

Brc20BalancesByScriptHashOps(script, tick, total, available) ==
    <<Out(<<"total", script, tick>>, NoDelete(total)),
      Out(<<"available", script, tick>>, NoDelete(available))>>

Brc20TermsByTickerOp(tick, value) == Out(<<"terms", tick>>, Set(value))

TransferInscriptionsByScriptHashOp(script, tick, id, value) ==
    Out(<<"transfer", script, tick, id>>, IF value = None THEN Delete ELSE Set(value))

CursorOps(height, hash) ==
    <<Out(<<"cursor">>, Set(<<height, hash>>)), Out(<<"info">>, Set(<<height, hash>>))>>
-----------------------------------------------------------------------------
(* The reducers: the outputs for the i-th transaction of a block.           *)

UtxosByScriptHash(c, i) ==
    LET ins  == Unchained(c, Ins(c, i))
        outs == Unchained(c, Outs(c, i))
        op(r, value) == UtxosByScriptHashOp(c.txo[r].script, c.txo[r].height, r, value)
    IN  [k \in DOMAIN ins |-> op(ins[k], None)]
        \o [k \in DOMAIN outs |-> op(outs[k], c.txo[outs[k]].value)]

TxsByScriptHash(c, i) ==
    LET from == {c.txo[r].script : r \in ToSet(Ins(c, i))}
        to   == {c.txo[r].script : r \in ToSet(Outs(c, i))}
    IN  SetToSeq({TxsByScriptHashOp(s, c.height, c.block[i], i - 1, s \in from, s \in to) :
                     s \in from \cup to})

SatBalanceByScriptHash(c, i) ==
    LET ins  == Ins(c, i)
        outs == Outs(c, i)
    IN  [k \in DOMAIN ins |->
            SatBalanceByScriptHashOp(c.txo[ins[k]].script, Decrement(c.txo[ins[k]].value))]
        \o [k \in DOMAIN outs |->
            SatBalanceByScriptHashOp(c.txo[outs[k]].script, Increment(c.txo[outs[k]].value))]

ScriptByScriptHash(c, i) ==
    LET outs == Outs(c, i)
    IN  [k \in DOMAIN outs |-> ScriptByScriptHashOp(c.txo[outs[k]].script)]

\* Scripts without an address are left out.
ScriptHashByAddressPayloadHash(c, i) ==
    LET outs == SelectSeq(Outs(c, i), LAMBDA r : ~Tx[r[1]].outs[r[2] + 1].op_return)
    IN  [k \in DOMAIN outs |-> ScriptHashByAddressPayloadHashOp(c.txo[outs[k]].script)]
-----------------------------------------------------------------------------
\* The etching of a transaction that the compressor reports as successful.
EtchingOf(c, i) ==
    LET tx == Tx[c.block[i]]
    IN  IF (i - 1) \notin DOMAIN c.etches \/ tx.stone = None THEN None
        ELSE Deciphered(tx).etching

EtchingInfo(etching, cenotaph, name) ==
    LET t == IF cenotaph THEN None ELSE etching.terms
    IN  [name |-> name, cenotaph |-> cenotaph,
         max_mint_txs |-> IF t = None THEN None ELSE t.cap,
         amount_per_mint |-> IF t = None THEN None ELSE t.limit,
         height |-> IF t = None THEN <<None, None>> ELSE t.height,
         offset |-> IF t = None THEN <<None, None>> ELSE t.offset]

EtchingByRuneId(c, i) ==
    LET etching == EtchingOf(c, i)
    IN  IF etching = None THEN <<>>
        ELSE <<EtchingByRuneIdOp(<<c.height, i - 1>>,
                   EtchingInfo(etching, Deciphered(Tx[c.block[i]]).cenotaph, c.etches[i - 1]))>>

RuneIdByRuneName(c, i) ==
    IF EtchingOf(c, i) = None THEN <<>>
    ELSE <<RuneIdByRuneNameOp(<<c.height, i - 1>>, c.etches[i - 1])>>

MintsByRuneId(c, i) ==
    LET stone == Deciphered(Tx[c.block[i]])
        mints == SelectSeq([j \in DOMAIN Claims(stone) |-> j],
                           LAMBDA j : <<i - 1, j>> \in c.mints)
    IN  IF Tx[c.block[i]].stone = None THEN <<>>
        ELSE IF stone.cenotaph THEN <<>>
        ELSE [k \in DOMAIN mints |-> MintsByRuneIdOp(DuneId(Claims(stone)[mints[k]]))]

\* One [ref, id, amount] for each dune in each of the txos.
PerRune(c, refs) ==
    FlattenSeq([k \in DOMAIN refs |->
        IF refs[k] \notin DOMAIN c.runes THEN <<>>
        ELSE SetToSeq({[ref |-> refs[k], id |-> id, amount |-> c.runes[refs[k]][id]] :
                          id \in DOMAIN c.runes[refs[k]]})])

BalancesByRuneId(c, i) ==
    LET ins  == PerRune(c, Ins(c, i))
        outs == PerRune(c, Outs(c, i))
        op(x, delta) == BalancesByRuneIdOp(x.id, c.txo[x.ref].script, delta)
    IN  [k \in DOMAIN ins |-> op(ins[k], Decrement(ins[k].amount))]
        \o [k \in DOMAIN outs |-> op(outs[k], Increment(outs[k].amount))]

RuneBalancesByScriptHash(c, i) ==
    LET ins  == PerRune(c, Ins(c, i))
        outs == PerRune(c, Outs(c, i))
        op(x, delta) == RuneBalancesByScriptHashOp(c.txo[x.ref].script, x.id, delta)
    IN  [k \in DOMAIN ins |-> op(ins[k], Decrement(ins[k].amount))]
        \o [k \in DOMAIN outs |-> op(outs[k], Increment(outs[k].amount))]

\* (variant) the outputs spent in their own block are left out of the spent ones only
UtxosByRuneIdChained(c, i) ==
    LET ins  == PerRune(c, Unchained(c, Ins(c, i)))
        outs == PerRune(c, Outs(c, i))
        op(x, value) == UtxosByRuneIdOp(x.id, c.txo[x.ref].height, x.ref, value)
    IN  [k \in DOMAIN ins |-> op(ins[k], None)]
        \o [k \in DOMAIN outs |->
               op(outs[k], <<c.txo[outs[k].ref].script, outs[k].amount, c.txo[outs[k].ref].value>>)]

UtxosByRuneId(c, i) ==
    LET ins  == PerRune(c, Unchained(c, Ins(c, i)))
        outs == PerRune(c, Unchained(c, Outs(c, i)))
        op(x, value) == UtxosByRuneIdOp(x.id, c.txo[x.ref].height, x.ref, value)
    IN  [k \in DOMAIN ins |-> op(ins[k], None)]
        \o [k \in DOMAIN outs |->
               op(outs[k], <<c.txo[outs[k].ref].script, outs[k].amount, c.txo[outs[k].ref].value>>)]

RunesByUtxo(c, i) ==
    LET ins  == SelectSeq(Ins(c, i), LAMBDA r : r \in DOMAIN c.runes)
        outs == SelectSeq(Outs(c, i), LAMBDA r : r \in DOMAIN c.runes)
    IN  [k \in DOMAIN ins |-> RunesByUtxoOp(ins[k], None)]
        \o [k \in DOMAIN outs |-> RunesByUtxoOp(outs[k], c.runes[outs[k]])]
-----------------------------------------------------------------------------
InscriptionsByUtxo(c, i) ==
    LET ins  == SelectSeq(Ins(c, i), LAMBDA r : r \in DOMAIN c.inscriptions)
        outs == SelectSeq(Outs(c, i), LAMBDA r : r \in DOMAIN c.inscriptions)
    IN  [k \in DOMAIN ins |-> InscriptionsByUtxoOp(ins[k], None)]
        \o [k \in DOMAIN outs |-> InscriptionsByUtxoOp(outs[k], c.inscriptions[outs[k]])]

InscriptionUtxosByScriptHash(c, i) ==
    LET ins  == SelectSeq(Ins(c, i), LAMBDA r : r \in DOMAIN c.inscriptions)
        outs == SelectSeq(Outs(c, i), LAMBDA r : r \in DOMAIN c.inscriptions)
        op(r, value) == InscriptionUtxosByScriptHashOp(c.txo[r].script, c.txo[r].height, r, value)
    IN  [k \in DOMAIN ins |-> op(ins[k], None)]
        \o [k \in DOMAIN outs |-> op(outs[k], <<c.txo[outs[k]].value, c.inscriptions[outs[k]]>>)]

\* One [ref, id, offset] for each inscription in each of the txos.
PerInscription(c, refs) ==
    FlattenSeq([k \in DOMAIN refs |->
        IF refs[k] \notin DOMAIN c.inscriptions THEN <<>>
        ELSE [n \in DOMAIN c.inscriptions[refs[k]] |->
                 [ref |-> refs[k], id |-> c.inscriptions[refs[k]][n].id,
                  offset |-> c.inscriptions[refs[k]][n].offset]]])

InscriptionsByScriptHash(c, i) ==
    LET ins  == PerInscription(c, Ins(c, i))
        outs == PerInscription(c, Outs(c, i))
        op(x, value) == InscriptionsByScriptHashOp(c.txo[x.ref].script, x.id, value)
    IN  [k \in DOMAIN ins |-> op(ins[k], None)]
        \o [k \in DOMAIN outs |-> op(outs[k], <<c.height, outs[k].ref, outs[k].offset>>)]

ContentByInscriptionId(c, i) ==
    IF c.block[i] \notin DOMAIN c.new THEN <<>>
    ELSE <<ContentByInscriptionIdOp(c.new[c.block[i]].id, <<c.height, c.new[c.block[i]].number>>)>>
-----------------------------------------------------------------------------
\* The DRC-20 messages that the block has for an inscription.
Messages(c, id, op) ==
    SelectSeq(Get(c.brc20, id, <<>>), LAMBDA a : a.op = op)

\* The transfers used by spending the inputs: inscription and message.
Used(c, i) ==
    LET ins == PerInscription(c, Ins(c, i))
    IN  FlattenSeq([k \in DOMAIN ins |->
            SelectSeq(Messages(c, ins[k].id, "transfer"), LAMBDA a : a.from = ins[k].ref)])

\* The messages that the transaction reveals all by itself.
Revealed(c, i, op) ==
    IF FromTransactions(Tx[c.block[i]]) = "complete" THEN Messages(c, c.block[i], op) ELSE <<>>

Sender(c, a) == c.txo[a.from].script

BalancesByBrc20(c, i) ==
    LET used  == Used(c, i)
        mints == Revealed(c, i, "mint")
        op(a, script, delta) == BalancesByBrc20Op(a.tick, script, delta)
    IN  FlattenSeq([k \in DOMAIN used |->
            <<op(used[k], Sender(c, used[k]), Decrement(used[k].amt)),
              op(used[k], used[k].script, Increment(used[k].amt))>>])
        \o [k \in DOMAIN mints |-> op(mints[k], mints[k].script, Increment(mints[k].amt))]

\* The total balance counts what a transfer inscription has locked, the available
\* one does not.
Brc20BalancesByScriptHash(c, i) ==
    LET used  == Used(c, i)
        mints == Revealed(c, i, "mint")
        inits == Revealed(c, i, "init")
        ops(a, script, total, available) ==
            Brc20BalancesByScriptHashOps(script, a.tick, total, available)
    IN  FlattenSeq([k \in DOMAIN used |->
            ops(used[k], Sender(c, used[k]), Decrement(used[k].amt), Increment(0))
            \o ops(used[k], used[k].script, Increment(used[k].amt), Increment(used[k].amt))])
        \o FlattenSeq([k \in DOMAIN mints |->
            ops(mints[k], mints[k].script, Increment(mints[k].amt), Increment(mints[k].amt))])
        \o FlattenSeq([k \in DOMAIN inits |->
            ops(inits[k], inits[k].script, Increment(0), Decrement(inits[k].amt))])

\* The deploy is parsed again.
Brc20TermsByTicker(c, i) ==
    LET tx == Tx[c.block[i]]
        deploys == SelectSeq(Revealed(c, i, "deploy"), LAMBDA a : DeployTerms(tx) # None)
    IN  [k \in DOMAIN deploys |->
            Brc20TermsByTickerOp(deploys[k].tick, <<DeployTerms(tx), c.block[i]>>)]

\* A transfer inscription is listed until it is first spent.
TransferInscriptionsByScriptHash(c, i) ==
    LET used  == Used(c, i)
        inits == Messages(c, c.block[i], "init")
        home  == SelectSeq(PerInscription(c, Outs(c, i)), LAMBDA x : x.id = c.block[i])
        op(a, script, id, value) == TransferInscriptionsByScriptHashOp(script, a.tick, id, value)
    IN  [k \in DOMAIN used |-> op(used[k], Sender(c, used[k]), used[k].id, None)]
        \o (IF home = <<>> THEN <<>>
            ELSE [k \in DOMAIN inits |->
                    op(inits[k], inits[k].script, c.block[i],
                       [amount |-> inits[k].amt, sats |-> c.txo[home[1].ref].value,
                        utxo |-> home[1].ref, offset |-> home[1].offset,
                        height |-> c.height])])
-----------------------------------------------------------------------------
\* Reducer::reduce_block for every reducer.  No two reducers share a table, so their
\* outputs may be taken transaction by transaction.
ReduceTx(c, i) ==
    UtxosByScriptHash(c, i) \o TxsByScriptHash(c, i) \o SatBalanceByScriptHash(c, i)
    \o ScriptByScriptHash(c, i) \o ScriptHashByAddressPayloadHash(c, i)
    \o EtchingByRuneId(c, i) \o RuneIdByRuneName(c, i) \o MintsByRuneId(c, i)
    \o BalancesByRuneId(c, i) \o RuneBalancesByScriptHash(c, i)
    \o UtxosByRuneId(c, i) \o RunesByUtxo(c, i)
    \o InscriptionsByUtxo(c, i) \o InscriptionUtxosByScriptHash(c, i)
    \o InscriptionsByScriptHash(c, i) \o ContentByInscriptionId(c, i)
    \o BalancesByBrc20(c, i) \o Brc20BalancesByScriptHash(c, i)
    \o Brc20TermsByTicker(c, i) \o TransferInscriptionsByScriptHash(c, i)

ReduceBlock(c) ==
    FlattenSeq([i \in DOMAIN c.block |-> ReduceTx(c, i)]) \o CursorOps(c.height, c.block)
=============================================================================
