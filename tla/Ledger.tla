------------------------------- MODULE Ledger -------------------------------
(***************************************************************************)
(* What the compressor's database says about outputs, dunes, inscriptions   *)
(* and DRC-20 tokens: apply_block_with_context and rollback as far as they  *)
(* change these tables, and the roll stage's in-memory cache of outputs.    *)
(*                                                                         *)
(* The network chooses the blocks: any valid choice and order of            *)
(* transactions of a library, so that after a rollback a transaction may    *)
(* come back at another height, in another place, or not at all.  Block     *)
(* hashes, the log and the flush are the subject of ChainDB.                *)
(***************************************************************************)
EXTENDS Dunes, Inscriptions

CONSTANTS Tx,               \* txid -> transaction, coinbases included
          CoinbaseAt,       \* height -> txid
          MaxHeight,
          MaxTxs,           \* bound: transactions per block besides the coinbase
          MaxRollbacks,     \* bound: rollbacks
          MaxFailures,      \* bound: commits that fail, and restarts
          FirstRune,        \* first_rune_height
          FirstInscription, \* first_inscription_height
          Subsidy,          \* Height::subsidy
          UtxosInMemory     \* utxos_in_memory

ASSUME LedgerAssumption ==
    /\ DOMAIN CoinbaseAt = 1..MaxHeight
    /\ \A h \in DOMAIN CoinbaseAt : Tx[CoinbaseAt[h]].ins = <<>>
    /\ UtxosInMemory \in BOOLEAN

VARIABLES db,        \* RocksDB, one field per column family
          mem, size, \* the roll stage's UtxoResolver
          retry,     \* the block whose commit failed, if any
          rollbacks, failures

ledgerVars == <<db, mem, size, retry, rollbacks, failures>>

Library == DOMAIN Tx \ {CoinbaseAt[h] : h \in DOMAIN CoinbaseAt}

EmptyDb == [blocks |-> Empty, resolver |-> Empty, txo |-> Empty,
            names |-> Empty, terms |-> Empty, mints |-> Empty, reserved |-> 0,
            partial |-> Empty, next |-> 0,
            drc20 |-> Empty, supply |-> Empty, balance |-> Empty]

Tip(d) == Max({0} \cup DOMAIN d.blocks)

Refs(txid) == {<<txid, v - 1>> : v \in DOMAIN Tx[txid].outs}
Inputs(txid) == ToSet(Tx[txid].ins)
SpentBy(block) == UNION {Inputs(t) : t \in ToSet(block)}
MadeBy(block) == UNION {Refs(t) : t \in ToSet(block)}
-----------------------------------------------------------------------------
(* The memory resolver.  Every output weighs 1.                             *)

\* (variant) an output that is already known keeps its old body
InsertNew(m, bodies) == [utxos |-> m.utxos @@ bodies, size |-> m.size + Cardinality(DOMAIN bodies)]

\* (variant) the count goes down also for outputs that are not in memory
RemoveUncounted(m, refs) ==
    [utxos |-> Drop(m.utxos, refs), size |-> m.size - Cardinality(refs)]

MemRemove(m, refs) ==
    [utxos |-> Drop(m.utxos, refs),
     size |-> m.size - Cardinality(refs \cap DOMAIN m.utxos)]

\* insert adds the new body's length and does not take off a replaced one's.
MemInsert(m, bodies) ==
    IF UtxosInMemory
    THEN [utxos |-> bodies @@ m.utxos, size |-> m.size + Cardinality(DOMAIN bodies)]
    ELSE m
-----------------------------------------------------------------------------
(* TxoKV::resolve_and_process.                                              *)

TxoBody(h, out, dunes, inscriptions, unused) ==
    [height |-> h, script |-> out.script, value |-> out.value, dunes |-> dunes,
     inscriptions |-> inscriptions, unused |-> unused]

NoRunes(d, tx) == [db |-> d, out |-> [v \in DOMAIN tx.outs |-> Empty],
                   etch |-> None, mints |-> {}]
NoInscriptions(w, tx) ==
    [db |-> w.db, brc20 |-> w.brc20, cb |-> w.cb, reward |-> w.reward, new |-> w.new,
     out |-> [v \in DOMAIN tx.outs |-> <<>>],
     unused |-> [v \in DOMAIN tx.outs |-> Empty]]

RunesOf(d, ins, tx, idx, h) ==
    IF h >= FirstRune THEN IndexRunes(d, ins, tx, idx, h) ELSE NoRunes(d, tx)
InscriptionsOf(w, ins, tx, txid, h) ==
    IF h >= FirstInscription THEN IndexInscriptions(w, ins, tx, txid)
    ELSE NoInscriptions(w, tx)

\* Etches and mints of the idx-th transaction.
NoteRunes(w, r, idx) ==
    [w EXCEPT !.db = r.db,
              !.etches = IF r.etch = None THEN @ ELSE Append(@, [tx |-> idx, name |-> r.etch]),
              !.mints = @ \cup {<<idx, i>> : i \in r.mints}]

\* The outputs of a transaction enter the block's resolver and the memory.
NoteOutputs(w, q, txid, h, dunes) ==
    LET outs == Tx[txid].outs
        bodies == [r \in Refs(txid) |->
                     TxoBody(h, outs[r[2] + 1], dunes[r[2] + 1], q.out[r[2] + 1],
                             q.unused[r[2] + 1])]
    IN  [w EXCEPT !.db = q.db, !.brc20 = q.brc20, !.cb = q.cb, !.reward = q.reward,
                  !.new = q.new, !.res = bodies @@ @, !.mem = MemInsert(@, bodies)]

\* The inscriptions of a transaction; what it spends leaves the memory.
IndexOutputs(w, ins, txid, h, dunes) ==
    NoteOutputs([w EXCEPT !.mem = MemRemove(@, Inputs(txid))],
                InscriptionsOf(w, ins, Tx[txid], txid, h), txid, h, dunes)

IndexTx(w, r, ins, txid, idx, h) == IndexOutputs(NoteRunes(w, r, idx), ins, txid, h, r.out)

ProcessTx(w, block, i, h) ==
    LET tx  == Tx[block[i]]
        ins == [k \in DOMAIN tx.ins |-> w.res[tx.ins[k]]]
    IN  IndexTx(w, RunesOf(w.db, ins, tx, i - 1, h), ins, block[i], i - 1, h)

\* What the block's inputs resolve to, those made by the block itself excluded:
\* from memory if there, from TxoKV otherwise.
Resolved(d, m, block) ==
    [r \in SpentBy(block) \ MadeBy(block) |->
        IF r \in DOMAIN m.utxos THEN m.utxos[r] ELSE d.txo[r]]

BlockStart(d, m, res) ==
    [db |-> d, res |-> res, mem |-> MemRemove(m, DOMAIN res), reward |-> Subsidy,
     cb |-> <<>>, new |-> <<>>, brc20 |-> <<>>, etches |-> <<>>, mints |-> {}]

\* Dunes of the coinbase first (r), then the other transactions, then the coinbase's
\* inscriptions, which are those spent as fees.
ProcessBlock(w, r, block, h) ==
    IndexOutputs(FoldLeft(LAMBDA x, i : ProcessTx(x, block, i, h), NoteRunes(w, r, 0),
                          [k \in 1..(Len(block) - 1) |-> k + 1]),
                 <<>>, block[1], h, r.out)

ResolveAndProcess(d, m, block, h) ==
    ProcessBlock(BlockStart(d, m, Resolved(d, m, block)),
                 RunesOf(d, <<>>, Tx[block[1]], 0, h), block, h)
-----------------------------------------------------------------------------
(* ChainDB::apply_block_with_context.                                       *)

\* The entry of ResolverByHeightKV: what rollback and the clients need.
ResolverEntry(d, w, block) ==
    [hash |-> block, inputs |-> Restrict(w.res, SpentBy(block)),
     runes |-> RestrictValues([r \in MadeBy(block) |-> w.res[r].dunes],
                              LAMBDA x : DOMAIN x # {}),
     inscriptions |-> RestrictValues([r \in MadeBy(block) |-> w.res[r].inscriptions],
                                     LAMBDA x : x # <<>>),
     etches |-> w.etches, mints |-> w.mints, counters |-> d.next,
     brc20 |-> w.brc20, new |-> w.new]

WriteBlock(d, w, block, h) ==
    [db |-> [w.db EXCEPT
               !.blocks = Put(@, h, block),
               !.txo = Drop(Restrict(w.res, MadeBy(block)) @@ @, SpentBy(block)),
               !.resolver = Put(@, h, ResolverEntry(d, w, block))],
     mem |-> w.mem]

Applied(d, m, block, h) == WriteBlock(d, ResolveAndProcess(d, m, block, h), block, h)
-----------------------------------------------------------------------------
(* ChainDB::rollback, one block at a time, newest first.                    *)

\* (variant) the balance of a used transfer is left with the receiver
UndoDrc20KeepsTransfers(d, a) ==
    CASE a.op = "deploy" -> [d EXCEPT !.drc20 = Drop(@, {a.tick})]
      [] a.op = "mint" -> [d EXCEPT !.supply = Bump(@, a.tick, -a.amt),
                                    !.balance = Bump(@, <<a.script, a.tick>>, -a.amt)]
      [] a.op = "transfer" -> d
      [] a.op = "init" -> [d EXCEPT !.balance = Bump(@, <<a.script, a.tick>>, a.amt)]

UndoDrc20(d, a) ==
    CASE a.op = "deploy" -> [d EXCEPT !.drc20 = Drop(@, {a.tick})]
      [] a.op = "mint" -> [d EXCEPT !.supply = Bump(@, a.tick, -a.amt),
                                    !.balance = Bump(@, <<a.script, a.tick>>, -a.amt)]
      [] a.op = "transfer" -> [d EXCEPT !.balance = Bump(@, <<a.script, a.tick>>, -a.amt)]
      [] a.op = "init" -> [d EXCEPT !.balance = Bump(@, <<a.script, a.tick>>, a.amt)]

\* (variant) the name of an undone etching stays taken
UndoEtchKeepsName(d, stone, id) ==
    IF stone.etching = None \/ id \notin DOMAIN d.terms THEN d
    ELSE [d EXCEPT !.terms = Drop(@, {id}),
                   !.reserved = @ - IF stone.etching.dune = None THEN 1 ELSE 0]

UndoEtch(d, stone, id) ==
    IF stone.etching = None \/ id \notin DOMAIN d.terms THEN d
    ELSE [d EXCEPT !.names = Drop(@, {d.terms[id].name}),
                   !.terms = Drop(@, {id}),
                   !.reserved = @ - IF stone.etching.dune = None THEN 1 ELSE 0]

\* The dunes whose mint counter rollback lowers for the idx-th transaction: all
\* claims that were recorded as successful.
UndoneMints(stone, entry, idx) ==
    {DuneId(Claims(stone)[i]) : i \in {j \in DOMAIN Claims(stone) : <<idx, j>> \in entry.mints}}

UndoRunes(d, txid, entry, idx, h) ==
    IF Tx[txid].stone = None THEN d
    ELSE LET stone == Decipher(Tx[txid].stone, Len(Tx[txid].outs))
             e     == UndoEtch(d, stone, <<h, idx>>)
         IN  [e EXCEPT !.mints = FoldSet(LAMBDA id, m : Bump(m, id, -1), @,
                                         UndoneMints(stone, entry, idx))]

UndoTx(d, block, i, entry, h) ==
    LET txid == block[i]
        d1 == UndoRunes([d EXCEPT !.partial = Drop(@, {txid})], txid, entry, i - 1, h)
    IN  [d1 EXCEPT !.txo = Drop(Restrict(entry.inputs, Inputs(txid)) @@ @, Refs(txid))]

UndoBlock(d) ==
    LET h     == Tip(d)
        block == d.blocks[h]
        entry == d.resolver[h]
        d1    == FoldLeft(UndoDrc20, [d EXCEPT !.next = entry.counters], Reverse(entry.brc20))
        d2    == FoldLeft(LAMBDA x, i : UndoTx(x, block, i, entry, h), d1,
                          Reverse([k \in DOMAIN block |-> k]))
    IN  [d2 EXCEPT !.blocks = Drop(@, {h}), !.resolver = Drop(@, {h})]

UndoTo(d, h) == FoldLeft(LAMBDA x, k : UndoBlock(x), d, [k \in 1..(Tip(d) - h) |-> k])

\* The two checked_sub of rollback, whose failure ends the process.
NoUnderflow(d) == d.reserved >= 0 /\ \A id \in DOMAIN d.mints : d.mints[id] >= 0
-----------------------------------------------------------------------------
(* The roll stage.                                                          *)

Mined(d) == UNION {ToSet(d.blocks[h]) : h \in DOMAIN d.blocks}

\* The network's rule: every input exists and is spent once.
Valid(d, txs) ==
    /\ \A i, j \in DOMAIN txs : i # j => /\ txs[i] # txs[j]
                                         /\ Inputs(txs[i]) \cap Inputs(txs[j]) = {}
    /\ \A i \in DOMAIN txs :
          /\ txs[i] \notin Mined(d)
          /\ Inputs(txs[i]) \subseteq
                DOMAIN d.txo \cup MadeBy(SubSeq(txs, 1, i - 1))

Memory == [utxos |-> mem, size |-> size]
Block(txs) == <<CoinbaseAt[Tip(db) + 1]>> \o txs

Apply(txs) ==
    /\ MaxHeight \notin DOMAIN db.blocks
    /\ retry \in {None, txs}
    /\ Valid(db, txs)
    /\ \E a \in {Applied(db, Memory, Block(txs), Tip(db) + 1)} :
          db' = a.db /\ mem' = a.mem.utxos /\ size' = a.mem.size
    /\ retry' = None
    /\ UNCHANGED <<rollbacks, failures>>

\* The commit fails after the memory was changed; the call is retried.
ApplyFails(txs) ==
    /\ failures < MaxFailures /\ MaxHeight \notin DOMAIN db.blocks
    /\ retry = None
    /\ Valid(db, txs)
    /\ \E a \in {Applied(db, Memory, Block(txs), Tip(db) + 1)} :
          mem' = a.mem.utxos /\ size' = a.mem.size
    /\ retry' = txs
    /\ failures' = failures + 1
    /\ UNCHANGED <<db, rollbacks>>

\* The memory is not touched.  When a counter would underflow the process ends
\* with nothing written, which is Restart.
RollBack(h) ==
    /\ retry = None /\ rollbacks < MaxRollbacks
    /\ h \in DOMAIN db.blocks
    /\ NoUnderflow(UndoTo(db, h))
    /\ db' = UndoTo(db, h)
    /\ rollbacks' = rollbacks + 1
    /\ UNCHANGED <<mem, size, retry, failures>>

\* The process ends: retries are used up, or it is restarted.
Restart ==
    /\ failures < MaxFailures
    /\ mem' = Empty /\ size' = 0 /\ retry' = None
    /\ failures' = failures + 1
    /\ UNCHANGED <<db, rollbacks>>

LedgerInit ==
    /\ db = EmptyDb
    /\ mem = Empty /\ size = 0 /\ retry = None
    /\ rollbacks = 0 /\ failures = 0

BlockBodies == BoundedSeq(Library, MaxTxs)

LedgerNext ==
    \/ \E txs \in BlockBodies : Apply(txs) \/ ApplyFails(txs)
    \/ \E h \in 1..MaxHeight : RollBack(h)
    \/ Restart

LedgerSpec == LedgerInit /\ [][LedgerNext]_ledgerVars
-----------------------------------------------------------------------------
(* What the tables must be.                                                 *)

\* Tables up to what readers can tell apart.
Readable(d) == [d EXCEPT !.mints = NonZero(@), !.supply = NonZero(@), !.balance = NonZero(@)]

Replay(blocks) ==
    FoldLeft(LAMBDA d, h : Applied(d, [utxos |-> Empty, size |-> 0], blocks[h], h).db,
             EmptyDb, [h \in 1..Cardinality(DOMAIN blocks) |-> h])

\* Rollback inverts apply: whatever was applied, undone and applied again, by way
\* of memory or not, every table is what a fresh database has after the blocks of
\* the present chain (storage/mod.rs, rollback).
TablesMatchChain == Readable(db) = Readable(Replay(db.blocks))

\* An output that is both in memory and unspent has the same body in both: the
\* cache is not touched by rollback, so a stale body must never be the one a later
\* block reads (sync/roll.rs, UtxoResolver).
MemoryAgrees == \A r \in DOMAIN mem \cap DOMAIN db.txo : mem[r] = db.txo[r]

\* The byte count of the memory is never below what it holds, so that remove
\* cannot underflow it; overwriting makes it drift up (roll.rs, insert and remove).
MemorySizeCovers == size >= Cardinality(DOMAIN mem)

Circulating(id) ==
    MapThenSumSet(LAMBDA r : Get(db.txo[r].dunes, id, 0), DOMAIN db.txo)

\* The transaction that etched id.
EtchingTx(id) == Tx[db.blocks[id[1]][id[2] + 1]]

\* What its etching allots of a new dune: the premine and the edicts on the new issue,
\* of which there is no end; an edict of zero takes all of it.
Issued(id) ==
    LET tx     == EtchingTx(id)
        stone  == Decipher(tx.stone, Len(tx.outs))
        edicts == SelectSeq(stone.edicts, LAMBDA e : e.id = NewIssue /\ e.output < Len(tx.outs))
        amount(e) == IF e.amount = 0 THEN MaxU ELSE e.amount
    IN  IF stone.cenotaph THEN 0
        ELSE FoldLeft(LAMBDA n, e : Min({n + amount(e), MaxU}), 0, edicts)

\* No dune has more units in unspent outputs than its etching allotted and its counted
\* mints issued, and no more mints are counted than its cap allows.  The premine alone
\* is no bound: an etching may allot itself more (runes/updater.rs).  It takes that
\* every recorded claim was counted: RollbackNeverPanics tells what happens otherwise.
DunesWithinTerms ==
    \A id \in DOMAIN db.terms :
        LET t == db.terms[id]
            n == Get(db.mints, id, 0)
        IN  /\ t.cap # None => n <= t.cap
            /\ Circulating(id) <= Issued(id) + n * OrZero(t.amount)

Balances(tick) ==
    MapThenSumSet(LAMBDA k : db.balance[k], {k \in DOMAIN db.balance : k[2] = tick})
Locked(tick) ==
    MapThenSumSet(LAMBDA r :
        MapThenSumSet(LAMBDA id : db.txo[r].unused[id].amt,
                      {id \in DOMAIN db.txo[r].unused : db.txo[r].unused[id].tick = tick}),
        DOMAIN db.txo)

NewInscriptions == FlattenSeq([h \in 1..Tip(db) |-> db.resolver[h].new])
RevealsOf(id) == LET new == NewInscriptions IN {i \in DOMAIN new : new[i].id = id}

\* No inscription with a transfer message was completed twice.
TransfersRevealedOnce ==
    \A id \in DOMAIN Tx :
        Tx[id].sig.msg # None /\ Cardinality(RevealsOf(id)) > 1 => Tx[id].sig.msg.op # "transfer"

\* DRC-20 units are neither made nor lost: what was minted of a token is what the
\* available balances and the unused transfer inscriptions in unspent outputs hold,
\* unless a transfer inscription in several transactions was completed twice; and it
\* is at most the token's maximum (inscriptions/updater.rs).
Drc20Conserved ==
    \A tick \in DOMAIN db.drc20 :
        /\ TransfersRevealedOnce => Get(db.supply, tick, 0) = Balances(tick) + Locked(tick)
        /\ Get(db.supply, tick, 0) <= db.drc20[tick].max

InscribedIn(id) ==
    UNION {{<<r, k>> : k \in {j \in DOMAIN db.txo[r].inscriptions :
                                 db.txo[r].inscriptions[j].id = id}} : r \in DOMAIN db.txo}

\* The new inscriptions of a list that go to the coinbase, as their transactions have
\* no value in their outputs.
PassedOn(list) == SelectSeq(list, LAMBDA n : TotalValue(Tx[n.tx].outs) = 0)

\* An inscription is in no more places than it was revealed in, and numbers are given
\* in the order of the reveals, also after rollbacks: each block continues where the
\* one below it ended, and a number is used again only after a reveal that goes to the
\* coinbase, which is counted at the end of the block (inscriptions/updater.rs).
InscriptionsWellPlaced ==
    /\ \A id \in DOMAIN Tx : Cardinality(InscribedIn(id)) <= Cardinality(RevealsOf(id))
    /\ db.next = Len(NewInscriptions)
    /\ \A h \in DOMAIN db.blocks :
          LET new   == db.resolver[h].new
              below == FoldLeft(LAMBDA n, k : n + Len(db.resolver[k].new), 0,
                                [k \in 1..(h - 1) |-> k])
          IN  \A i \in DOMAIN new :
                 new[i].number = below + i - 1 - Len(PassedOn(SubSeq(new, 1, i - 1)))

\* Rollback's mint and reserved-name counters never go below zero: every decrement
\* undoes an increment ("mints underflow in rollback", storage/mod.rs).
RollbackNeverPanics == \A h \in DOMAIN db.blocks : NoUnderflow(UndoTo(db, h))
=============================================================================
