-------------------------------- MODULE Dunes --------------------------------
(***************************************************************************)
(* The dune rules of the compressor: what a dunestone means, which etchings *)
(* and mints succeed, and where the dunes of a transaction go.              *)
(*                                                                         *)
(* An edict id is <<claim bit, height, tx index>>, a stored dune id is      *)
(* <<height, tx index>>.  Outputs are numbered from 0 in edicts.  A raw     *)
(* dunestone is a record of the fields that Tag::take reads; payload bytes, *)
(* varints and the display fields (symbol, spacers, divisibility) are left  *)
(* out.                                                                     *)
(***************************************************************************)
EXTENDS Tables

CONSTANTS MaxU,             \* u128::MAX
          MaxLimit,         \* MAX_LIMIT
          Steps,            \* Dune::STEPS[0..12]
          FirstDuneHeight,  \* Chain::first_dune_height
          Interval,         \* blocks in which the minimum name loses a letter
          Reserved          \* RESERVED, the first reserved name

ASSUME DunesAssumption ==
    /\ MaxU \in Nat /\ MaxLimit \in 0..MaxU /\ Reserved \in Nat
    /\ Interval \in Nat \ {0} /\ FirstDuneHeight \in Nat
    /\ Len(Steps) > 1 /\ \A i \in 2..Len(Steps) : Steps[i-1] < Steps[i]

Plus(m, n) == (m + n) % (MaxU + 1)
OrZero(x) == IF x = None THEN 0 ELSE x

NewIssue == <<0, 0, 0>>
IsClaim(id) == id[1] = 1
DuneId(id) == <<id[2], id[3]>>
-----------------------------------------------------------------------------
(* Dunestone::decipher.                                                     *)

\* Edict::from_integers
ValidEdict(e, outs) ==
    /\ ~(e.id[1] = 0 /\ e.id[2] = 0 /\ e.id[3] > 0)
    /\ e.output <= outs

PremineEdict(m) ==
    IF m.premine > 0
    THEN <<[id |-> NewIssue, amount |-> m.premine, output |-> 1]>> ELSE <<>>

Limit(m) == IF m.limit = None THEN None ELSE Min({m.limit, MaxLimit})

\* rest: an unknown flag or an even tag nobody took.
Decipher(m, outs) ==
    [edicts |-> SelectSeq(m.edicts, LAMBDA e : ValidEdict(e, outs)) \o PremineEdict(m),
     etching |-> IF m.etch
                 THEN [dune |-> m.dune,
                       terms |-> IF m.terms
                                 THEN [cap |-> m.cap, limit |-> Limit(m),
                                       height |-> m.height, offset |-> m.offset]
                                 ELSE None]
                 ELSE None,
     pointer |-> m.pointer,
     cenotaph |-> \/ m.rest
                  \/ \E i \in DOMAIN m.edicts : ~ValidEdict(m.edicts[i], outs)
                  \/ m.premine + OrZero(m.cap) * OrZero(Limit(m)) > MaxU]
-----------------------------------------------------------------------------
(* Etching.                                                                 *)

MinimumAtHeight(h) ==
    LET offset   == h + 1
        letters  == Len(Steps) - 1
        progress == offset - FirstDuneHeight
        length   == letters - progress \div Interval
        start    == Steps[length + 1]
        end      == Steps[length]
    IN  IF offset < FirstDuneHeight THEN Steps[letters + 1]
        ELSE IF offset >= FirstDuneHeight + letters * Interval THEN 0
        ELSE start - ((start - end) * (progress % Interval)) \div Interval

\* The name an etching gets, or None.  Without a name it gets the next reserved
\* one.
Etched(db, etching, h) ==
    IF etching.dune = None THEN Reserved + db.reserved
    ELSE IF \/ etching.dune < MinimumAtHeight(h)
            \/ etching.dune >= Reserved
            \/ etching.dune \in DOMAIN db.names
         THEN None ELSE etching.dune

AtHeight(h, offset) == IF offset = None THEN None ELSE h + offset
Latest(S)   == IF S \ {None} = {} THEN None ELSE Max(S \ {None})
Earliest(S) == IF S \ {None} = {} THEN None ELSE Min(S \ {None})

\* create_rune_entry
DuneTerms(stone, name, h) ==
    LET t == stone.etching.terms
    IN  IF stone.cenotaph \/ t = None
        THEN [name |-> name, amount |-> None, cap |-> None, start |-> None, end |-> None]
        ELSE [name |-> name, amount |-> t.limit, cap |-> t.cap,
              start |-> Latest({t.height[1], AtHeight(h, t.offset[1])}),
              end   |-> Earliest({t.height[2], AtHeight(h, t.offset[2])})]
-----------------------------------------------------------------------------
(* Minting.                                                                 *)

\* The amount a claim on id may take, or None.
Mint(db, id, h) ==
    IF \/ id \notin DOMAIN db.terms
       \/ db.terms[id].start # None /\ h < db.terms[id].start
       \/ db.terms[id].end # None /\ h >= db.terms[id].end
       \/ db.terms[id].cap # None /\ Get(db.mints, id, 0) >= db.terms[id].cap
    THEN None ELSE OrZero(db.terms[id].amount)

IdBefore(x, y) == x[2] < y[2] \/ (x[2] = y[2] /\ x[3] < y[3])

\* The distinct claims of a dunestone, sorted.
Claims(stone) ==
    SetToSortSeq({e.id : e \in {f \in ToSet(stone.edicts) : IsClaim(f.id)}}, IdBefore)

\* The indices of the claims that may mint: successful_mints.
Claimable(db, stone, h) ==
    IF stone = None \/ stone.cenotaph THEN {}
    ELSE {i \in DOMAIN Claims(stone) : Mint(db, DuneId(Claims(stone)[i]), h) # None}
-----------------------------------------------------------------------------
(* Allocation.  pool holds what may be allocated: under NewIssue the new     *)
(* issue, under a claim the mintable amount, under an id the input balance. *)

Unallocated(ins) ==
    LET ids == UNION {DOMAIN ins[i].dunes : i \in DOMAIN ins}
        sum(id) == FoldLeft(LAMBDA n, b : Plus(n, Get(b.dunes, id, 0)), 0, ins)
    IN  [k \in {<<0>> \o id : id \in ids} |-> sum(DuneId(k))]

\* (variant) an edict takes more than the balance
AllocateBeyond(a, e, new) ==
    IF e.output >= Len(a.out) \/ e.id \notin DOMAIN a.pool THEN a
    ELSE LET amount == IF e.amount = 0 THEN a.pool[e.id] ELSE e.amount
             id == IF e.id = NewIssue THEN new ELSE DuneId(e.id)
         IN  [pool |-> [a.pool EXCEPT ![e.id] = 0],
              out |-> [a.out EXCEPT ![e.output + 1] =
                          Put(@, id, Plus(Get(@, id, 0), amount))]]

\* One edict.  from_integers lets output = outputs pass, the loop skips it, so
\* the branch that would split among all outputs is never taken.
Allocate(a, e, new) ==
    IF e.output >= Len(a.out) \/ e.id \notin DOMAIN a.pool THEN a
    ELSE LET balance == a.pool[e.id]
             amount  == IF e.amount = 0 THEN balance ELSE Min({e.amount, balance})
             id      == IF e.id = NewIssue THEN new ELSE DuneId(e.id)
         IN  IF amount = 0 THEN a
             ELSE [pool |-> [a.pool EXCEPT ![e.id] = @ - amount],
                   out |-> [a.out EXCEPT ![e.output + 1] =
                               Put(@, id, Plus(Get(@, id, 0), amount))]]

\* The output that unallocated dunes fall to; 0 when they are burned.
DefaultOutput(stone, outs) ==
    LET plain == {i \in DOMAIN outs : ~outs[i].op_return}
    IN  IF stone # None /\ stone.pointer # None /\ stone.pointer < Len(outs)
        THEN stone.pointer + 1
        ELSE IF plain = {} THEN 0 ELSE Min(plain)

GiveRest(a, coins, dest) ==
    IF dest = 0 THEN a.out
    ELSE [a.out EXCEPT ![dest] =
             LET rest == {k \in coins : a.pool[k] > 0}
             IN  [id \in {DuneId(k) : k \in rest} |->
                     Plus(Get(@, id, 0), a.pool[<<0>> \o id])] @@ @]

\* A mint is counted only if some edict took from it.
Counted(pool0, a, claimed) == {c \in claimed : a.pool[c] < pool0[c]}

CountMints(mints, ids) ==
    [id \in DOMAIN mints \cup ids |-> Get(mints, id, 0) + IF id \in ids THEN 1 ELSE 0]

\* What the stone's edicts do to the pool and to the outputs.
AllocateAll(stone, pool, outs, new) ==
    LET none == [pool |-> pool, out |-> [i \in DOMAIN outs |-> Empty]]
    IN  IF stone = None \/ stone.cenotaph THEN none
        ELSE FoldLeft(LAMBDA x, e : Allocate(x, e, new), none, stone.edicts)

RecordEtching(db, stone, name, id) ==
    IF name = None THEN db
    ELSE [db EXCEPT !.reserved = @ + IF stone.etching.dune = None THEN 1 ELSE 0,
                    !.names = Put(@, name, id),
                    !.terms = Put(@, id, DuneTerms(stone, name, id[1]))]

\* After the edicts: the counters of the mints, the etching, and what is left over.
Settle(db, stone, name, mints, coins, pool, a, outs, id) ==
    LET claimed == {Claims(stone)[i] : i \in mints}
        counted == {DuneId(c) : c \in Counted(pool, a, claimed)}
    IN  [db |-> RecordEtching([db EXCEPT !.mints = CountMints(@, counted)], stone, name, id),
         out |-> IF stone # None /\ stone.cenotaph THEN a.out
                 ELSE GiveRest(a, coins, DefaultOutput(stone, outs)),
         etch |-> name, mints |-> mints]

\* The pool: input balances, claims and the new issue.
IndexStone(db, ins, outs, stone, name, mints, id) ==
    LET coins == Unallocated(ins)
        pool  == coins @@ [c \in {Claims(stone)[i] : i \in mints} |-> Mint(db, DuneId(c), id[1])]
                       @@ [k \in (IF name = None THEN {} ELSE {NewIssue}) |-> MaxU]
    IN  Settle(db, stone, name, mints, DOMAIN coins, pool, AllocateAll(stone, pool, outs, id),
               outs, id)

\* index_runes: the tables after transaction tx (the idx-th of a block at height
\* h, spending ins), the dunes of its outputs, the etched name and the indices
\* of the successful claims.
IndexRunes(db, ins, tx, idx, h) ==
    LET stone == IF tx.stone = None THEN None ELSE Decipher(tx.stone, Len(tx.outs))
        name  == IF stone = None \/ stone.etching = None THEN None
                 ELSE Etched(db, stone.etching, h)
    IN  IndexStone(db, ins, tx.outs, stone, name, Claimable(db, stone, h), <<h, idx>>)
=============================================================================
