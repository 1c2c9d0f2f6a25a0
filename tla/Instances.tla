------------------------------ MODULE Instances ------------------------------
(***************************************************************************)
(* The polyphony instances as their readers see them: each one a keyspace  *)
(* in TiKV with the tables of its cursor's block, and a score per instance *)
(* group in the Redis registry.  That every commit, the undo transactions  *)
(* included, leaves the tables of the cursor's block is what modules       *)
(* Indexer and Polyphony show of one instance.                             *)
(*                                                                         *)
(* A key is a number that keeps the order of timbre-xbt's encoding: the    *)
(* cursor (tag C) before the rows (tag D) of each table.                   *)
(***************************************************************************)
EXTENDS BlockTree, FiniteSetsExt

CONSTANTS Instance,    \* numbers: the registry breaks ties by member
          Serves,      \* the instance groups of each instance
          StartAt, Registered,
          Output,      \* block -> the unspent outputs of one script; an output
                       \* is a number that keeps the order of its key
          PerHeight,   \* outputs of height h are h * PerHeight + ...
          DuneOutputs, InscriptionOutputs,
          Etched,      \* the blocks after which their dune is etched
          Known,       \* the blocks after which the script has been seen
          Span,        \* more than any output
          MaxMoves

VARIABLES at,       \* the cursor of each instance
          kv,       \* the keys of each instance's keyspace
          records,  \* its timestamps in Redis and its info entry
          running,
          score,    \* 0: not in the group's registry
          due,      \* instances whose last commit has yet to update the registry
          moves

instanceVars == <<at, kv, records, running, score, due, moves>>

Group == {"utxos", "dunes", "inscriptions", "inscription_utxos", "scripts"}

ASSUME InstancesAssumption ==
    /\ Instance \subseteq Nat /\ IsFiniteSet(Instance)
    /\ Serves \in [Instance -> SUBSET Group]
    /\ StartAt \in [Instance -> Block] /\ Registered \subseteq Instance
    /\ Output \in [Node -> SUBSET (1..(Span - 1))]
    /\ \A b \in Node : Output[b] # {} => b \in Known
    /\ Span \in Nat \ {0} /\ PerHeight \in Nat \ {0} /\ MaxMoves \in Nat
-----------------------------------------------------------------------------
CursorKey == 1
Key(table, row) == table * Span + row

EtchingByRuneId              == 1
UtxosByScriptHash            == 2
RunesByUtxo                  == 3
ScriptByScriptHash           == 4
ScriptHashByAddress          == 5
InscriptionsByUtxo           == 6
InscriptionUtxosByScriptHash == 7

\* get_instance_for_reducer
GroupOf(table) ==
    CASE table = UtxosByScriptHash -> "utxos"
      [] table \in {RunesByUtxo, EtchingByRuneId} -> "dunes"
      [] table = InscriptionsByUtxo -> "inscriptions"
      [] table = InscriptionUtxosByScriptHash -> "inscription_utxos"
      [] table \in {ScriptHashByAddress, ScriptByScriptHash} -> "scripts"

Rows(table, b) ==
    IF table = UtxosByScriptHash THEN Output[b]
    ELSE IF table = RunesByUtxo THEN Output[b] \cap DuneOutputs
    ELSE IF table \in {InscriptionsByUtxo, InscriptionUtxosByScriptHash}
    THEN Output[b] \cap InscriptionOutputs
    ELSE IF b \in (IF table = EtchingByRuneId THEN Etched ELSE Known) THEN {0} ELSE {}

\* The keyspace of each instance when its cursor is b.
Content == [i \in Instance |-> [b \in Node |->
    {CursorKey} \cup UNION {{Key(t, r) : r \in Rows(t, b)} :
                                t \in {u \in 1..7 : GroupOf(u) \in Serves[i]}}]]
-----------------------------------------------------------------------------
Commit(i, b) ==
    /\ running[i] /\ moves < MaxMoves
    /\ at' = [at EXCEPT ![i] = b]
    /\ kv' = [kv EXCEPT ![i] = Content[i][b]]
    /\ moves' = moves + 1
    /\ UNCHANGED <<records, running, score>>

\* A block is committed, and the registries are updated afterwards, unless the
\* process ends in between.
Apply(i) ==
    \E b \in Block : /\ Parent[b] = at[i]
                     /\ Commit(i, b)
                     /\ due' = due \cup {i}

\* An undo transaction.  A rollback leaves the scores alone, so an update that was
\* lost stays so.
Undo(i) == /\ at[i] \in Block /\ Parent[at[i]] \in Block
           /\ Commit(i, Parent[at[i]])
           /\ due' = due \ {i}

\* update_registry_scores: one ZADD per group.  Requests look one group up at a
\* time, so they also meet old and new scores mixed.
Advertise(i) ==
    /\ i \in due
    /\ score' = [g \in Group |-> IF g \in Serves[i]
                                 THEN [score[g] EXCEPT ![i] = Height[at[i]]] ELSE score[g]]
    /\ due' = due \ {i}
    /\ UNCHANGED <<at, kv, records, running, moves>>

\* The operator retires an instance whose groups have another member: stops it
\* and removes it from the registries.  (Bound: one instance is retired.)
Retire(i) ==
    /\ \A j \in Instance : running[j]
    /\ \A g \in Serves[i] : \E j \in Instance \ {i} : score[g][j] > 0
    /\ running' = [running EXCEPT ![i] = FALSE]
    /\ score' = [g \in Group |-> [score[g] EXCEPT ![i] = 0]]
    /\ due' = due \ {i}
    /\ UNCHANGED <<at, kv, records, moves>>
-----------------------------------------------------------------------------
\* An instance that is not registered has just committed its first block of the
\* mutable window.
InstancesInit ==
    /\ at = StartAt
    /\ kv = [i \in Instance |-> Content[i][StartAt[i]]]
    /\ records = Instance \X {"timestamps", "info"}
    /\ running = [i \in Instance |-> TRUE]
    /\ score = [g \in Group |-> [i \in Instance |->
                   IF i \in Registered /\ g \in Serves[i] THEN Height[StartAt[i]] ELSE 0]]
    /\ due = Instance \ Registered
    /\ moves = 0

InstanceStep == \E i \in Instance : Apply(i) \/ Undo(i) \/ Advertise(i) \/ Retire(i)

\* The order of a scan, a set of keys in that order, and the first n entries of a
\* sequence.
Precedes(order, j, k) == IF order = "Asc" THEN j < k ELSE j > k
Sorted(order, S) ==
    [n \in 1..Cardinality(S) |->
        CHOOSE k \in S : Cardinality({j \in S : Precedes(order, j, k)}) = n - 1]
Take(s, n) == IF n < Len(s) THEN SubSeq(s, 1, n) ELSE s
=============================================================================
