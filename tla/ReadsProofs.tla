----------------------------- MODULE ReadsProofs -----------------------------
(***************************************************************************)
(* TLAPS proofs about Reads: what daw deletes, what a page lists and what a *)
(* listing over several pages has.                                          *)
(***************************************************************************)
EXTENDS Reads, InstancesProofs
-----------------------------------------------------------------------------
\* "deletion complete": a forced run of daw that ends has removed the whole
\* keyspace, its timestamps and its info entry, whatever runs were broken off
\* before it, however often the scan size was halved, and while other instances
\* commit, undo, register and retire.
THEOREM DeletionIsComplete == Spec => []WipeComplete
<1>1. Init => Keyspaces /\ Wiped
    <2> SUFFICES ASSUME Init PROVE Keyspaces /\ Wiped
        OBVIOUS
    <2>1. /\ at = StartAt /\ kv = [i \in Instance |-> Content[i][StartAt[i]]]
          /\ running = [i \in Instance |-> TRUE] /\ daw = DawIdle
        BY DEF Init, InstancesInit
    <2>2. StartAt \in [Instance -> Block]
        BY InstancesAssumption
    <2>3. \A i \in Instance : Content[i][StartAt[i]] \in SUBSET (0..(8 * Span))
        BY <2>2, ContentBounded DEF Node
    <2> QED
        BY <2>1, <2>2, <2>3 DEF Keyspaces, Wiped, DawIdle, Runs
<1>2. Keyspaces /\ Wiped /\ [Next]_vars => (Keyspaces /\ Wiped)'
    <2> SUFFICES ASSUME Keyspaces, Wiped, [Next]_vars PROVE (Keyspaces /\ Wiped)'
        OBVIOUS
    <2>1. \/ UNCHANGED <<instanceVars, daw>>
          \/ InstanceStep /\ UNCHANGED daw
          \/ DawStep
        BY DEF Next, vars, Handle
    <2>2. CASE UNCHANGED <<instanceVars, daw>>
        BY <2>2 DEF instanceVars, Keyspaces, Wiped
    <2> QED
        BY <2>1, <2>2, KeyspacesStep, WipedInstanceStep, WipedDawStep DEF Wiped
<1>3. Keyspaces /\ Wiped => WipeComplete
    BY DEF Wiped, WipeComplete, Runs, DawIdle
<1> QED
    BY <1>1, <1>2, <1>3, PTL DEF Spec
-----------------------------------------------------------------------------
(* The invariant of a request.                                              *)

\* The tables that a request has looked up, the address tables last.
TableOf(n) == IF n <= Len(Encoders) THEN Encoders[n]
              ELSE IF n = Len(Encoders) + 1 THEN ScriptHashByAddress ELSE ScriptByScriptHash

\* What a request has found so far: each instance serves the table it was found for,
\* and the snapshot has whole keyspaces only, that of the listed table among them.
Looked ==
    /\ listing \in Listings /\ cursor \in Nat
    /\ enc \in Seq(Instance)
    /\ \A n \in 1..Len(enc) : GroupOf(TableOf(n)) \in Serves[enc[n]]
    /\ pc = "resolve" => Len(enc) < Len(Encoders)
    /\ pc = "snapshot" => Len(enc) = Len(Encoders)
    /\ pc = "address" => Len(enc) \in {Len(Encoders), Len(Encoders) + 1}
    /\ pc \in {"parse", "scan", "answer", "answered"} => Len(enc) >= Len(Encoders)
    /\ pc \in {"idle", "error"} => enc = <<>>
    /\ pc \notin {"scan", "answer", "answered"} => scan = NoScan
    /\ pc \in {"address", "parse", "scan", "answer", "answered"} =>
          /\ snap.at \in [Instance -> Block] /\ Whole(snap.kv, snap.at)
          /\ CursorFound(snap, enc[1])

\* The rows of the snapshot that the page may list.
Wanted == {e \in Lower..(Upper - 1) : /\ Has(enc[1], Encoders[1], e) /\ Passes(e)
                                      /\ Utxos /\ cursor # 0 => Before(cursor, e)}

\* A scan under way has collected what is wanted of the range behind it, and
\* the range ahead has the rest.
Scanning ==
    pc = "scan" =>
        /\ scan.lo \in Nat /\ scan.hi \in Nat /\ scan.size \in Nat \ {0}
        /\ Collected(listing.order, scan.lo, scan.hi, Wanted, scan.kvs)
        /\ \A e \in scan.lo..(scan.hi - 1) :
              Lower <= e /\ e < Upper /\ (Utxos /\ cursor # 0 => Before(cursor, e))

\* A scan that is over has all that is wanted, or the page and one entry more.
Scanned ==
    pc \in {"answer", "answered"} =>
        \/ /\ scan = NoScan /\ Len(enc) = Len(Encoders) + 1
           /\ ~Has(enc[Len(enc)], ScriptHashByAddress, 0)
        \/ /\ scan # NoScan
           /\ Ordered(listing.order, scan.kvs)
           /\ Leading(listing.order, Range(scan.kvs), Wanted)
           /\ \/ Range(scan.kvs) = Wanted
              \/ Utxos /\ Len(scan.kvs) > listing.count

Paged ==
    pc = "answered" =>
        /\ page = Take(Found, listing.count)
        /\ next = IF Len(Found) > listing.count THEN CursorOf(Found) ELSE 0

\* How far the pages so far have come: up to c.
UpTo(c) ==
    /\ \A x \in Range(listed) : c # 0 => ~Before(c, x)
    /\ \A r \in Beyond(kept, listing.cursor) : c # 0 /\ ~Before(c, r) => r \in Range(listed)

Listed ==
    /\ Ordered(listing.order, listed) /\ kept \in SUBSET (1..(Span - 1))
    /\ pc \notin {"answered", "over"} => UpTo(cursor) /\ (cursor = 0 => listed = <<>>)
    /\ pc = "answered" =>
          /\ next \in Nat /\ UpTo(next)
          /\ next = 0 => Beyond(kept, listing.cursor) \subseteq Range(listed)
-----------------------------------------------------------------------------
(* The look-ups of a request.                                               *)

\* The tables a request looks instances up for: the one it lists comes first, and a
\* listing of UTXOs also looks up the ones that tell what an output carries.
LEMMA EncoderFacts ==
    /\ Len(Encoders) \in {1, 4}
    /\ \A n \in 1..Len(Encoders) : Encoders[n] \in 1..7
    /\ Encoders[1] \in {2, 7}
    /\ Utxos => /\ Len(Encoders) = 4 /\ Encoders[1] = UtxosByScriptHash
                /\ Encoders[2] = RunesByUtxo /\ Encoders[4] = InscriptionsByUtxo
    /\ ~Utxos => Len(Encoders) = 1 /\ Encoders[1] = InscriptionUtxosByScriptHash
BY DEF Encoders, UtxosByScriptHash, RunesByUtxo, EtchingByRuneId, InscriptionsByUtxo,
       InscriptionUtxosByScriptHash

\* Every table belongs to a group of instances.
LEMMA GroupOfTable == ASSUME NEW t \in 1..7 PROVE GroupOf(t) \in Group
BY DEF GroupOf, Group, UtxosByScriptHash, RunesByUtxo, EtchingByRuneId, InscriptionsByUtxo,
       InscriptionUtxosByScriptHash, ScriptHashByAddress, ScriptByScriptHash

\* The bounds of a listing: its heights stay below Span, and only UTXOs are listed
\* backwards or filtered.
LEMMA ListingFacts ==
    ASSUME listing \in Listings
    PROVE  /\ listing.order \in {"Asc", "Desc"} /\ listing.count \in Nat \ {0}
           /\ Lower \in Nat /\ Upper \in Nat /\ Upper <= Span /\ Span \in Nat \ {0}
           /\ ~Utxos => listing.order = "Asc" /\ ~listing.dust /\ ~listing.exclude
<1>1. /\ listing \in [kind : {"utxos", "inscriptions"}, order : {"Asc", "Desc"}, from : Nat,
                      to : Nat, cursor : Nat, count : Nat \ {0}, dust : BOOLEAN,
                      exclude : BOOLEAN, address : BOOLEAN]
      /\ (listing.to + 1) * PerHeight <= Span
      /\ listing.kind = "inscriptions" => listing.order = "Asc" /\ ~listing.dust /\ ~listing.exclude
    BY ReadsAssumption
<1>2. PerHeight \in Nat \ {0} /\ Span \in Nat \ {0}
    BY InstancesAssumption
<1>3. /\ listing.kind \in {"utxos", "inscriptions"} /\ listing.order \in {"Asc", "Desc"}
      /\ listing.from \in Nat /\ listing.to \in Nat /\ listing.count \in Nat \ {0}
    BY <1>1
<1>4. ASSUME NEW x \in Nat, NEW y \in Nat PROVE x * y \in Nat
    BY <1>4
<1>5. Lower \in Nat /\ Upper \in Nat
    BY <1>2, <1>3, <1>4 DEF Lower, Upper
<1> QED
    BY <1>1, <1>2, <1>3, <1>5 DEF Upper, Utxos

\* What a request asks for, whatever it has looked up.
LEMMA RequestAsks ==
    ASSUME Looked
    PROVE  /\ listing \in Listings /\ cursor \in Nat
           /\ listing.order \in {"Asc", "Desc"} /\ listing.count \in Nat \ {0}
           /\ Lower \in Nat /\ Upper \in Nat /\ Upper <= Span /\ Span \in Nat \ {0}
           /\ ~Utxos => listing.order = "Asc" /\ ~listing.dust /\ ~listing.exclude
<1>1. listing \in Listings /\ cursor \in Nat
    BY Zenon DEF Looked
<1> QED
    BY <1>1, ListingFacts, Zenon

\* A request that has its snapshot.
LEMMA RequestFacts ==
    ASSUME Looked, pc \in {"parse", "scan", "answer", "answered"}
    PROVE  /\ listing \in Listings /\ cursor \in Nat /\ enc \in Seq(Instance)
           /\ Len(enc) \in Nat /\ Len(enc) >= Len(Encoders)
           /\ snap.at \in [Instance -> Block] /\ Whole(snap.kv, snap.at)
           /\ \A n \in 1..Len(enc) : enc[n] \in Instance /\ snap.at[enc[n]] \in Node
           /\ 1 \in 1..Len(enc) /\ TableOf(1) = Encoders[1] /\ CursorFound(snap, enc[1])
<1>1. /\ listing \in Listings /\ cursor \in Nat /\ enc \in Seq(Instance)
      /\ Len(enc) >= Len(Encoders) /\ snap.at \in [Instance -> Block]
      /\ Whole(snap.kv, snap.at) /\ CursorFound(snap, enc[1])
    BY DEF Looked
<1>2. Len(enc) \in Nat /\ 1 \in 1..Len(enc) /\ TableOf(1) = Encoders[1]
    BY <1>1, EncoderFacts DEF TableOf
<1>3. \A n \in 1..Len(enc) : enc[n] \in Instance /\ snap.at[enc[n]] \in Node
    BY <1>1 DEF Node
<1> QED
    BY <1>1, <1>2, <1>3

\* A keyspace with a cursor has the rows of its block for the table it was found for.
LEMMA HasRows ==
    ASSUME Looked, pc \in {"parse", "scan", "answer", "answered"},
           NEW n \in 1..Len(enc), CursorFound(snap, enc[n]),
           TableOf(n) \in 2..7, NEW e \in 0..(Span - 1)
    PROVE  Has(enc[n], TableOf(n), e) <=> e \in Rows(TableOf(n), snap.at[enc[n]])
<1>1. enc[n] \in Instance /\ snap.at[enc[n]] \in Node /\ Whole(snap.kv, snap.at)
    BY RequestFacts
<1>2. GroupOf(TableOf(n)) \in Serves[enc[n]]
    BY DEF Looked
<1>3. snap.kv[enc[n]] = Content[enc[n]][snap.at[enc[n]]]
    BY <1>1 DEF Whole, CursorFound
<1> QED
    BY <1>1, <1>2, <1>3, RowsOfContent, Zenon DEF Has

\* What depends on the listing, and on what a request has looked up.
LEMMA SameListing ==
    ASSUME listing' = listing
    PROVE  /\ Encoders' = Encoders /\ (Utxos' <=> Utxos) /\ Lower' = Lower /\ Upper' = Upper
           /\ \A n : TableOf(n)' = TableOf(n)
           /\ \A r, s : Before(r, s)' <=> Before(r, s)
<1>1. Encoders' = Encoders /\ (Utxos' <=> Utxos)
    BY DEF Encoders, Utxos
<1> QED
    BY <1>1 DEF Lower, Upper, TableOf, Before

\* A step that leaves the request, the listing and the snapshot alone leaves alone
\* what is defined from them.
LEMMA SameRequest ==
    ASSUME UNCHANGED <<listing, cursor, enc, snap>>
    PROVE  /\ \A i, t, r : Has(i, t, r)' <=> Has(i, t, r)
           /\ \A e : Passes(e)' <=> Passes(e)
           /\ Wanted' = Wanted
<1>1. \A i, t, r : Has(i, t, r)' <=> Has(i, t, r)
    BY DEF Has
<1>2. \A e : Carries(e)' <=> Carries(e)
    BY <1>1 DEF Carries
<1>3. \A e : Passes(e)' <=> Passes(e)
    BY <1>2 DEF Passes
<1>4. \A e : Has(enc[1], Encoders[1], e)' <=> Has(enc[1], Encoders[1], e)
    BY <1>1, SameListing DEF Has
<1> QED
    BY <1>1, <1>3, <1>4, SameListing DEF Wanted

\* What was found depends on the rows that were collected, the cursor and the listing.
LEMMA SameFound ==
    ASSUME UNCHANGED <<listing, cursor, scan>>
    PROVE  /\ Found' = Found
           /\ Take(Found, listing.count)' = Take(Found, listing.count)
           /\ CursorOf(Found)' = CursorOf(Found)
<1>1. Range(scan.kvs)' = Range(scan.kvs)
    BY DEF Range
<1>2. Found' = Found
    BY <1>1, SameListing DEF Found, Sorted
<1> QED
    BY <1>2 DEF Take, CursorOf

\* One more instance is found.
LEMMA OneMoreFound ==
    ASSUME enc \in Seq(Instance), \A n \in 1..Len(enc) : GroupOf(TableOf(n)) \in Serves[enc[n]],
           NEW i \in Instance, GroupOf(TableOf(Len(enc) + 1)) \in Serves[i], NEW e2,
           e2 = Append(enc, i)
    PROVE  /\ e2 \in Seq(Instance) /\ Len(e2) = Len(enc) + 1
           /\ \A n \in 1..Len(e2) : GroupOf(TableOf(n)) \in Serves[e2[n]]
           /\ Len(enc) >= 1 => e2[1] = enc[1]
           /\ e2[Len(e2)] = i
<1>1. /\ e2 \in Seq(Instance) /\ Len(e2) = Len(enc) + 1 /\ Len(enc) \in Nat
      /\ \A n \in 1..Len(enc) : e2[n] = enc[n]
      /\ e2[Len(enc) + 1] = i
    OBVIOUS
<1>2. ASSUME NEW n \in 1..Len(e2) PROVE GroupOf(TableOf(n)) \in Serves[e2[n]]
    <2>1. n \in 1..Len(enc) \/ n = Len(enc) + 1
        BY <1>1
    <2> QED
        BY <1>1, <2>1
<1> QED
    BY <1>1, <1>2

\* A group's lowest score is that of an instance that serves it.
LEMMA ResolvedServes ==
    ASSUME Scored, NEW t \in 1..7, NEW i \in Resolved(GroupOf(t))
    PROVE  i \in Instance /\ GroupOf(t) \in Serves[i]
BY GroupOfTable DEF Resolved, Scored

\* A request that ends without a page, or that goes on with what it has found.
LEMMA LookedAnswer ==
    ASSUME Looked, UNCHANGED <<listing, cursor>>, NEW how \in {"error", "refused"}, Answer(how)
    PROVE  Looked'
<1>1. pc' \in {"error", "refused"} /\ enc' = <<>> /\ scan' = NoScan
    BY DEF Answer
<1>2. NoScan' = NoScan
    BY DEF NoScan
<1>3. Len(<<>>) = 0 /\ <<>> \in Seq(Instance)
    OBVIOUS
<1>4. /\ enc' \in Seq(Instance) /\ 1..Len(enc') = {}
    BY <1>1, <1>3
<1> QED
    BY <1>1, <1>2, <1>4 DEF Looked

\* Resolving one more instance keeps what is known of the instances resolved.
LEMMA LookedResolve ==
    ASSUME Scored, Looked, Resolve, UNCHANGED <<listing, cursor>>
    PROVE  Looked'
<1> DEFINE t == Encoders[Len(enc) + 1]
<1>1. pc = "resolve" /\ enc \in Seq(Instance) /\ Len(enc) < Len(Encoders) /\ Len(enc) \in Nat
      /\ scan = NoScan
    BY DEF Resolve, Looked
<1>2. t \in 1..7 /\ TableOf(Len(enc) + 1) = t
    BY <1>1, EncoderFacts DEF TableOf
<1>3. CASE Answer("error")
    BY <1>3, LookedAnswer
<1>4. CASE ~Answer("error")
    <2>1. PICK i \in Resolved(GroupOf(t)) :
              /\ enc' = Append(enc, i)
              /\ pc' = IF Len(enc') = Len(Encoders) THEN "snapshot" ELSE pc
              /\ UNCHANGED <<snap, scan, page, next>>
        BY <1>4 DEF Resolve
    <2>2. i \in Instance /\ GroupOf(TableOf(Len(enc) + 1)) \in Serves[i]
        BY <1>2, ResolvedServes
    <2>3. /\ enc' \in Seq(Instance) /\ Len(enc') = Len(enc) + 1
          /\ \A n \in 1..Len(enc') : GroupOf(TableOf(n)) \in Serves[enc'[n]]
        BY <2>1, <2>2, OneMoreFound DEF Looked
    <2>4. \/ pc' = "snapshot" /\ Len(enc') = Len(Encoders)
          \/ pc' = "resolve" /\ Len(enc') < Len(Encoders)
        BY <1>1, <2>1, <2>3, EncoderFacts
    <2>5. NoScan' = NoScan
        BY DEF NoScan
    <2> QED
        BY <1>1, <2>1, <2>3, <2>4, <2>5, SameListing DEF Looked
<1> QED
    BY <1>3, <1>4, Zenon

\* The snapshot that a request begins is of whole keyspaces.
LEMMA LookedSnapshot ==
    ASSUME Keyspaces, Whole(kv, at), Looked, BeginSnapshot, UNCHANGED <<listing, cursor>>
    PROVE  Looked'
<1> DEFINE s == [at |-> at, kv |-> kv]
<1>1. /\ pc = "snapshot" /\ enc \in Seq(Instance) /\ Len(enc) = Len(Encoders) /\ scan = NoScan
      /\ \A n \in 1..Len(enc) : GroupOf(TableOf(n)) \in Serves[enc[n]]
    BY DEF BeginSnapshot, Looked
<1>2. CASE ~CursorFound(s, enc[1])
    BY <1>2, LookedAnswer, Zenon DEF BeginSnapshot
<1>3. CASE CursorFound(s, enc[1])
    <2>1. /\ snap' = s /\ pc' \in {"address", "parse"} /\ UNCHANGED <<enc, scan>>
        BY <1>3 DEF BeginSnapshot
    <2>2. s.at = at /\ s.kv = kv
        OBVIOUS
    <2> HIDE DEF s
    <2>3. /\ snap'.at \in [Instance -> Block] /\ Whole(snap'.kv, snap'.at)
          /\ CursorFound(snap', enc'[1])
        BY <1>3, <2>1, <2>2, SMTT(30), Z3T(30) DEF Keyspaces
    <2>4. Whole(snap.kv, snap.at)' <=> Whole(snap'.kv, snap'.at)
        BY DEF Whole, Content
    <2>5. CursorFound(snap, enc[1])' <=> CursorFound(snap', enc'[1])
        BY DEF CursorFound
    <2>6. NoScan' = NoScan
        BY Zenon DEF NoScan
    <2> QED
        BY <1>1, <2>1, <2>3, <2>4, <2>5, <2>6, SameListing, EncoderFacts, SMTT(30), Z3T(30) DEF Looked
<1> QED
    BY <1>2, <1>3

\* A request that has its snapshot keeps it.
LEMMA LookedKept ==
    ASSUME Looked, UNCHANGED <<listing, cursor, snap>>,
           pc \in {"address", "parse", "scan", "answer"},
           pc' \in {"address", "parse", "scan", "answer", "answered"},
           enc' \in Seq(Instance), enc'[1] = enc[1],
           \A n \in 1..Len(enc') : GroupOf(TableOf(n)) \in Serves[enc'[n]],
           pc' = "address" => Len(enc') = Len(Encoders) + 1,
           pc' # "address" => Len(enc') >= Len(Encoders),
           pc' \in {"address", "parse"} => scan' = NoScan
    PROVE  Looked'
<1>1. Whole(snap.kv, snap.at)' <=> Whole(snap.kv, snap.at)
    BY Zenon DEF Whole, Content
<1>2. CursorFound(snap, enc[1])' <=> CursorFound(snap, enc[1])
    BY DEF CursorFound
<1>3. NoScan' = NoScan
    BY DEF NoScan
<1>4. Len(enc') \in Nat /\ Len(Encoders) \in Nat
    BY EncoderFacts
<1> QED
    BY <1>1, <1>2, <1>3, <1>4, SameListing, SMTT(30), Z3T(30) DEF Looked

\* The instance for the address is looked up in the snapshot the request has.
LEMMA LookedAddress ==
    ASSUME Scored, Looked, ResolveAddress, UNCHANGED <<listing, cursor>>
    PROVE  Looked'
<1> DEFINE second == Len(enc) > Len(Encoders)
           table == IF second THEN ScriptByScriptHash ELSE ScriptHashByAddress
<1>1. /\ pc = "address" /\ enc \in Seq(Instance) /\ scan = NoScan
      /\ Len(enc) \in {Len(Encoders), Len(Encoders) + 1}
      /\ \A n \in 1..Len(enc) : GroupOf(TableOf(n)) \in Serves[enc[n]]
    BY Zenon DEF ResolveAddress, Looked
<1>2. table \in 1..7 /\ TableOf(Len(enc) + 1) = table /\ Len(enc) \in Nat /\ Len(enc) >= 1
    BY <1>1, EncoderFacts, SMTT(30), Z3T(30) DEF TableOf, ScriptByScriptHash, ScriptHashByAddress
<1>3. CASE Answer("error")
    BY <1>3, LookedAnswer
<1>4. CASE ~Answer("error")
    <2>1. PICK i \in Resolved(GroupOf(table)) :
              /\ enc' = Append(enc, i)
              /\ pc' = IF second THEN "parse" ELSE IF Has(i, table, 0) THEN pc ELSE "answer"
              /\ UNCHANGED <<snap, scan, page, next>>
        BY <1>4 DEF ResolveAddress
    <2>2. i \in Instance /\ GroupOf(TableOf(Len(enc) + 1)) \in Serves[i]
        BY <1>2, ResolvedServes, SMTT(30), Z3T(30)
    <2>3. /\ enc' \in Seq(Instance) /\ Len(enc') = Len(enc) + 1 /\ enc'[1] = enc[1]
          /\ \A n \in 1..Len(enc') : GroupOf(TableOf(n)) \in Serves[enc'[n]]
        BY <1>1, <1>2, <2>1, <2>2, OneMoreFound, SMTT(30), Z3T(30)
    <2>4. \/ pc' = "address" /\ Len(enc') = Len(Encoders) + 1
          \/ pc' \in {"parse", "answer"} /\ Len(enc') >= Len(Encoders)
        BY <1>1, <2>1, <2>3, EncoderFacts
    <2> QED
        BY <1>1, <2>1, <2>3, <2>4, LookedKept, SMTT(30), Z3T(30)
<1> QED
    BY <1>3, <1>4
-----------------------------------------------------------------------------
(* The scans of a request.                                                  *)

\* Scanning and Scanned speak of a request's snapshot, which a scan leaves alone.
LEMMA ScanningNext ==
    ASSUME UNCHANGED <<listing, cursor, enc, snap>>,
           pc' = "scan" =>
             /\ scan'.lo \in Nat /\ scan'.hi \in Nat /\ scan'.size \in Nat \ {0}
             /\ Collected(listing.order, scan'.lo, scan'.hi, Wanted, scan'.kvs)
             /\ \A e \in scan'.lo..(scan'.hi - 1) :
                   Lower <= e /\ e < Upper /\ (Utxos /\ cursor # 0 => Before(cursor, e))
    PROVE  Scanning'
<1>1. /\ Wanted' = Wanted /\ (Utxos' <=> Utxos) /\ Lower' = Lower /\ Upper' = Upper
      /\ \A r, s : Before(r, s)' <=> Before(r, s)
    BY SameListing, SameRequest
<1>2. Collected(listing.order, scan.lo, scan.hi, Wanted, scan.kvs)'
        <=> Collected(listing.order, scan'.lo, scan'.hi, Wanted, scan'.kvs)
    BY <1>1 DEF Collected, Ordered, Precedes, Range
<1>3. \A e : Before(cursor, e)' <=> Before(cursor, e)
    BY DEF Before
<1> QED
    BY <1>1, <1>2, <1>3 DEF Scanning

\* A scan that ends with all the rows wanted, or with more than the page has, is finished.
LEMMA ScannedNext ==
    ASSUME UNCHANGED <<listing, cursor, enc, snap>>,
           pc' \in {"answer", "answered"} =>
             /\ scan' # NoScan /\ Ordered(listing.order, scan'.kvs)
             /\ Leading(listing.order, Range(scan'.kvs), Wanted)
             /\ \/ Range(scan'.kvs) = Wanted
                \/ Utxos /\ Len(scan'.kvs) > listing.count
    PROVE  Scanned'
<1>1. Wanted' = Wanted /\ (Utxos' <=> Utxos)
    BY SameListing, SameRequest
<1>2. Ordered(listing.order, scan.kvs)' <=> Ordered(listing.order, scan'.kvs)
    BY DEF Ordered, Precedes
<1>3. Range(scan.kvs)' = Range(scan'.kvs)
    BY DEF Range
<1>4. Leading(listing.order, Range(scan.kvs), Wanted)'
        <=> Leading(listing.order, Range(scan'.kvs), Wanted)
    BY <1>1, <1>3 DEF Leading, Precedes
<1>5. NoScan' = NoScan
    BY DEF NoScan
<1> QED
    BY <1>1, <1>2, <1>3, <1>4, <1>5, SMTT(30), Z3T(30) DEF Scanned

\* What is wanted, as a set of numbers.
LEMMA WantedNumbers ==
    ASSUME Looked, pc \in {"parse", "scan", "answer", "answered"}
    PROVE  /\ Wanted \in SUBSET Nat /\ IsFiniteSet(Wanted)
           /\ Wanted \in SUBSET (1..(Span - 1))
           /\ \A e \in Wanted : Lower <= e /\ e < Upper
<1>1. /\ listing \in Listings /\ 1 \in 1..Len(enc) /\ TableOf(1) = Encoders[1]
      /\ CursorFound(snap, enc[1]) /\ snap.at[enc[1]] \in Node
    BY RequestFacts, Zenon
<1>2. Lower \in Nat /\ Upper \in Nat /\ Upper <= Span /\ Span \in Nat \ {0}
    BY <1>1, ListingFacts, ZenonT(30)
<1>3. Rows(Encoders[1], snap.at[enc[1]]) \in SUBSET (1..(Span - 1)) /\ Encoders[1] \in 2..7
    <2>1. Output[snap.at[enc[1]]] \in SUBSET (1..(Span - 1))
        BY <1>1, InstancesAssumption, Zenon
    <2> QED
        BY <2>1, EncoderFacts DEF Rows, UtxosByScriptHash, InscriptionUtxosByScriptHash,
                                  InscriptionsByUtxo, RunesByUtxo
<1>4. ASSUME NEW e \in Wanted PROVE e \in 1..(Span - 1) /\ Lower <= e /\ e < Upper
    <2>1. e \in Lower..(Upper - 1) /\ Has(enc[1], Encoders[1], e)
        BY DEF Wanted
    <2>2. e \in 0..(Span - 1) /\ Lower <= e /\ e < Upper
        BY <1>2, <2>1
    <2>3. e \in Rows(Encoders[1], snap.at[enc[1]])
        BY <1>1, <1>3, <2>1, <2>2, HasRows, SMTT(30), Z3T(30)
    <2> QED
        BY <1>3, <2>2, <2>3
<1>5. IsFiniteSet(1..(Span - 1)) /\ 1..(Span - 1) \in SUBSET Nat
    BY <1>2, FS_Interval
<1>6. Wanted \in SUBSET (1..(Span - 1))
    BY <1>4
<1>7. IsFiniteSet(Wanted)
    BY <1>5, <1>6, FS_Subset, Zenon
<1> QED
    BY <1>4, <1>5, <1>6, <1>7

\* The range of the first scan has all that is wanted.
LEMMA ParseScans ==
    ASSUME Looked, Parse, UNCHANGED <<listing, cursor>>
    PROVE  Looked' /\ Scanning'
<1> DEFINE refused == Utxos /\ cursor # 0 /\ ~(Lower <= cursor /\ cursor <= Upper)
           r == IF Utxos /\ cursor # 0 THEN BeyondCursor(Lower, Upper)
                                       ELSE [lo |-> Lower, hi |-> Upper]
<1>1. listing \in Listings /\ cursor \in Nat /\ pc = "parse"
    BY DEF Looked, Parse
<1>2. /\ Lower \in Nat /\ Upper \in Nat /\ listing.count \in Nat \ {0}
      /\ listing.order \in {"Asc", "Desc"}
    BY <1>1, ListingFacts
<1>3. CASE refused
    <2>1. Answer("refused")
        BY <1>3 DEF Parse
    <2>2. pc' = "refused"
        BY <2>1 DEF Answer
    <2> QED
        BY <2>1, <2>2, LookedAnswer DEF Scanning
<1>4. CASE ~refused
    <2>1. /\ scan' = [lo |-> r.lo, hi |-> r.hi, size |-> FirstSize, kvs |-> <<>>]
          /\ pc' = "scan" /\ UNCHANGED <<enc, snap, page, next>>
        BY <1>4 DEF Parse
    <2>2. /\ scan'.lo = r.lo /\ scan'.hi = r.hi /\ scan'.size = FirstSize /\ scan'.kvs = <<>>
        BY <2>1
    <2>3. FirstSize \in Nat \ {0}
        BY <1>2, ReadsAssumption DEF FirstSize
    <2>4. /\ r.lo \in Nat /\ r.hi \in Nat
          /\ \A e \in r.lo..(r.hi - 1) :
                 Lower <= e /\ e < Upper /\ (Utxos /\ cursor # 0 => Before(cursor, e))
          /\ \A e \in Wanted : e \in r.lo..(r.hi - 1)
        <3>1. \A e \in Wanted : /\ e \in Lower..(Upper - 1)
                                /\ Utxos /\ cursor # 0 => Before(cursor, e)
            BY DEF Wanted
        <3>2. CASE Utxos /\ cursor # 0 /\ listing.order = "Asc"
            <4>1. r.lo = cursor + 1 /\ r.hi = Upper
                BY <3>2, Zenon DEF BeyondCursor
            <4> QED
                BY <1>1, <1>2, <1>4, <3>1, <3>2, <4>1 DEF Before, Precedes
        <3>3. CASE Utxos /\ cursor # 0 /\ listing.order = "Desc"
            <4>1. r.lo = Lower /\ r.hi = cursor
                BY <3>3 DEF BeyondCursor
            <4> QED
                BY <1>1, <1>2, <1>4, <3>1, <3>3, <4>1 DEF Before, Precedes
        <3>4. CASE ~(Utxos /\ cursor # 0)
            <4>1. r.lo = Lower /\ r.hi = Upper
                BY <3>4
            <4> QED
                BY <1>2, <3>1, <3>4, <4>1
        <3> QED
            BY <1>2, <3>2, <3>3, <3>4, Zenon
    <2> HIDE DEF r
    <2>5. Ordered(listing.order, <<>>) /\ Range(<<>>) = {}
        BY <1>2 DEF Ordered, Range
    <2>6. Collected(listing.order, r.lo, r.hi, Wanted, <<>>)
        BY <2>4, <2>5, Zenon DEF Collected
    <2>7. Scanning'
        BY <2>1, <2>2, <2>3, <2>4, <2>6, ScanningNext
    <2>8. Looked'
        BY <1>1, <2>1, LookedKept, Zenon DEF Looked
    <2> QED
        BY <2>7, <2>8
<1> QED
    BY <1>3, <1>4, SMTT(30), Z3T(30)

\* A page of rows leaves what was wanted behind it among those collected; the scan
\* ends with all, or with one more than the page has.
LEMMA FetchScans ==
    ASSUME Looked, Scanning, Fetch, UNCHANGED <<listing, cursor>>
    PROVE  Looked' /\ Scanning' /\ Scanned'
<1> DEFINE o == listing.order
           W == Wanted
           rows == Take(Sorted(o, Ahead), scan.size)
           kvs == scan.kvs \o Sorted(o, Range(rows) \cap W)
           count == listing.count
           lo1 == LoLeft(o, scan.lo, rows)
           hi1 == HiLeft(o, scan.hi, rows)
<1>1. /\ listing \in Listings /\ pc = "scan" /\ UNCHANGED <<listing, cursor, enc, snap>>
    BY DEF Looked, Fetch
<1>2. /\ o \in {"Asc", "Desc"} /\ count \in Nat \ {0} /\ Lower \in Nat /\ Upper \in Nat
    BY <1>1, ListingFacts
<1>3. /\ scan.lo \in Nat /\ scan.hi \in Nat /\ scan.size \in Nat \ {0}
      /\ Collected(o, scan.lo, scan.hi, W, scan.kvs)
      /\ \A e \in scan.lo..(scan.hi - 1) :
             Lower <= e /\ e < Upper /\ (Utxos /\ cursor # 0 => Before(cursor, e))
    BY <1>1 DEF Scanning
<1>4. \A e \in scan.lo..(scan.hi - 1) : e \in Lower..(Upper - 1)
    BY <1>2, <1>3
<1>5. Scan(o, scan.lo, scan.hi, Ahead, W, scan.kvs, scan.size)
    <2>1. W \in SUBSET Nat
        BY <1>1, WantedNumbers
    <2>2. Ahead \in SUBSET (scan.lo..(scan.hi - 1)) /\ W \cap (scan.lo..(scan.hi - 1)) \in SUBSET Ahead
        BY SMTT(30), Z3T(30) DEF Wanted, Ahead
    <2> QED
        BY <1>2, <1>3, <2>1, <2>2, Zenon DEF Scan
<1>6. /\ rows = <<>> => Range(scan.kvs) = W
      /\ rows # <<>> =>
            /\ Collected(o, lo1, hi1, W, kvs) /\ Leading(o, Range(kvs), W)
            /\ lo1 \in Nat /\ hi1 \in Nat
            /\ lo1..(hi1 - 1) \in SUBSET (scan.lo..(scan.hi - 1))
            /\ Len(rows) < scan.size => Range(kvs) = W
      /\ Len(rows) \in Nat /\ Range(rows) \in SUBSET Ahead
    <2>1. Fetches(o, scan.lo, scan.hi, Ahead, W, scan.kvs, scan.size, rows, kvs)
        BY <1>5, Zenon DEF Fetches
    <2>2. lo1 = LoLeft(o, scan.lo, rows) /\ hi1 = HiLeft(o, scan.hi, rows)
        OBVIOUS
    <2> HIDE DEF o, W, rows, kvs, lo1, hi1
    <2> QED
        BY <2>1, <2>2, RowsFetched
<1>7. {e \in Range(rows) : Passes(e)} = Range(rows) \cap W
    <2> HIDE DEF rows
    <2>1. \A e \in Ahead : Passes(e) <=> e \in W
        BY <1>3, <1>4 DEF Wanted, Ahead
    <2> QED
        BY <1>6, <2>1, Zenon
<1>8. /\ rows = <<>> => scan' = scan
      /\ rows # <<>> => scan' = [scan EXCEPT !.lo = lo1, !.hi = hi1,
                                   !.kvs = IF Utxos THEN Take(kvs, count + 1) ELSE kvs]
      /\ pc' = IF rows = <<>> \/ Enough(kvs) \/ Exhausted(rows) THEN "answer" ELSE "scan"
    BY <1>1, <1>7, Zenon DEF Fetch, Fetched, InOrder, LoLeft, HiLeft
<1> HIDE DEF rows, kvs, lo1, hi1, W
<1>9. Looked'
    <2>1. pc' \in {"scan", "answer"}
        BY <1>8
    <2> QED
        BY <1>1, <2>1, LookedKept, Zenon DEF Looked
<1>10. CASE rows = <<>>
    <2>1. scan' = scan /\ pc' = "answer" /\ Range(scan.kvs) = W
        BY <1>6, <1>8, <1>10
    <2>2. scan # NoScan
        BY <1>3 DEF NoScan
    <2>3. Leading(o, W, W) /\ Ordered(o, scan.kvs)
        BY <1>3 DEF Leading, Collected
    <2>4. Scanned'
        BY <1>1, <2>1, <2>2, <2>3, ScannedNext DEF W
    <2> QED
        BY <1>9, <2>1, <2>4 DEF Scanning
<1>11. CASE rows # <<>>
    <2>1. /\ scan'.lo = lo1 /\ scan'.hi = hi1 /\ scan'.size = scan.size
          /\ scan'.kvs = IF Utxos THEN Take(kvs, count + 1) ELSE kvs
        <3>1. scan' = [scan EXCEPT !.lo = lo1, !.hi = hi1,
                                   !.kvs = IF Utxos THEN Take(kvs, count + 1) ELSE kvs]
            BY <1>8, <1>11, Zenon
        <3> QED
            BY <3>1
    <2>2. Ordered(o, kvs) /\ Len(kvs) \in Nat
        <3>1. Ordered(o, kvs)
            BY <1>6, <1>11, Zenon DEF Collected
        <3> QED
            BY <3>1 DEF Ordered
    <2>3. ASSUME ~Enough(kvs) PROVE scan'.kvs = kvs
        <3>1. Utxos => ~(count + 1 < Len(kvs))
            BY <1>2, <2>2, <2>3 DEF Enough
        <3> QED
            BY <2>1, <3>1 DEF Take
    <2>4. Scanning'
        <3>1. pc' = "scan" => scan'.kvs = kvs
            BY <1>8, <2>3
        <3> QED
            BY <1>1, <1>3, <1>6, <1>11, <2>1, <3>1, ScanningNext, Zenon DEF W
    <2>5. CASE Enough(kvs)
        <3>1. Utxos /\ Len(kvs) >= count + 1 /\ scan'.kvs = Take(kvs, count + 1)
            BY <2>1, <2>5, Zenon DEF Enough
        <3>2. /\ Ordered(o, scan'.kvs) /\ Leading(o, Range(scan'.kvs), W)
              /\ Len(scan'.kvs) > count
            BY <1>2, <1>6, <1>11, <2>2, <3>1, TakeLeadsOn, ZenonT(30)
        <3>3. scan' # NoScan
            BY <1>3, <2>1 DEF NoScan
        <3> QED
            BY <1>1, <1>9, <2>4, <3>1, <3>2, <3>3, ScannedNext, SMTT(30), Z3T(30) DEF W
    <2>6. CASE ~Enough(kvs)
        <3>1. pc' = "answer" => Range(kvs) = W
            BY <1>6, <1>8, <1>11, <2>6, SMTT(30), Z3T(30) DEF Exhausted
        <3>2. scan' # NoScan
            BY <1>3, <2>1 DEF NoScan
        <3>3. pc' # "answered"
            BY <1>8
        <3> QED
            BY <1>1, <1>6, <1>9, <1>11, <2>2, <2>3, <2>4, <2>6, <3>1, <3>2, <3>3, ScannedNext, Zenon DEF W
    <2> QED
        BY <2>5, <2>6
<1> QED
    BY <1>10, <1>11

\* A scan that does not fit a message is repeated with half the size.
LEMMA TooLargeScans ==
    ASSUME Looked, Scanning, TooLarge, UNCHANGED <<listing, cursor>>
    PROVE  Looked' /\ Scanning'
<1>1. pc = "scan" /\ UNCHANGED <<pc, enc, snap, page, next>>
      /\ scan' = [scan EXCEPT !.size = Halved(@)]
    BY DEF TooLarge
<1>2. scan.size \in Nat \ {0}
    BY <1>1 DEF Scanning
<1>3. Halved(scan.size) \in Nat \ {0}
    BY <1>2 DEF Halved
<1>4. /\ scan'.lo = scan.lo /\ scan'.hi = scan.hi /\ scan'.kvs = scan.kvs
      /\ scan'.size = Halved(scan.size)
    BY <1>1
<1>5. Looked'
    BY <1>1, LookedKept DEF Looked
<1>6. Scanning'
    BY <1>1, <1>3, <1>4, ScanningNext DEF Scanning
<1> QED
    BY <1>5, <1>6
-----------------------------------------------------------------------------
(* The page of a request.                                                   *)

\* The entries that a page may list, and the entries that were found, in order: all
\* of them, or the first ones and more than the page has.
Target == IF Utxos THEN Wanted ELSE {n \in UNION {Ids[e] : e \in Wanted} : n > cursor}

\* What a page may list is a finite set of numbers beyond the cursor.
LEMMA TargetNumbers ==
    ASSUME Looked, pc \in {"answer", "answered"}
    PROVE  /\ Target \in SUBSET (1..(Span - 1)) /\ Target \in SUBSET Nat /\ IsFiniteSet(Target)
           /\ \A x \in Target : cursor # 0 => Before(cursor, x)
<1>1. listing \in Listings /\ cursor \in Nat
    BY RequestAsks, Zenon
<1>2. Span \in Nat \ {0} /\ (~Utxos => listing.order = "Asc")
    BY RequestAsks, Zenon
<1>3. Wanted \in SUBSET (1..(Span - 1))
    BY WantedNumbers, Zenon
<1>4. \A e \in Wanted : Ids[e] \in SUBSET (1..(Span - 1))
    BY <1>3, ReadsAssumption
<1>5. Target \in SUBSET (1..(Span - 1))
    BY <1>3, <1>4 DEF Target
<1>6. IsFiniteSet(1..(Span - 1)) /\ 1..(Span - 1) \in SUBSET Nat
    BY <1>2, FS_Interval
<1>7. IsFiniteSet(Target) /\ Target \in SUBSET Nat
    BY <1>5, <1>6, FS_Subset, Zenon
<1>8. ASSUME NEW x \in Target, cursor # 0 PROVE Before(cursor, x)
    <2>1. CASE Utxos
        BY <1>8, <2>1 DEF Target, Wanted
    <2>2. CASE ~Utxos
        <3>1. x > cursor /\ x \in Nat
            BY <1>7, <1>8, <2>2 DEF Target
        <3> QED
            BY <1>1, <1>2, <2>2, <3>1 DEF Before, Precedes
    <2> QED
        BY <2>1, <2>2
<1> QED
    BY <1>5, <1>7, <1>8

\* A finished scan has found, in order, all that the page may list, or the first of
\* it and more than the page has.
LEMMA FoundTarget ==
    ASSUME Looked, Scanned, pc \in {"answer", "answered"}
    PROVE  /\ Ordered(listing.order, Found)
           /\ scan = NoScan => Found = <<>>
           /\ scan # NoScan => /\ Leading(listing.order, Range(Found), Target)
                               /\ \/ Range(Found) = Target
                                  \/ Len(Found) > listing.count
<1>1. Target \in SUBSET Nat /\ IsFiniteSet(Target)
    BY TargetNumbers
<1>2. ~Utxos => listing.order = "Asc"
    BY RequestAsks, Zenon
<1>3. CASE scan = NoScan
    <2>1. scan.kvs = <<>> /\ Range(<<>>) = {} /\ Ordered(listing.order, <<>>)
        BY <1>3 DEF NoScan, Ordered, Range
    <2>2. CASE Utxos
        BY <1>3, <2>1, <2>2, Zenon DEF Found
    <2>3. CASE ~Utxos
        <3>1. Found = Sorted("Asc", {})
            <4>1. {n \in UNION {Ids[e] : e \in Range(scan.kvs)} : n > cursor} = {}
                BY <2>1
            <4> QED
                BY <2>3, <4>1 DEF Found
        <3>2. Found = <<>>
            BY <1>2, <2>1, <2>3, <3>1, OrderedIsSorted, ZenonT(30)
        <3> QED
            BY <1>3, <2>1, <3>2
    <2> QED
        BY <2>2, <2>3
<1>4. CASE scan # NoScan
    <2>1. /\ Ordered(listing.order, scan.kvs)
          /\ Leading(listing.order, Range(scan.kvs), Wanted)
          /\ Range(scan.kvs) = Wanted \/ (Utxos /\ Len(scan.kvs) > listing.count)
        BY <1>4 DEF Scanned
    <2>2. CASE Utxos
        BY <1>4, <2>1, <2>2, Zenon DEF Found, Target
    <2>3. CASE ~Utxos
        <3>1. Found = Sorted("Asc", Target)
            BY <2>1, <2>3, Zenon DEF Found, Target
        <3>2. Ordered("Asc", Found) /\ Range(Found) = Target
            BY <1>1, <3>1, SortedLists
        <3>3. Leading("Asc", Target, Target)
            BY DEF Leading
        <3> QED
            BY <1>2, <1>4, <2>3, <3>2, <3>3
    <2> QED
        BY <2>2, <2>3
<1> QED
    BY <1>3, <1>4

\* What the snapshot holds beyond the cursor may be listed.
LEMMA HeldBeyond ==
    ASSUME Looked, NEW r \in Held, r \in 1..(Span - 1), cursor # 0 => Before(cursor, r)
    PROVE  r \in Target
<1>1. listing \in Listings /\ cursor \in Nat /\ Span \in Nat
    BY RequestAsks
<1>2. CASE Utxos
    BY <1>2, Zenon DEF Held, Target, Wanted
<1>3. CASE ~Utxos
    <2>1. r > cursor
        <3>1. listing.order = "Asc"
            BY <1>3, RequestAsks, Zenon
        <3> QED
            BY <1>1, <3>1 DEF Before, Precedes
    <2>2. PICK e \in Lower..(Upper - 1) : Has(enc[1], Encoders[1], e) /\ Passes(e) /\ r \in Ids[e]
        BY <1>3, Zenon DEF Held
    <2>3. e \in Wanted
        BY <1>3, <2>2 DEF Wanted
    <2> QED
        BY <1>3, <2>1, <2>2, <2>3 DEF Target
<1> QED
    BY <1>2, <1>3

\* How far a listing has come changes with a page only.
LEMMA ListedKept ==
    ASSUME Listed, UNCHANGED <<listing, cursor, listed, kept>>,
           pc \notin {"answered", "over"}, pc' \notin {"answered", "over"}
    PROVE  Listed'
<1>1. Ordered(listing.order, listed)' <=> Ordered(listing.order, listed)
    BY Zenon DEF Ordered, Precedes
<1>2. UpTo(cursor)' <=> UpTo(cursor)
    BY DEF UpTo, Beyond, Before, Precedes, Range
<1> QED
    BY <1>1, <1>2 DEF Listed

\* What the pages have come to with one more page.
LEMMA OnePageMore ==
    ASSUME Looked, Scanned, Listed, pc = "answer", NEW pg, NEW nx, NEW L2, NEW K2,
           pg = Take(Found, listing.count),
           nx = IF Len(Found) > listing.count THEN CursorOf(Found) ELSE 0,
           L2 = listed \o pg,
           K2 = IF scan = NoScan THEN {} ELSE kept \cap Held
    PROVE  /\ Ordered(listing.order, L2) /\ K2 \in SUBSET (1..(Span - 1)) /\ nx \in Nat
           /\ nx # 0 => /\ \A x \in Range(L2) : ~Before(nx, x)
                        /\ \A r \in Beyond(K2, listing.cursor) : ~Before(nx, r) => r \in Range(L2)
           /\ nx = 0 => Beyond(K2, listing.cursor) \subseteq Range(L2)
<1> DEFINE o == listing.order
           count == listing.count
           F == Found
           T == Target
<1>1. count \in Nat \ {0} /\ cursor \in Nat /\ Span \in Nat \ {0}
    BY RequestAsks, Zenon
<1>2. /\ Ordered(o, listed) /\ kept \in SUBSET (1..(Span - 1))
      /\ cursor = 0 => listed = <<>>
      /\ cursor # 0 => /\ \A x \in Range(listed) : ~Precedes(o, cursor, x)
                       /\ \A r \in Beyond(kept, listing.cursor) :
                             ~Precedes(o, cursor, r) => r \in Range(listed)
    BY Zenon DEF Listed, UpTo, Before
<1>3. /\ T \in SUBSET (1..(Span - 1)) /\ T \in SUBSET Nat
      /\ \A x \in T : cursor # 0 => Precedes(o, cursor, x)
    BY TargetNumbers, Zenon DEF Before
<1>4. /\ Ordered(o, F) /\ (scan = NoScan => F = <<>>)
      /\ scan # NoScan => /\ Leading(o, Range(F), T)
                          /\ Range(F) = T \/ Len(F) > count
    BY FoundTarget, Zenon
<1>5. /\ Len(F) \in Nat /\ F \in Seq(Nat) /\ DOMAIN F = 1..Len(F) /\ Range(F) \in SUBSET T
      /\ scan = NoScan => ~(Len(F) > count)
    <2>1. Len(F) \in Nat /\ F \in Seq(Nat) /\ DOMAIN F = 1..Len(F)
        BY <1>4 DEF Ordered
    <2>2. ASSUME scan = NoScan PROVE Range(F) = {} /\ ~(Len(F) > count)
        BY <1>1, <1>4, <2>2 DEF Range
    <2> QED
        BY <1>4, <2>1, <2>2 DEF Leading
<1>6. Page(o, cursor, listed, F, T, count, pg, nx, L2)
    <2>1. T \in SUBSET (Nat \ {0})
        BY <1>1, <1>3
    <2>2. listed = <<>> => Range(listed) = {}
        BY DEF Range
    <2>3. pg = Take(F, count) /\ nx = IF Len(F) > count THEN F[count] ELSE 0
        BY Zenon DEF CursorOf
    <2> HIDE DEF F, T, o, count
    <2>4. \A x \in Range(listed) : ~Precedes(o, cursor, x)
        BY <1>2, <2>2, ZenonT(30)
    <2> QED
        BY <1>1, <1>2, <1>3, <1>4, <1>5, <2>1, <2>3, <2>4, Zenon DEF Page
<1> HIDE DEF F, T, o, count
<1>7. /\ Ordered(o, L2) /\ Range(L2) = Range(listed) \cup Range(pg) /\ nx \in Nat
      /\ nx # 0 => /\ \A x \in Range(L2) : ~Precedes(o, nx, x)
                   /\ Len(F) > count
                   /\ Leading(o, Range(F), T) =>
                          \A r \in T : ~Precedes(o, nx, r) => r \in Range(pg)
      /\ nx = 0 => pg = F /\ ~(Len(F) > count)
    BY <1>6, PageAdded
<1>8. K2 \in SUBSET kept
    OBVIOUS
<1>9. ASSUME NEW r \in Beyond(K2, listing.cursor), r \notin Range(listed)
       PROVE  scan # NoScan /\ r \in T
    <2>1. r \in K2 /\ r \in Beyond(kept, listing.cursor)
        BY <1>8, <1>9 DEF Beyond
    <2>2. scan # NoScan /\ r \in Held /\ r \in 1..(Span - 1)
        BY <1>2, <2>1, Zenon
    <2>3. cursor # 0 => Before(cursor, r)
        BY <1>2, <1>9, <2>1, Zenon DEF Before, o
    <2> QED
        BY <2>2, <2>3, HeldBeyond DEF T
<1>10. ASSUME nx # 0, NEW r \in Beyond(K2, listing.cursor), ~Before(nx, r)
       PROVE  r \in Range(L2)
    BY <1>4, <1>5, <1>7, <1>9, <1>10, Zenon DEF Before, o
<1>11. ASSUME nx = 0, NEW r \in Beyond(K2, listing.cursor)
       PROVE  r \in Range(L2)
    BY <1>4, <1>7, <1>9, <1>11, Zenon
<1>12. K2 \in SUBSET (1..(Span - 1)) /\ Ordered(listing.order, L2)
    BY <1>2, <1>7, <1>8, Zenon DEF o
<1> QED
    BY <1>7, <1>10, <1>11, <1>12, Zenon DEF Before, o

\* A page is answered, or the request fails for want of an etching.
LEMMA RespondLists ==
    ASSUME Looked, Scanned, Listed, Respond, UNCHANGED <<listing, cursor>>
    PROVE  Looked' /\ Scanning' /\ Scanned' /\ Paged' /\ Listed'
<1>1. pc = "answer"
    BY DEF Respond
<1>2. CASE EtchingMissing
    <2>1. Answer("error") /\ UNCHANGED <<listed, kept>>
        BY <1>2, Zenon DEF Respond
    <2>2. pc' = "error"
        BY <2>1, Zenon DEF Answer
    <2>3. Looked' /\ Listed'
        BY <1>1, <2>1, <2>2, LookedAnswer, ListedKept, SMTT(30), Z3T(30)
    <2> QED
        BY <2>2, <2>3, Zenon DEF Scanning, Scanned, Paged
<1>3. CASE ~EtchingMissing
    <2>1. /\ pc' = "answered" /\ page' = Take(Found, listing.count)
          /\ next' = IF Len(Found) > listing.count THEN CursorOf(Found) ELSE 0
          /\ listed' = listed \o page'
          /\ kept' = IF scan = NoScan THEN {} ELSE kept \cap Held
          /\ UNCHANGED <<enc, snap, scan>>
        BY <1>3, Zenon DEF Respond
    <2>2. Looked'
        BY <1>1, <2>1, LookedKept, Zenon DEF Looked
    <2>3. Scanned'
        <3>1. NoScan' = NoScan
            BY Zenon DEF NoScan
        <3>2. Encoders' = Encoders /\ ~Has(enc[Len(enc)], ScriptHashByAddress, 0)'
                <=> Encoders' = Encoders /\ ~Has(enc[Len(enc)], ScriptHashByAddress, 0)
            BY <2>1, Zenon DEF Has, Key, ScriptHashByAddress
        <3>3. CASE scan = NoScan
            BY <1>1, <2>1, <3>1, <3>2, <3>3, SameListing, Zenon DEF Scanned
        <3>4. CASE scan # NoScan
            BY <1>1, <2>1, <3>4, ScannedNext, Zenon DEF Scanned
        <3> QED
            BY <3>3, <3>4
    <2>4. Paged'
        BY <2>1, SameFound, Zenon DEF Paged
    <2>5. /\ Ordered(listing.order, listed') /\ kept' \in SUBSET (1..(Span - 1)) /\ next' \in Nat
          /\ next' # 0 =>
                /\ \A x \in Range(listed') : ~Before(next', x)
                /\ \A r \in Beyond(kept', listing.cursor) :
                      ~Before(next', r) => r \in Range(listed')
          /\ next' = 0 => Beyond(kept', listing.cursor) \subseteq Range(listed')
        BY <1>1, <2>1, OnePageMore, Zenon
    <2>6. Listed'
        <3>1. Ordered(listing.order, listed)' <=> Ordered(listing.order, listed')
            BY DEF Ordered, Precedes
        <3>2. Range(listed)' = Range(listed')
            BY DEF Range
        <3>3. Beyond(kept, listing.cursor)' = Beyond(kept', listing.cursor)
            BY DEF Beyond, Before, Precedes
        <3>4. \A x : Before(next, x)' <=> Before(next', x)
            BY Zenon DEF Before, Precedes
        <3>5. UpTo(next)'
            BY <2>5, <3>2, <3>3, <3>4, SMTT(30), Z3T(30) DEF UpTo
        <3> QED
            BY <2>1, <2>5, <3>1, <3>2, <3>3, <3>5, Zenon DEF Listed
    <2> QED
        BY <2>1, <2>2, <2>3, <2>4, <2>6, Zenon DEF Scanning
<1> QED
    BY <1>2, <1>3

\* The client goes on from the cursor of the page.
LEMMA TakePageLists ==
    ASSUME Looked, Listed, TakePage
    PROVE  Looked' /\ Scanning' /\ Scanned' /\ Paged' /\ Listed'
<1>1. /\ pc = "answered" /\ cursor' = next /\ next \in Nat
      /\ pc' = IF next = 0 THEN "over" ELSE "idle"
      /\ enc' = <<>> /\ scan' = NoScan /\ UNCHANGED <<listing, listed, kept>>
    BY DEF TakePage, Listed
<1>2. NoScan' = NoScan
    BY DEF NoScan
<1>3. enc' \in Seq(Instance) /\ 1..Len(enc') = {}
    BY <1>1
<1>4. Looked'
    BY <1>1, <1>2, <1>3, ZenonT(30) DEF Looked
<1>5. Ordered(listing.order, listed)' <=> Ordered(listing.order, listed)
    BY <1>1 DEF Ordered, Precedes
<1>6. UpTo(cursor)' <=> UpTo(next)
    BY <1>1, Zenon DEF UpTo, Beyond, Before, Precedes, Range
<1>7. Listed'
    BY <1>1, <1>5, <1>6, Zenon DEF Listed
<1> QED
    BY <1>1, <1>4, <1>7 DEF Scanning, Scanned, Paged

\* The client asks, and the request may fail.
LEMMA AskLists ==
    ASSUME Looked, Listed, Ask
    PROVE  Looked' /\ Scanning' /\ Scanned' /\ Paged' /\ Listed'
<1>1. pc \in {"idle", "error"} /\ pc' = "resolve" /\ enc = <<>>
      /\ UNCHANGED <<enc, snap, scan, page, next, listing, cursor, listed, kept>>
    BY Zenon DEF Ask, Looked
<1>2. Len(enc) < Len(Encoders)
    BY <1>1, EncoderFacts
<1>3. NoScan' = NoScan
    BY DEF NoScan
<1>4. Looked'
    BY <1>1, <1>2, <1>3, SameListing, Zenon DEF Looked
<1>5. Listed'
    BY <1>1, ListedKept
<1> QED
    BY <1>1, <1>4, <1>5, Zenon DEF Scanning, Scanned, Paged

\* A request that fails leaves the listing where it was.
LEMMA FailLists ==
    ASSUME Looked, Listed, Fail, UNCHANGED clientVars
    PROVE  Looked' /\ Scanning' /\ Scanned' /\ Paged' /\ Listed'
<1>1. /\ pc \in {"resolve", "snapshot", "address", "scan", "answer"} /\ Answer("error")
      /\ UNCHANGED <<listing, cursor, listed, kept>>
    BY DEF Fail, clientVars
<1>2. pc' = "error"
    BY <1>1 DEF Answer
<1>3. Looked' /\ Listed'
    BY <1>1, <1>2, LookedAnswer, ListedKept, SMTT(30), Z3T(30)
<1> QED
    BY <1>2, <1>3 DEF Scanning, Scanned, Paged

\* Instances are found, a snapshot is taken and the address is looked up.
LEMMA LookupLists ==
    ASSUME Keyspaces, Scored, Whole(kv, at), Looked, Listed,
           Resolve \/ BeginSnapshot \/ ResolveAddress,
           UNCHANGED <<listing, cursor, listed, kept>>
    PROVE  Looked' /\ Scanning' /\ Scanned' /\ Paged' /\ Listed'
<1>1. Looked'
    BY LookedResolve, LookedSnapshot, LookedAddress
<1>2. /\ pc \in {"resolve", "snapshot", "address"}
      /\ pc' \in {"resolve", "snapshot", "address", "parse", "answer", "error"}
      /\ pc' = "answer" => ResolveAddress
    BY Zenon DEF Resolve, BeginSnapshot, ResolveAddress, Answer
<1>3. Listed'
    BY <1>2, ListedKept
<1>4. ASSUME pc' = "answer" PROVE Scanned'
    <2>1. ResolveAddress /\ pc = "address" /\ enc \in Seq(Instance) /\ scan = NoScan
          /\ Len(enc) \in {Len(Encoders), Len(Encoders) + 1}
        BY <1>2, <1>4, Zenon DEF ResolveAddress, Looked
    <2>2. PICK i : /\ ~(Len(enc) > Len(Encoders)) /\ enc' = Append(enc, i)
                   /\ ~Has(i, ScriptHashByAddress, 0) /\ UNCHANGED <<snap, scan>>
        BY <1>4, <2>1, Zenon DEF ResolveAddress, Answer
    <2>3. Len(Encoders) \in Nat
        BY EncoderFacts
    <2>4. Len(enc') = Len(Encoders) + 1 /\ enc'[Len(enc')] = i
        <3>1. Len(enc) = Len(Encoders)
            BY <2>1, <2>2, <2>3, SMTT(30), Z3T(30)
        <3> QED
            BY <2>1, <2>2, <3>1
    <2>5. Has(enc[Len(enc)], ScriptHashByAddress, 0)' <=> Has(i, ScriptHashByAddress, 0)
        BY <2>2, <2>4 DEF Has, Key, ScriptHashByAddress
    <2>6. NoScan' = NoScan
        BY Zenon DEF NoScan
    <2> QED
        BY <2>1, <2>2, <2>4, <2>5, <2>6, SameListing, Zenon DEF Scanned
<1>5. Scanned'
    BY <1>2, <1>4 DEF Scanned
<1> QED
    BY <1>1, <1>2, <1>3, <1>5 DEF Scanning, Paged

\* The other steps of the system leave a request alone.
LEMMA RequestStays ==
    ASSUME Looked, Scanning, Scanned, Paged, Listed, UNCHANGED <<requestVars, clientVars>>
    PROVE  Looked' /\ Scanning' /\ Scanned' /\ Paged' /\ Listed'
<1>1. UNCHANGED <<pc, enc, snap, scan, page, next, listing, cursor, listed, kept>>
    BY Zenon DEF requestVars, clientVars
<1>2. /\ Wanted' = Wanted /\ (Utxos' <=> Utxos) /\ Encoders' = Encoders
      /\ \A n : TableOf(n)' = TableOf(n)
    BY <1>1, SameListing, SameRequest
<1>3. NoScan' = NoScan
    BY DEF NoScan
<1>4. Looked'
    <2>1. Whole(snap.kv, snap.at)' <=> Whole(snap.kv, snap.at)
        BY <1>1, Zenon DEF Whole, Content
    <2>2. CursorFound(snap, enc[1])' <=> CursorFound(snap, enc[1])
        BY <1>1, Zenon DEF CursorFound
    <2> QED
        BY <1>1, <1>2, <1>3, <2>1, <2>2, Zenon DEF Looked
<1>5. Scanning'
    BY <1>1, ScanningNext, Zenon DEF Scanning
<1>6. Scanned'
    <2>1. Has(enc[Len(enc)], ScriptHashByAddress, 0)'
            <=> Has(enc[Len(enc)], ScriptHashByAddress, 0)
        BY <1>1 DEF Has, Key, ScriptHashByAddress
    <2>2. CASE scan = NoScan
        BY <1>1, <1>2, <1>3, <2>1, <2>2, Zenon DEF Scanned
    <2>3. CASE scan # NoScan
        BY <1>1, <2>3, ScannedNext, Zenon DEF Scanned
    <2> QED
        BY <2>2, <2>3
<1>7. Paged'
    BY <1>1, SameFound DEF Paged
<1>8. Listed'
    <2>1. Ordered(listing.order, listed)' <=> Ordered(listing.order, listed)
        BY <1>1 DEF Ordered, Precedes
    <2>2. (UpTo(cursor)' <=> UpTo(cursor)) /\ (UpTo(next)' <=> UpTo(next))
        BY <1>1, Zenon DEF UpTo, Beyond, Before, Precedes, Range
    <2>3. /\ Beyond(kept, listing.cursor)' = Beyond(kept, listing.cursor)
          /\ Range(listed)' = Range(listed)
        BY <1>1, Zenon DEF Beyond, Before, Precedes, Range
    <2> QED
        BY <1>1, <2>1, <2>2, <2>3, Zenon DEF Listed
<1> QED
    BY <1>4, <1>5, <1>6, <1>7, <1>8
-----------------------------------------------------------------------------
(* What a page is.                                                          *)

\* The block of a page, and the hypothesis that the instances that decide stand there.
BlockOf == snap.at[enc[1]]
Agreed  == \A k \in Deciding \ {1} : snap.at[enc[k]] = BlockOf /\ CursorFound(snap, enc[k])

\* What a page may list of its block.
OfBlock == {e \in Rows(Encoders[1], BlockOf) :
                /\ Lower <= e /\ e < Upper
                /\ listing.dust => e \notin Dust
                /\ listing.exclude => e \notin DuneOutputs \cup InscriptionOutputs}

\* When the instances that decide stand at one block, the rows that pass the filters
\* are the ones that block has for the listing.
LEMMA RowsOfBlock ==
    ASSUME Looked, pc = "answered", Agreed
    PROVE  {e \in Lower..(Upper - 1) : Has(enc[1], Encoders[1], e) /\ Passes(e)} = OfBlock
<1>1. /\ Len(enc) >= Len(Encoders) /\ CursorFound(snap, enc[1]) /\ Len(enc) \in Nat
      /\ 1 \in 1..Len(enc) /\ TableOf(1) = Encoders[1] /\ BlockOf \in Node
    BY RequestFacts, Zenon DEF BlockOf
<1>2. /\ Lower \in Nat /\ Upper \in Nat /\ Upper <= Span /\ Span \in Nat \ {0}
      /\ ~Utxos => ~listing.exclude
    BY RequestAsks, Zenon
<1>3. Output[BlockOf] \in SUBSET (1..(Span - 1))
    BY <1>1, InstancesAssumption, SMTT(30), Z3T(30)
<1>4. /\ Rows(Encoders[1], BlockOf) \in SUBSET Output[BlockOf]
      /\ Rows(RunesByUtxo, BlockOf) = Output[BlockOf] \cap DuneOutputs
      /\ Rows(InscriptionsByUtxo, BlockOf) = Output[BlockOf] \cap InscriptionOutputs
    BY EncoderFacts DEF Rows, UtxosByScriptHash, RunesByUtxo, InscriptionsByUtxo,
                        InscriptionUtxosByScriptHash
<1>5. ASSUME NEW e \in 0..(Span - 1)
      PROVE  Has(enc[1], Encoders[1], e) <=> e \in Rows(Encoders[1], BlockOf)
    <2>1. TableOf(1) \in 2..7
        BY <1>1, EncoderFacts
    <2>2. Has(enc[1], TableOf(1), e) <=> e \in Rows(TableOf(1), snap.at[enc[1]])
        BY <1>1, <2>1, HasRows, Zenon
    <2> QED
        BY <1>1, <2>2, Zenon DEF BlockOf
<1>6. ASSUME listing.exclude, NEW e \in 0..(Span - 1), e \in Output[BlockOf]
      PROVE  Carries(e) <=> e \in DuneOutputs \cup InscriptionOutputs
    <2>1. Utxos /\ 2 \in Deciding \ {1} /\ 4 \in Deciding \ {1}
        BY <1>2, <1>6 DEF Deciding
    <2>2. /\ TableOf(2) = RunesByUtxo /\ TableOf(4) = InscriptionsByUtxo
          /\ RunesByUtxo \in 2..7 /\ InscriptionsByUtxo \in 2..7
          /\ 2 \in 1..Len(enc) /\ 4 \in 1..Len(enc)
        <3>1. Len(Encoders) = 4 /\ Encoders[2] = RunesByUtxo /\ Encoders[4] = InscriptionsByUtxo
            BY <2>1, EncoderFacts
        <3>2. TableOf(2) = RunesByUtxo /\ TableOf(4) = InscriptionsByUtxo
            BY <3>1 DEF TableOf
        <3>3. 2 \in 1..Len(enc) /\ 4 \in 1..Len(enc)
            BY <1>1, <3>1
        <3> QED
            BY <3>2, <3>3 DEF RunesByUtxo, InscriptionsByUtxo
    <2>3. /\ snap.at[enc[2]] = BlockOf /\ CursorFound(snap, enc[2])
          /\ snap.at[enc[4]] = BlockOf /\ CursorFound(snap, enc[4])
        BY <2>1, Zenon DEF Agreed
    <2>4. Has(enc[2], TableOf(2), e) <=> e \in Rows(TableOf(2), snap.at[enc[2]])
        BY <2>2, <2>3, HasRows
    <2>5. Has(enc[4], TableOf(4), e) <=> e \in Rows(TableOf(4), snap.at[enc[4]])
        BY <2>2, <2>3, HasRows, ZenonT(30)
    <2> QED
        BY <1>4, <1>6, <2>2, <2>3, <2>4, <2>5, Zenon DEF Carries
<1>7. ASSUME NEW e \in Rows(Encoders[1], BlockOf) PROVE e \in 0..(Span - 1) /\ e \in Output[BlockOf]
    BY <1>2, <1>3, <1>4, SMTT(30), Z3T(30)
<1>8. ASSUME NEW e \in Lower..(Upper - 1), Has(enc[1], Encoders[1], e), Passes(e)
      PROVE  e \in OfBlock
    <2>1. e \in 0..(Span - 1) /\ Lower <= e /\ e < Upper
        BY <1>2
    <2>2. e \in Rows(Encoders[1], BlockOf)
        BY <1>5, <1>8, <2>1, SMTT(30), Z3T(30)
    <2> QED
        BY <1>6, <1>7, <1>8, <2>1, <2>2 DEF OfBlock, Passes
<1>9. ASSUME NEW e \in OfBlock
      PROVE  e \in Lower..(Upper - 1) /\ Has(enc[1], Encoders[1], e) /\ Passes(e)
    <2>1. e \in Rows(Encoders[1], BlockOf) /\ Lower <= e /\ e < Upper
        BY Zenon DEF OfBlock
    <2>2. e \in 0..(Span - 1) /\ e \in Output[BlockOf]
        BY <1>7, <2>1
    <2>3. e \in Lower..(Upper - 1)
        BY <1>2, <2>1, <2>2
    <2> QED
        BY <1>5, <1>6, <2>1, <2>2, <2>3 DEF OfBlock, Passes
<1> QED
    BY <1>8, <1>9

\* What a page may list is what its block has beyond the cursor.
LEMMA TargetOfBlock ==
    ASSUME Looked, pc = "answered", Agreed
    PROVE  Target = Beyond(Expected(BlockOf), cursor)
<1>1. cursor \in Nat /\ (~Utxos => listing.order = "Asc") /\ Span \in Nat \ {0}
    BY RequestAsks, Zenon
<1>2. {e \in Lower..(Upper - 1) : Has(enc[1], Encoders[1], e) /\ Passes(e)} = OfBlock
    BY RowsOfBlock, Zenon
<1>3. Expected(BlockOf) = IF Utxos THEN OfBlock ELSE UNION {Ids[e] : e \in OfBlock}
    BY Zenon DEF Expected, OfBlock
<1>4. CASE Utxos
    <2>1. Wanted = {e \in OfBlock : cursor # 0 => Before(cursor, e)}
        BY <1>2, <1>4 DEF Wanted
    <2> QED
        BY <1>3, <1>4, <2>1 DEF Target, Beyond
<1>5. CASE ~Utxos
    <2>1. Wanted = OfBlock
        BY <1>2, <1>5 DEF Wanted
    <2>2. ASSUME NEW r \in UNION {Ids[e] : e \in OfBlock}
          PROVE  r > cursor <=> (cursor # 0 => Before(cursor, r))
        <3>1. OfBlock \in SUBSET (1..(Span - 1))
            BY <2>1, WantedNumbers
        <3>2. r \in 1..(Span - 1)
            BY <3>1, ReadsAssumption
        <3> QED
            BY <1>1, <1>5, <3>2 DEF Before, Precedes
    <2> QED
        BY <1>3, <1>5, <2>1, <2>2 DEF Target, Beyond
<1> QED
    BY <1>4, <1>5

\* An address that was never seen has nothing at that block.
LEMMA NothingForUnseen ==
    ASSUME Looked, Scanned, pc = "answered", scan = NoScan, Agreed
    PROVE  Beyond(Expected(BlockOf), cursor) = {}
<1> DEFINE m == Len(enc)
<1>1. /\ enc \in Seq(Instance) /\ m = Len(Encoders) + 1 /\ ~Has(enc[m], ScriptHashByAddress, 0)
      /\ Len(Encoders) \in {1, 4} /\ enc[1] \in Instance /\ BlockOf \in Node
    <2>1. m = Len(Encoders) + 1 /\ ~Has(enc[m], ScriptHashByAddress, 0)
        BY Zenon DEF Scanned
    <2>2. enc \in Seq(Instance) /\ 1 \in 1..m /\ \A n \in 1..m : enc[n] \in Instance
                                                              /\ snap.at[enc[n]] \in Node
        BY RequestFacts, Zenon
    <2> QED
        BY <2>1, <2>2, EncoderFacts, Zenon DEF BlockOf
<1>2. m \in Deciding \ {1} /\ m \in 1..m
    BY <1>1 DEF Deciding
<1>3. snap.at[enc[m]] = BlockOf /\ CursorFound(snap, enc[m])
    BY <1>2, Zenon DEF Agreed
<1>4. TableOf(m) = ScriptHashByAddress /\ ScriptHashByAddress \in 2..7
    BY <1>1 DEF TableOf, ScriptHashByAddress
<1>5. 0 \in 0..(Span - 1)
    BY InstancesAssumption
<1>6. Has(enc[m], TableOf(m), 0) <=> 0 \in Rows(TableOf(m), snap.at[enc[m]])
    BY <1>2, <1>3, <1>4, <1>5, HasRows, Zenon
<1>7. 0 \notin Rows(ScriptHashByAddress, BlockOf)
    BY <1>1, <1>3, <1>4, <1>6, Zenon
<1>8. BlockOf \notin Known
    BY <1>7 DEF Rows, ScriptHashByAddress, UtxosByScriptHash, RunesByUtxo, InscriptionsByUtxo,
                InscriptionUtxosByScriptHash, EtchingByRuneId
<1>9. Output[BlockOf] = {}
    BY <1>1, <1>8, InstancesAssumption, SMTT(30), Z3T(30)
<1>10. Rows(Encoders[1], BlockOf) = {}
    BY <1>9, EncoderFacts DEF Rows, UtxosByScriptHash, RunesByUtxo, InscriptionsByUtxo,
                              InscriptionUtxosByScriptHash
<1>11. Expected(BlockOf) = {}
    BY <1>10, Zenon DEF Expected
<1> QED
    BY <1>11 DEF Beyond

\* A finished scan makes the page that is stated of its block.
LEMMA PageFromScan ==
    ASSUME Looked, Scanned, Paged
    PROVE  PageOfItsBlock
<1> DEFINE o == listing.order
           count == listing.count
           all == InOrder(Beyond(Expected(BlockOf), cursor))
<1> SUFFICES ASSUME pc = "answered", Agreed
             PROVE  page = Take(all, count) /\ (next # 0) = (Len(all) > count)
    BY Zenon DEF PageOfItsBlock, Agreed, BlockOf
<1> SUFFICES page = Take(all, count) /\ (next # 0 <=> Len(all) > count)
    <2> HIDE DEF all, count
    <2> QED
        OBVIOUS
<1>1. count \in Nat \ {0} /\ Span \in Nat \ {0}
    BY RequestAsks, Zenon
<1>2. /\ page = Take(Found, count)
      /\ next = IF Len(Found) > count THEN CursorOf(Found) ELSE 0
    BY Zenon DEF Paged
<1>3. /\ Ordered(o, Found) /\ (scan = NoScan => Found = <<>>)
      /\ scan # NoScan => /\ Leading(o, Range(Found), Target)
                          /\ Range(Found) = Target \/ Len(Found) > count
    BY FoundTarget, Zenon
<1>4. CASE scan = NoScan
    <2>1. all = Sorted(o, {})
        BY <1>4, NothingForUnseen DEF InOrder
    <2>2. Range(<<>>) = {} /\ Ordered(o, <<>>)
        BY DEF Range, Ordered
    <2>3. all = <<>>
        BY <2>1, <2>2, OrderedIsSorted, Zenon
    <2>4. Found = <<>> /\ ~(Len(<<>>) > count)
        BY <1>1, <1>3, <1>4
    <2> QED
        BY <1>2, <2>3, <2>4
<1>5. CASE scan # NoScan
    <2>1. Target \in SUBSET (1..(Span - 1)) /\ Target \in SUBSET Nat /\ IsFiniteSet(Target)
        BY TargetNumbers
    <2>2. all = Sorted(o, Target)
        BY TargetOfBlock DEF InOrder
    <2>3. /\ Take(Found, count) = Take(Sorted(o, Target), count)
          /\ Len(Found) > count <=> Len(Sorted(o, Target)) > count
        <3>1. /\ Ordered(o, Found) /\ Leading(o, Range(Found), Target)
              /\ Range(Found) = Target \/ Len(Found) > count
            BY <1>3, <1>5
        <3> QED
            BY <1>1, <2>1, <3>1, PageOfLeading
    <2>4. ASSUME Len(Found) > count PROVE CursorOf(Found) # 0
        <3>1. count \in 1..Len(Found) /\ DOMAIN Found = 1..Len(Found)
            BY <1>1, <1>3, <2>4 DEF Ordered
        <3>2. Found[count] \in Range(Found)
            BY <3>1 DEF Range
        <3>3. Found[count] \in 1..(Span - 1)
            BY <1>3, <1>5, <2>1, <3>2, Zenon DEF Leading
        <3> QED
            BY <1>1, <3>3 DEF CursorOf
    <2> QED
        BY <1>2, <2>2, <2>3, <2>4
<1> QED
    BY <1>4, <1>5

\* A listing that has come up to a cursor is exact up to it.
LEMMA ListingFromPages ==
    ASSUME Listed
    PROVE  ListingExact
BY Zenon DEF Listed, ListingExact, Ordered, Before, UpTo

\* The invariant of module Reads.
ReadInv == /\ Keyspaces /\ Wiped /\ Scored /\ Whole(kv, at)
           /\ Looked /\ Scanning /\ Scanned /\ Paged /\ Listed

\* The invariant holds at the start of a listing.
LEMMA ReadInit == Init => ReadInv
<1> SUFFICES ASSUME Init PROVE ReadInv
    BY Zenon
<1>1. /\ InstancesInit /\ daw = DawIdle /\ listing \in Listings /\ cursor = listing.cursor
      /\ pc = "resolve" /\ enc = <<>> /\ scan = NoScan /\ listed = <<>> /\ kept = 1..(Span - 1)
    BY DEF Init
<1>2. /\ at = StartAt /\ kv = [i \in Instance |-> Content[i][StartAt[i]]]
      /\ running = [i \in Instance |-> TRUE] /\ StartAt \in [Instance -> Block]
      /\ score = [g \in Group |-> [i \in Instance |->
                     IF i \in Registered /\ g \in Serves[i] THEN Height[StartAt[i]] ELSE 0]]
    BY <1>1, InstancesAssumption, Zenon DEF InstancesInit
<1>3. \A i \in Instance : Content[i][StartAt[i]] \in SUBSET (0..(8 * Span))
    BY <1>2, ContentBounded, Zenon DEF Node
<1>4. Keyspaces
    BY <1>2, <1>3, Zenon DEF Keyspaces
<1>5. Wiped /\ Whole(kv, at)
    BY <1>1, <1>2, ZenonT(30) DEF Wiped, DawIdle, Runs, Whole
<1>6. Scored
    <2>1. \A i \in Instance : Height[StartAt[i]] \in Nat
        BY <1>2, TreeAssumption, ZenonT(30) DEF Node
    <2> QED
        BY <1>2, <2>1 DEF Scored
<1>7. Looked
    <2>1. cursor \in Nat
        BY <1>1, ReadsAssumption
    <2>2. enc \in Seq(Instance) /\ Len(enc) = 0 /\ 1..Len(enc) = {}
        BY <1>1
    <2>3. Len(enc) < Len(Encoders)
        BY <2>2, EncoderFacts, SMTT(30), Z3T(30)
    <2> QED
        BY <1>1, <2>1, <2>2, <2>3, SMTT(30), Z3T(30) DEF Looked
<1>8. Listed
    <2>1. Range(<<>>) = {} /\ Ordered(listing.order, <<>>)
        BY DEF Range, Ordered
    <2>2. \A r \in Beyond(kept, listing.cursor) : cursor # 0 => Before(cursor, r)
        BY <1>1, SMTT(30), Z3T(30) DEF Beyond
    <2> QED
        BY <1>1, <2>1, <2>2 DEF Listed, UpTo
<1> QED
    BY <1>1, <1>4, <1>5, <1>6, <1>7, <1>8, SMTT(30), Z3T(30) DEF ReadInv, Scanning, Scanned, Paged

\* Every step of an instance, of daw, of a request or of the client keeps it.
LEMMA ReadStep == ReadInv /\ [Next]_vars => ReadInv'
<1> SUFFICES ASSUME ReadInv, [Next]_vars PROVE ReadInv'
    OBVIOUS
<1> USE DEF ReadInv
<1>1. (Keyspaces /\ Wiped /\ Scored /\ Whole(kv, at))'
    <2>1. \/ UNCHANGED <<instanceVars, daw>>
          \/ InstanceStep /\ UNCHANGED daw
          \/ DawStep
        BY DEF Next, vars, Handle
    <2>2. Whole(kv, at)' <=> Whole(kv', at')
        BY Zenon DEF Whole, Content
    <2>3. CASE UNCHANGED <<instanceVars, daw>>
        BY <2>2, <2>3, Zenon DEF instanceVars, Keyspaces, Wiped, Scored
    <2> QED
        BY <2>1, <2>2, <2>3, KeyspacesStep, WipedInstanceStep, WipedDawStep, WholeStep, ScoredStep, Zenon
        DEF Wiped
<1> SUFFICES (Looked /\ Scanning /\ Scanned /\ Paged /\ Listed)'
    BY <1>1, Zenon
<1>2. CASE Handle
    <2>1. UNCHANGED <<listing, cursor>>
        BY <1>2, Zenon DEF Handle
    <2>2. CASE Respond
        BY <2>1, <2>2, RespondLists, Zenon
    <2>3. CASE ~Respond
        <3>1. /\ Resolve \/ BeginSnapshot \/ ResolveAddress \/ Parse \/ Fetch \/ TooLarge
              /\ UNCHANGED <<listed, kept>>
            BY <1>2, <2>3 DEF Handle
        <3>2. CASE Resolve \/ BeginSnapshot \/ ResolveAddress
            BY <2>1, <3>1, <3>2, LookupLists
        <3>3. CASE Parse
            <4>1. Looked' /\ Scanning' /\ pc = "parse" /\ pc' \in {"refused", "scan"}
                BY <2>1, <3>3, ParseScans, Zenon DEF Parse, Answer
            <4> QED
                BY <2>1, <3>1, <4>1, ListedKept, Zenon DEF Scanned, Paged
        <3>4. CASE Fetch
            <4>1. Looked' /\ Scanning' /\ Scanned' /\ pc = "scan" /\ pc' \in {"answer", "scan"}
                BY <2>1, <3>4, FetchScans, Zenon DEF Fetch
            <4> QED
                BY <2>1, <3>1, <4>1, ListedKept, Zenon DEF Paged
        <3>5. CASE TooLarge
            <4>1. Looked' /\ Scanning' /\ pc = "scan" /\ pc' = "scan"
                BY <2>1, <3>5, TooLargeScans DEF TooLarge
            <4> QED
                BY <2>1, <3>1, <4>1, ListedKept, Zenon DEF Scanned, Paged
        <3> QED
            BY <3>1, <3>2, <3>3, <3>4, <3>5, ZenonT(30)
    <2> QED
        BY <2>2, <2>3, Zenon
<1>3. CASE Fail /\ UNCHANGED clientVars
    BY <1>3, FailLists, Zenon
<1>4. CASE TakePage \/ Ask
    BY <1>4, TakePageLists, AskLists
<1>5. CASE UNCHANGED <<requestVars, clientVars>>
    BY <1>5, RequestStays, Zenon
<1> QED
    BY <1>2, <1>3, <1>4, <1>5 DEF Next, vars

\* A page that is answered is a page of the block that last_updated names: it lists
\* the first count entries that the chain up to there has beyond the cursor, and has
\* a next_cursor exactly if there are more, however its scan was cut into batches,
\* halved and filtered, and while instances commit, undo, retire and are wiped.
THEOREM PagesAreOfTheirBlock == Spec => []PageOfItsBlock
<1>1. ReadInv => PageOfItsBlock
    BY PageFromScan, Zenon DEF ReadInv
<1> QED
    BY <1>1, ReadInit, ReadStep, PTL DEF Spec

\* A listing over several requests repeats no entry, keeps its order and, up to where
\* it has come, misses nothing that was there all along, although every request may
\* be served by another instance that stands at another block.
THEOREM ListingsAreExact == Spec => []ListingExact
<1>1. ReadInv => ListingExact
    BY ListingFromPages DEF ReadInv
<1> QED
    BY <1>1, ReadInit, ReadStep, PTL DEF Spec
=============================================================================
