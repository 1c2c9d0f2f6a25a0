-------------------------------- MODULE Reads --------------------------------
(***************************************************************************)
(* mapi: a client lists the outputs of an address (utxos_by_address) or its *)
(* inscriptions (inscriptions_by_address) page by page.  Each request finds *)
(* its instances in the registry, opens one snapshot of TiKV and scans it;  *)
(* between requests, and between the steps of one, the instances move, are  *)
(* registered, retired and wiped.                                          *)
(***************************************************************************)
EXTENDS Daw

CONSTANTS Listings,     \* what a client may ask for
          Dust,         \* the outputs below the threshold of filter_dust
          Ids,          \* output -> the inscriptions it carries
          BatchSize,    \* KV_SCAN_BATCH_SIZE
          Fits,         \* rows that fit one gRPC message
          MaxRequests

\* Both handlers refuse a count of 0.  A listing of inscriptions has no order and no
\* filters; its cursor and its entries are inscriptions, numbers that keep the order
\* of their identifiers.  Span is more than any output or inscription asked for; at
\* any block an inscription is in one output.
ASSUME ReadsAssumption ==
    /\ Listings \subseteq
           [kind : {"utxos", "inscriptions"}, order : {"Asc", "Desc"}, from : Nat, to : Nat,
            cursor : Nat, count : Nat \ {0}, dust : BOOLEAN, exclude : BOOLEAN,
            address : BOOLEAN]
    /\ \A l \in Listings :
           /\ (l.to + 1) * PerHeight <= Span
           /\ l.kind = "inscriptions" => l.order = "Asc" /\ ~l.dust /\ ~l.exclude
    /\ Ids \in [1..(Span - 1) -> SUBSET (1..(Span - 1))]
    /\ \A b \in Node : \A e, f \in Output[b] : e # f => Ids[e] \cap Ids[f] = {}
    /\ BatchSize \in Nat \ {0} /\ Fits \in Nat \ {0}

VARIABLES listing,   \* [kind, order, from, to, cursor, count, dust, exclude, address]
          cursor,    \* the cursor of the page asked for; 0: none
          pc, enc, snap, scan,
          page, next, requests,
          listed,    \* what the pages so far have listed
          kept       \* what all their snapshots have held

requestVars == <<pc, enc, snap, scan, page, next>>
clientVars  == <<listing, cursor, requests, listed, kept>>
vars == <<instanceVars, daw, requestVars, clientVars>>

Utxos  == listing.kind = "utxos"
NoSnap == [at |-> StartAt, kv |-> [i \in Instance |-> {}]]
NoScan == [lo |-> 0, hi |-> 0, size |-> 0, kvs |-> <<>>]

\* A request ends without a page.
Answer(how) == /\ pc' = how /\ enc' = <<>> /\ snap' = NoSnap /\ scan' = NoScan
               /\ UNCHANGED <<page, next>>
-----------------------------------------------------------------------------
(* Instance resolution.                                                    *)

\* ZRANGE key 0 0: the member with the lowest score.
Resolved(g) ==
    {i \in Instance : /\ score[g][i] > 0
                      /\ \A j \in Instance : score[g][j] > 0 =>
                             \/ score[g][i] < score[g][j]
                             \/ score[g][i] = score[g][j] /\ i <= j}

\* The encoders of a handler, in the order it asks for them.
Encoders == IF Utxos THEN <<UtxosByScriptHash, RunesByUtxo, EtchingByRuneId, InscriptionsByUtxo>>
                     ELSE <<InscriptionUtxosByScriptHash>>

\* NoEntriesFound is answered with an internal error.
Resolve ==
    /\ pc = "resolve"
    /\ LET found == Resolved(GroupOf(Encoders[Len(enc) + 1]))
       IN  IF found = {} THEN Answer("error")
           ELSE \E i \in found :
                    /\ enc' = Append(enc, i)
                    /\ pc' = IF Len(enc') = Len(Encoders) THEN "snapshot" ELSE pc
                    /\ UNCHANGED <<snap, scan, page, next>>

Has(i, table, row) == Key(table, row) \in snap.kv[i]
-----------------------------------------------------------------------------
(* begin_snapshot_latest and get_last_updated of the listed table.         *)

CursorFound(s, i) == CursorKey \in s.kv[i]

BeginSnapshot ==
    /\ pc = "snapshot"
    /\ LET s == [at |-> at, kv |-> kv]
       IN  IF ~CursorFound(s, enc[1]) THEN Answer("error")
           ELSE /\ snap' = s
                /\ pc' = IF listing.address THEN "address" ELSE "parse"
                /\ UNCHANGED <<enc, scan, page, next>>

\* parse_address_or_script_bytes: two look-ups, each in the instance that the
\* registry names at that moment.  An address that was never seen has no outputs;
\* its script must be found.
ResolveAddress ==
    /\ pc = "address"
    /\ LET second == Len(enc) > Len(Encoders)
           table  == IF second THEN ScriptByScriptHash ELSE ScriptHashByAddress
           found  == Resolved(GroupOf(table))
       IN  IF \E i \in found : second => Has(i, table, 0)
           THEN \E i \in found :
                    /\ enc' = Append(enc, i)
                    /\ pc' = IF second THEN "parse" ELSE IF Has(i, table, 0) THEN pc ELSE "answer"
                    /\ UNCHANGED <<snap, scan, page, next>>
           ELSE Answer("error")
-----------------------------------------------------------------------------
(* ParsedHeightPaginationParams::parse.                                    *)

Lower == listing.from * PerHeight
Upper == (listing.to + 1) * PerHeight

BeyondCursor(lo, hi) == IF listing.order = "Asc" THEN [lo |-> cursor + 1, hi |-> hi]
                                                 ELSE [lo |-> lo, hi |-> cursor]

\* How many rows one scan asks for: all of a page and one more, or a batch when
\* rows may be dropped.
FirstSize == IF Utxos /\ ~listing.dust /\ ~listing.exclude THEN listing.count + 1 ELSE BatchSize

Parse ==
    /\ pc = "parse"
    /\ IF Utxos /\ cursor # 0 /\ ~(Lower <= cursor /\ cursor <= Upper) THEN Answer("refused")
       ELSE LET r == IF Utxos /\ cursor # 0 THEN BeyondCursor(Lower, Upper)
                                            ELSE [lo |-> Lower, hi |-> Upper]
            IN  /\ scan' = [lo |-> r.lo, hi |-> r.hi, size |-> FirstSize, kvs |-> <<>>]
                /\ pc' = "scan"
                /\ UNCHANGED <<enc, snap, page, next>>
-----------------------------------------------------------------------------
(* Scanner: execute_with_filter and get_non_metaprotocol_utxos.            *)

InOrder(rows) == Sorted(listing.order, rows)

\* One scan, as a set of one sequence of rows, which TLC evaluates once.
Ahead   == {e \in scan.lo..(scan.hi - 1) : Has(enc[1], Encoders[1], e)}
Fetched == {Take(InOrder(rows), scan.size) : rows \in {Ahead}}

Carries(e) == Has(enc[2], RunesByUtxo, e) \/ Has(enc[4], InscriptionsByUtxo, e)

Passes(e) == /\ listing.dust => e \notin Dust
             /\ listing.exclude => ~Carries(e)

\* count is given for outputs, one more than the page has; inscriptions are all
\* scanned.
Enough(kvs) == Utxos /\ Len(kvs) >= listing.count + 1

\* (variant) compares what the filter left
ExhaustedAfterFilter(rows) == Cardinality({e \in Range(rows) : Passes(e)}) < scan.size

Exhausted(rows) == Len(rows) < scan.size

Fetch ==
    /\ pc = "scan"
    /\ \E rows \in Fetched :
       LET kvs == scan.kvs \o InOrder({e \in Range(rows) : Passes(e)})
       IN  /\ Len(rows) <= Fits
           /\ IF rows = <<>> THEN scan' = scan
              ELSE scan' = [scan EXCEPT
                     !.lo  = IF listing.order = "Asc" THEN rows[Len(rows)] + 1 ELSE @,
                     !.hi  = IF listing.order = "Asc" THEN @ ELSE rows[Len(rows)],
                     !.kvs = IF Utxos THEN Take(kvs, listing.count + 1) ELSE kvs]
           /\ pc' = IF rows = <<>> \/ Enough(kvs) \/ Exhausted(rows) THEN "answer" ELSE pc
    /\ UNCHANGED <<enc, snap, page, next>>

\* (variant) the next attempt is as large
SameSize(n) == n

Halved(n) == IF n < 2 THEN 1 ELSE n \div 2

\* "Received message larger than max"
TooLarge ==
    /\ pc = "scan" /\ \E rows \in Fetched : Len(rows) > Fits
    /\ scan' = [scan EXCEPT !.size = Halved(@)]
    /\ UNCHANGED <<pc, enc, snap, page, next>>
-----------------------------------------------------------------------------
(* The rest of the handlers.                                               *)

\* Outputs are listed as scanned.  Inscriptions beyond the cursor are sorted by
\* their identifiers.
Found == IF Utxos THEN scan.kvs
         ELSE Sorted("Asc", {n \in UNION {Ids[e] : e \in Range(scan.kvs)} : n > cursor})

\* The dunes of a listed output need the divisibility of their etching.
EtchingMissing ==
    Utxos /\ ~listing.exclude /\ ~Has(enc[3], EtchingByRuneId, 0)
    /\ \E e \in Range(Take(Found, listing.count)) : Has(enc[2], RunesByUtxo, e)

\* (variant) the cursor is the entry after the page
CursorOfNext(found) == found[listing.count + 1]

CursorOf(found) == found[listing.count]

\* What the snapshot holds of the listing, apart from the cursor.
Held == LET rows == {e \in Lower..(Upper - 1) : Has(enc[1], Encoders[1], e) /\ Passes(e)}
        IN  IF Utxos THEN rows ELSE UNION {Ids[e] : e \in rows}

Respond ==
    /\ pc = "answer"
    /\ IF EtchingMissing THEN Answer("error") /\ UNCHANGED <<listed, kept>>
       ELSE /\ pc' = "answered"
            /\ page' = Take(Found, listing.count)
            /\ next' = IF Len(Found) > listing.count THEN CursorOf(Found) ELSE 0
            /\ listed' = listed \o page'
            /\ kept' = IF scan = NoScan THEN {} ELSE kept \cap Held
            /\ UNCHANGED <<enc, snap, scan>>

\* TiKV or Redis fails, or the request passes its deadline.
Fail == pc \in {"resolve", "snapshot", "address", "scan", "answer"} /\ Answer("error")

Handle ==
    /\ \/ /\ Resolve \/ BeginSnapshot \/ ResolveAddress \/ Parse \/ Fetch \/ TooLarge
          /\ UNCHANGED <<listed, kept>>
       \/ Respond
    /\ UNCHANGED <<instanceVars, daw, listing, cursor, requests>>
-----------------------------------------------------------------------------
(* The client, and everything together.                                    *)

\* The client takes a page, and asks for the next one, or for the same one again
\* after an error.
TakePage ==
    /\ pc = "answered"
    /\ cursor' = next
    /\ pc' = IF next = 0 THEN "over" ELSE "idle"
    /\ enc' = <<>> /\ snap' = NoSnap /\ scan' = NoScan /\ page' = <<>> /\ next' = 0
    /\ UNCHANGED <<listing, requests, listed, kept>>

Ask ==
    /\ pc \in {"idle", "error"} /\ requests < MaxRequests
    /\ pc' = "resolve"
    /\ requests' = requests + 1
    /\ UNCHANGED <<enc, snap, scan, page, next, listing, cursor, listed, kept>>

Init ==
    /\ InstancesInit /\ daw = DawIdle
    /\ listing \in Listings
    /\ cursor = listing.cursor
    /\ pc = "resolve" /\ enc = <<>> /\ snap = NoSnap /\ scan = NoScan
    /\ page = <<>> /\ next = 0 /\ requests = 1
    /\ listed = <<>> /\ kept = 1..(Span - 1)

\* What reads nothing but its snapshot commutes with all other steps, which are
\* interleaved with the rest of a request only; and no more is followed than one
\* listing.
Aside == pc \in {"parse", "scan", "answer", "answered", "refused", "over"}

\* The operator destroys a range only when no request reads it.
Unread == daw.pc = "destroy" => daw.of \notin Range(enc)

Next ==
    \/ Handle
    \/ Fail /\ UNCHANGED <<instanceVars, daw, clientVars>>
    \/ (TakePage \/ Ask) /\ UNCHANGED <<instanceVars, daw>>
    \/ ~Aside /\ InstanceStep /\ UNCHANGED <<daw, requestVars, clientVars>>
    \/ ~Aside /\ Unread /\ DawStep /\ UNCHANGED <<requestVars, clientVars>>

Spec == Init /\ [][Next]_vars /\ WF_vars(Handle)
-----------------------------------------------------------------------------
\* r comes before s in the order of the listing.
Before(r, s) == Precedes(listing.order, r, s)
Beyond(S, c) == {r \in S : c # 0 => Before(c, r)}

\* What the chain up to b has for the listing.
Expected(b) ==
    LET rows == {e \in Rows(Encoders[1], b) :
                    /\ Lower <= e /\ e < Upper
                    /\ listing.dust => e \notin Dust
                    /\ listing.exclude => e \notin DuneOutputs \cup InscriptionOutputs}
    IN  IF Utxos THEN rows ELSE UNION {Ids[e] : e \in rows}

\* The instances whose rows decide what a page lists.
Deciding == {1} \cup (IF listing.exclude THEN {2, 4} ELSE {})
                \cup ((Len(Encoders) + 1)..Len(enc))

\* A page that is answered is a page of the block that last_updated names: it
\* lists what the chain up to that block has beyond the cursor, no more than
\* count, and a next_cursor exactly if there is more.  So filters, batches,
\* halved scans and the extra entry neither lose nor repeat an entry, and a
\* keyspace that daw is deleting is never listed in part, because its cursor goes
\* first.  Where several instances decide (exclude_metaprotocols, an address), it
\* is stated for the moments at which they stand at the same block.
PageOfItsBlock ==
    LET b == snap.at[enc[1]]
        all == InOrder(Beyond(Expected(b), cursor))
    IN  pc = "answered" /\ (\A k \in Deciding \ {1} : /\ snap.at[enc[k]] = b
                                                      /\ CursorFound(snap, enc[k]))
        => /\ page = Take(all, listing.count)
           /\ (next # 0) = (Len(all) > listing.count)

\* A listing over several requests, served by instances that move or take over
\* from each other in between, repeats no entry, keeps its order and has every
\* entry that was there all along, up to where it has come.
ListingExact ==
    /\ \A m, n \in 1..Len(listed) : m < n => Before(listed[m], listed[n])
    /\ pc = "answered" =>
           \A r \in Beyond(kept, listing.cursor) :
               next = 0 \/ ~Before(next, r) => r \in Range(listed)

\* Every request is answered, also when a scan does not fit a message.
RequestsAnswered == pc = "resolve" ~> pc \in {"answered", "error", "refused"}
=============================================================================
