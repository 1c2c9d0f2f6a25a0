--------------------------------- MODULE Daw ---------------------------------
(***************************************************************************)
(* daw, the operator's tool: `delete instance` on a retired instance.      *)
(***************************************************************************)
EXTENDS Instances

CONSTANTS Options,      \* the flags an operator may give: force, destroy, tsOnly
          DawScanSize,  \* --scan-size
          DawFits       \* keys that fit one gRPC message

\* A scan of size 0 would find nothing; a single key fits every message.
ASSUME DawAssumption ==
    /\ Options \subseteq [force : BOOLEAN, destroy : BOOLEAN, tsOnly : BOOLEAN]
    /\ DawScanSize \in Nat \ {0} /\ DawFits \in Nat \ {0}

VARIABLE daw    \* [pc, of, opt, from, size]

DawIdle == [pc |-> "idle"]

\* The Redis part, then the range of the instance.
DawStart(i) ==
    /\ daw.pc = "idle" /\ ~running[i]
    /\ \E o \in Options :
           /\ records' = IF o.force THEN records \ {<<i, "timestamps">>} ELSE records
           /\ daw' = [pc   |-> IF o.tsOnly THEN "done" ELSE
                               IF o.destroy THEN "destroy" ELSE "scan",
                      of   |-> i, opt |-> o, from |-> 0, size |-> DawScanSize]
    /\ UNCHANGED <<at, kv, running, score, due, moves>>

\* unsafe_destroy_range removes every version at once.
DawDestroy ==
    /\ daw.pc = "destroy"
    /\ kv' = [kv EXCEPT ![daw.of] = {}]
    /\ daw' = [daw EXCEPT !.pc = "info"]
    /\ UNCHANGED <<at, records, running, score, due, moves>>

\* scan_keys: the first n keys of a range.
FirstKeys(S, n) == {k \in S : Cardinality({j \in S : j < k}) < n}

DawAhead   == {k \in kv[daw.of] : k >= daw.from}
DawFetched == FirstKeys(DawAhead, daw.size)

\* (variant) skips the key after the last one fetched
SkipOne(keys) == Max(keys) + 2

\* range_remaining: from the last key fetched, with a zero byte appended
DawRemaining(keys) == Max(keys) + 1

\* One transaction: scan, delete what was found, commit.
DawDelete ==
    /\ daw.pc = "scan"
    /\ LET keys == DawFetched
       IN  /\ Cardinality(keys) <= DawFits
           /\ IF keys = {}
              THEN daw' = [daw EXCEPT !.pc = "info"] /\ kv' = kv
              ELSE /\ daw' = [daw EXCEPT !.from = DawRemaining(keys)]
                   /\ kv' = IF daw.opt.force THEN [kv EXCEPT ![daw.of] = @ \ keys] ELSE kv
    /\ UNCHANGED <<at, records, running, score, due, moves>>

DawTooLarge ==
    /\ daw.pc = "scan" /\ Cardinality(DawFetched) > DawFits
    /\ daw' = [daw EXCEPT !.size = @ \div 2]
    /\ UNCHANGED instanceVars

\* The info entry, in a transaction of its own.
DawInfo ==
    /\ daw.pc = "info"
    /\ records' = IF daw.opt.force THEN records \ {<<daw.of, "info">>} ELSE records
    /\ daw' = [daw EXCEPT !.pc = "done"]
    /\ UNCHANGED <<at, kv, running, score, due, moves>>

\* A scan, a commit or the call to destroy fails for good, or the operator
\* interrupts.
DawFails ==
    /\ daw.pc \in {"destroy", "scan", "info"}
    /\ daw' = DawIdle
    /\ UNCHANGED instanceVars

DawStep == \/ \E i \in Instance : DawStart(i)
           \/ DawDestroy \/ DawDelete \/ DawTooLarge \/ DawInfo \/ DawFails
-----------------------------------------------------------------------------
\* "deletion complete": a forced run that ends has removed the whole keyspace,
\* its timestamps and its info entry, whatever runs were broken off before and
\* however often the scan size was halved.
WipeComplete ==
    daw.pc = "done" /\ daw.opt.force =>
        /\ <<daw.of, "timestamps">> \notin records
        /\ daw.opt.tsOnly \/ (kv[daw.of] = {} /\ <<daw.of, "info">> \notin records)

\* "Every command is a dry run by default, printing a summary of what would be
\* deleted; pass --force to actually apply it": no step of a run without force
\* changes what is stored.
DryRunKeeps ==
    [][daw.pc \in {"scan", "destroy", "info"} /\ ~daw.opt.force =>
           kv'[daw.of] = kv[daw.of] /\ records' = records]_<<kv, records>>
=============================================================================
