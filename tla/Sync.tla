-------------------------------- MODULE Sync ---------------------------------
(***************************************************************************)
(* The compressor's sync pipeline around ChainDB: the peer session with a  *)
(* Dogecoin node, the pull stage, the queue to the roll stage, and the     *)
(* health stage behind it.                                                 *)
(*                                                                         *)
(* The pull stage is a sequential task; each of its awaits is a place where *)
(* the node, the connection handler, the roll stage and failures step in.  *)
(* Its cursor is a locator of recent blocks, read in part from a database   *)
(* that the queued events have not reached yet.                            *)
(***************************************************************************)
EXTENDS ChainDB, FiniteSetsExt, Functions

CONSTANTS PageSize,    \* config.block_page_size
          Recent,      \* how many of the page's points the cursor keeps (50)
          Dense,       \* how many points intersect_options takes in a row (10)
          QueueSize,   \* config.sync_channel_queue
          Commands,    \* the subcommands considered: "sync", "daemon"
          MaxFaults    \* bound on lost connections, failed flushes and crashes

ASSUME SyncAssumption ==
    /\ {PageSize, Recent, Dense, QueueSize} \subseteq Nat \ {0}
    /\ Commands \subseteq {"sync", "daemon"}
    \* MaxTip bounds the tips of the node
    /\ \A b \in Block : Height[b] <= MaxTip

VARIABLES command,     \* the subcommand that runs the pipeline
          ended,       \* the stages that have ended
          node,        \* the tip of the node's active chain
          conn,        \* none, handshake, up, mute (writer gone) or dead
          announced,   \* an inv with a block is on its way
          permit,      \* the permit that new_block_notification stores
          pc,          \* where the pull stage stands
          cursor, pull_tip, init, headers, units,  \* its worker and locals
          queue,       \* PullEvents for the roll stage
          report,      \* the HealthEvent the roll stage is sending
          reports,     \* HealthEvents for the health stage
          health,      \* StageHealth.roll_stage
          faults

peerVars   == <<node, conn, announced, permit>>
pullVars   == <<pc, cursor, pull_tip, init, headers, units>>
healthVars == <<report, reports, health>>
runVars    == <<command, ended>>
syncVars   == <<runVars, dbVars, peerVars, pullVars, queue, healthVars, faults>>

ForwardTo(b, tip) == [kind |-> "forward", block |-> b, tip |-> tip]
BackTo(b, tip)    == [kind |-> "back",    block |-> b, tip |-> tip]
-----------------------------------------------------------------------------
(* The node, external to the repository.                                   *)

\* getheaders: what follows the first point of the locator that is on the
\* active chain, or the genesis block when none is.
HeadersAfter(locator) ==
    LET known == {i \in DOMAIN locator : locator[i] \in Range(Chain[node])}
        fork  == IF known = {} THEN 0 ELSE Height[locator[Min(known)]]
    IN  SubSeq(Chain[node], fork + 1, Height[node])

\* The node follows the branch with more work and announces its new tip.
NodeAdvances(b) ==
    /\ Height[b] > Height[node]
    /\ node' = b
    /\ announced' = (conn \in {"up", "mute"})
    /\ UNCHANGED <<runVars, dbVars, conn, permit, pullVars, queue, healthVars, faults>>
-----------------------------------------------------------------------------
(* The connection: PeerHandler with its reading and writing tasks.         *)

\* Peer::connect
Connect ==
    /\ pc = "boot"
    /\ conn' = "handshake" /\ announced' = FALSE /\ permit' = FALSE
    /\ pc' = "connecting"
    /\ UNCHANGED <<runVars, dbVars, node, cursor, pull_tip, init, headers, units,
                   queue, healthVars, faults>>

\* The exchange of version and verack, which notifies init_notifier.
Handshake ==
    /\ conn = "handshake"
    /\ conn' = "up"
    /\ pc' = "connected"
    /\ UNCHANGED <<runVars, dbVars, node, announced, permit, cursor, pull_tip, init,
                   headers, units, queue, healthVars, faults>>

\* (variant) only a worker that is already waiting is woken
NotifyWaiting == permit' = (pc = "waiting")

\* notify_one
NotifyOne == permit' = TRUE

\* PeerHandler::tick on an inv that contains a block.
RelayAnnouncement ==
    /\ announced /\ conn \in {"up", "mute"}
    /\ announced' = FALSE
    /\ NotifyOne
    /\ UNCHANGED <<runVars, dbVars, node, conn, pullVars, queue, healthVars, faults>>

\* The reader fails, or panics on an unsupported message: its channel closes
\* and the handler stops.
IngressFails ==
    /\ faults < MaxFaults
    /\ conn \in {"handshake", "up", "mute"}
    /\ conn' = "dead" /\ announced' = FALSE
    /\ faults' = faults + 1
    /\ UNCHANGED <<runVars, dbVars, node, permit, pullVars, queue, healthVars>>

\* The writer fails; the handler notices when it next has something to send.
EgressFails ==
    /\ faults < MaxFaults
    /\ conn = "up"
    /\ conn' = "mute"
    /\ faults' = faults + 1
    /\ UNCHANGED <<runVars, dbVars, node, announced, permit, pullVars, queue, healthVars>>

\* A request or the pong of a ping cannot be passed on.
HandlerStops ==
    /\ conn = "mute"
    /\ conn' = "dead" /\ announced' = FALSE
    /\ UNCHANGED <<runVars, dbVars, node, permit, pullVars, queue, healthVars, faults>>
-----------------------------------------------------------------------------
(* The pull stage.                                                         *)

\* The newest Dense blocks, then at distances that double, until the index
\* reaches 0.
StoredOptions ==
    LET back(n) == IF n <= Dense THEN n - 1 ELSE Dense - 3 + 2^(n - Dense + 1)
        used == {n \in 1..TipHeight : \A j \in 1..n : back(j) \in 0..TipHeight - 1}
    IN  [n \in used |-> blocks[TipHeight - back(n)]]

\* ChainDB::intersect_options
IntersectOptions == Append(StoredOptions, Genesis)

\* (variant) an empty database starts at the node's tip
BootstrapAtTip ==
    /\ pc = "connected"
    /\ pull_tip' = Height[node]
    /\ cursor' = IF TipHeight = 0 THEN <<node, Genesis>> ELSE IntersectOptions
    /\ init' = (TipHeight = 0)
    /\ pc' = "schedule" /\ headers' = <<>> /\ units' = <<>>
    /\ UNCHANGED <<runVars, dbVars, peerVars, queue, healthVars, faults>>

\* bootstrap, once the handshake is done: the RPC tip and the cursor.
Bootstrap ==
    /\ pc = "connected"
    /\ pull_tip' = Height[node]
    /\ cursor' = IntersectOptions
    /\ init' = FALSE
    /\ pc' = "schedule" /\ headers' = <<>> /\ units' = <<>>
    /\ UNCHANGED <<runVars, dbVars, peerVars, queue, healthVars, faults>>

\* A new session first takes the roll stage back to the cursor.
FirstRollback ==
    IF ~init /\ cursor[1] # Genesis THEN <<BackTo(cursor[1], pull_tip)>> ELSE <<>>

\* schedule starts: get_new_headers sends its request.
RequestHeaders ==
    /\ pc = "schedule" /\ conn # "dead"
    /\ units' = FirstRollback
    /\ init' = TRUE
    /\ pc' = "headers"
    /\ UNCHANGED <<runVars, dbVars, peerVars, cursor, pull_tip, headers, queue, healthVars, faults>>

\* The page; what a notification led to is not truncated.
PageOf(hs) == IF pc = "headers" THEN SubSeq(hs, 1, IF Len(hs) < PageSize THEN Len(hs)
                                                   ELSE PageSize)
              ELSE hs

\* The node answers and the handler relays the headers, which are read later.
RelayHeaders ==
    /\ pc \in {"headers", "new headers"} /\ conn = "up"
    /\ headers' = PageOf(HeadersAfter(cursor))
    /\ pc' = "answered"
    /\ UNCHANGED <<runVars, dbVars, peerVars, cursor, pull_tip, init, units, queue,
                   healthVars, faults>>

ReceiveHeaders ==
    /\ pc = "answered"
    /\ pc' = IF headers = <<>> THEN "waiting" ELSE "request blocks"
    /\ UNCHANGED <<runVars, dbVars, peerVars, cursor, pull_tip, init, headers, units, queue,
                   healthVars, faults>>

\* new_block_notification.notified()
Wake ==
    /\ pc = "waiting" /\ permit
    /\ permit' = FALSE
    /\ pc' = "new headers"
    /\ UNCHANGED <<runVars, dbVars, node, conn, announced, cursor, pull_tip, init, headers, units,
                   queue, healthVars, faults>>

\* get_blocks sends its request (unwrap: a closed channel is a panic).
RequestBlocks ==
    /\ pc = "request blocks" /\ conn # "dead"
    /\ pc' = "blocks"
    /\ UNCHANGED <<runVars, dbVars, peerVars, cursor, pull_tip, init, headers, units,
                   queue, healthVars, faults>>

\* options.retain: the options go down in height, so what is lower is a suffix.
OptionsBelow(h) ==
    LET lower == {i \in DOMAIN IntersectOptions : Height[IntersectOptions[i]] < h}
    IN  SubSeq(IntersectOptions, Min(lower), Len(IntersectOptions))

\* The last blocks of the page, the newest first.
Newest(page) ==
    [i \in 1..(IF Len(page) < Recent THEN Len(page) ELSE Recent) |-> page[Len(page) + 1 - i]]

\* (variant) the genesis block is taken to be among the options
CursorWithoutGenesis(page) ==
    IF Len(Newest(page)) < Recent
    THEN Newest(page) \o OptionsBelow(Height[Newest(page)[Len(Newest(page))]])
    ELSE Newest(page)

\* The cursor after a page: its newest points, the options of the database
\* below them when they are few, and the genesis block.
CursorAfter(page) ==
    Append(IF Len(Newest(page)) < Recent
           THEN Newest(page) \o OptionsBelow(Height[Newest(page)[Len(Newest(page))]])
           ELSE Newest(page), Genesis)

\* A page on another branch is preceded by a rollback to the intersect.
Reorganise ==
    IF Height[Parent[headers[1]]] # Height[cursor[1]]
    THEN <<BackTo(Parent[headers[1]], pull_tip)>> ELSE <<>>

TipAt(i) == IF Height[headers[i]] > pull_tip THEN Height[headers[i]] ELSE pull_tip

\* The blocks arrive, checked against the hashes, and become the stage's unit.
ReceiveBlocks ==
    /\ pc = "blocks" /\ conn = "up"
    /\ units' = units \o Reorganise
                      \o [i \in 1..Len(headers) |-> ForwardTo(headers[i], TipAt(i))]
    /\ cursor' = CursorAfter(headers)
    /\ pull_tip' = TipAt(Len(headers))
    /\ pc' = "send" /\ headers' = <<>>
    /\ UNCHANGED <<runVars, dbVars, peerVars, init, queue, healthVars, faults>>

\* execute: the events go downstream one by one.
Send ==
    /\ pc = "send" /\ Len(queue) < QueueSize /\ "roll" \notin ended
    /\ queue' = Append(queue, Head(units))
    /\ units' = Tail(units)
    /\ pc' = IF units' = <<>> THEN "schedule" ELSE "send"
    /\ UNCHANGED <<runVars, dbVars, peerVars, cursor, pull_tip, init, headers, healthVars, faults>>

\* get_chain_tips fails: or_restart.
RpcFails ==
    /\ faults < MaxFaults
    /\ pc = "connected"
    /\ pc' = "boot"
    /\ faults' = faults + 1
    /\ UNCHANGED <<runVars, dbVars, peerVars, cursor, pull_tip, init, headers, units,
                   queue, healthVars>>

\* A request to a stopped handler fails: or_restart.  The queue survives.
PullRestart ==
    /\ conn = "dead"
    /\ pc \in {"schedule", "headers", "new headers", "blocks"}
    /\ pc' = "boot"
    /\ UNCHANGED <<runVars, dbVars, peerVars, cursor, pull_tip, init, headers, units,
                   queue, healthVars, faults>>
-----------------------------------------------------------------------------
(* The roll and health stages.                                             *)

\* (variant) a rollback is not reported
ReportForward(e) ==
    /\ \/ e.kind = "forward" /\ RollForward(e.block, e.tip)
       \/ e.kind = "back" /\ e.block # Genesis /\ RollBack(e.block, e.tip)
    /\ report' = IF e.kind = "forward" THEN e.block ELSE NoBlock

\* roll::execute, one event; then the event is reported to the health stage.
RollEvent(e) ==
    /\ \/ e.kind = "forward" /\ RollForward(e.block, e.tip)
       \/ e.kind = "back" /\ e.block # Genesis /\ RollBack(e.block, e.tip)
    /\ report' = e.block

RollUnit ==
    /\ report = NoBlock /\ retrying = NoBlock /\ queue # <<>>
    /\ RollEvent(Head(queue))
    /\ queue' = Tail(queue)
    /\ UNCHANGED <<runVars, peerVars, pullVars, reports, health, faults>>

RollFlushFails ==
    /\ faults < MaxFaults
    /\ report = NoBlock /\ queue # <<>>
    /\ Head(queue).kind = "forward"
    /\ RollForwardFlushFails(Head(queue).block, Head(queue).tip)
    /\ queue' = Tail(queue)
    /\ faults' = faults + 1
    /\ UNCHANGED <<runVars, peerVars, pullVars, healthVars>>

RollRetry ==
    /\ RetryForward
    /\ report' = retrying
    /\ UNCHANGED <<runVars, peerVars, pullVars, queue, reports, health, faults>>

RollReports ==
    /\ report # NoBlock /\ Len(reports) < QueueSize
    /\ reports' = Append(reports, report)
    /\ report' = NoBlock
    /\ UNCHANGED <<runVars, dbVars, peerVars, pullVars, queue, health, faults>>

\* health::execute
HealthUpdates ==
    /\ reports # <<>>
    /\ health' = Head(reports)
    /\ reports' = Tail(reports)
    /\ UNCHANGED <<runVars, dbVars, peerVars, pullVars, queue, report, faults>>
-----------------------------------------------------------------------------
(* Stages end when they panic or run out of retries, and block when nothing *)
(* wakes them.  `sync` polls the daemon of stages and exits, and its         *)
(* container is started again; `daemon` never looks at it.                   *)

\* Everything in memory is gone, and the roll stage's bootstrap reports the
\* cursor of the database.
ProcessRestart ==
    /\ Restart
    /\ ended' = {}
    /\ conn' = "none" /\ announced' = FALSE /\ permit' = FALSE
    /\ pc' = "boot" /\ cursor' = <<>> /\ pull_tip' = 0 /\ init' = FALSE
    /\ headers' = <<>> /\ units' = <<>>
    /\ queue' = <<>>
    /\ report' = Tip /\ reports' = <<>> /\ health' = NoBlock
    /\ UNCHANGED <<command, node>>

\* The daemon finds a stage that has ended, or one that has not ticked for
\* tick_timeout: a pull stage that waits for a handler that has stopped.
PipelineExits ==
    /\ command = "sync"
    /\ \/ ended # {}
       \/ /\ conn = "dead"
          /\ pc = "connecting" \/ (pc = "waiting" /\ ~permit)
    /\ ProcessRestart
    /\ UNCHANGED faults

Crash ==
    /\ faults < MaxFaults
    /\ ProcessRestart
    /\ faults' = faults + 1

\* The roll stage cannot execute its event: the block does not continue the
\* last one, or the point of a rollback is not in the table.
Holds(b) == Height[b] \in DOMAIN blocks /\ blocks[Height[b]] = b

CannotRoll(e) == IF e.kind = "forward" THEN ~LinksToLast(e.block) ELSE ~Holds(e.block)

\* The retries run out; or the queue is empty and the pull stage has ended.
RollEnds ==
    /\ report = NoBlock /\ "roll" \notin ended
    /\ \/ retrying \in Spending
       \/ retrying = NoBlock /\ queue # <<>> /\ CannotRoll(Head(queue))
       \/ retrying = NoBlock /\ queue = <<>> /\ "pull" \in ended
    /\ ended' = ended \cup {"roll"}
    /\ UNCHANGED <<command, dbVars, peerVars, pullVars, queue, healthVars, faults>>

\* get_blocks panics when the handler has stopped, send when the roll stage has
\* ended.
PullEnds ==
    /\ "pull" \notin ended
    /\ \/ pc = "request blocks" /\ conn = "dead"
       \/ pc = "send" /\ "roll" \in ended
    /\ ended' = ended \cup {"pull"}
    /\ UNCHANGED <<command, dbVars, peerVars, pullVars, queue, healthVars, faults>>
-----------------------------------------------------------------------------
SyncInit ==
    /\ Init
    /\ command \in Commands /\ ended = {}
    /\ node = Genesis /\ conn = "none" /\ announced = FALSE /\ permit = FALSE
    /\ pc = "boot" /\ cursor = <<>> /\ pull_tip = 0 /\ init = FALSE
    /\ headers = <<>> /\ units = <<>>
    /\ queue = <<>>
    /\ report = NoBlock /\ reports = <<>> /\ health = NoBlock
    /\ faults = 0

HandlerStep == Handshake \/ RelayHeaders \/ RelayAnnouncement \/ HandlerStops

PullStep ==
    \/ /\ "pull" \notin ended
       /\ \/ Connect \/ Bootstrap \/ RequestHeaders \/ ReceiveHeaders \/ Wake
          \/ RequestBlocks \/ ReceiveBlocks \/ Send \/ PullRestart
    \/ PullEnds

RollStep ==
    \/ "roll" \notin ended /\ (RollUnit \/ RollRetry \/ RollReports)
    \/ RollEnds

SyncNext ==
    \/ \E b \in Block : NodeAdvances(b)
    \/ HandlerStep \/ IngressFails \/ EgressFails \/ RpcFails
    \/ PullStep
    \/ RollStep \/ HealthUpdates
    \/ "roll" \notin ended /\ RollFlushFails
    \/ PipelineExits \/ Crash

\* The runtime polls every task that can proceed; nothing is promised of the
\* node.  A connection may fail, but what still works is polled.
SyncSpec == /\ SyncInit /\ [][SyncNext]_syncVars
            /\ WF_syncVars(HandlerStep) /\ WF_syncVars(PullStep)
            /\ WF_syncVars(RollStep) /\ WF_syncVars(HealthUpdates)
            /\ WF_syncVars(PipelineExits)
-----------------------------------------------------------------------------
Synchronised == Tip = node

\* Once the node's chain rests and failures stop, the database of `sync` reaches
\* the node's tip and stays there: an announcement that arrives between an empty
\* answer and the wait is not lost, a dead connection is left by a restart of
\* the worker or of the process, and an event that the roll stage cannot execute
\* costs a restart and not the synchronisation.
SyncConverges == <>[](command = "sync" /\ node # Genesis => Synchronised)

\* The same of `daemon`, which runs the same pipeline beside the gRPC server.
DaemonConverges == <>[](command = "daemon" /\ node # Genesis => Synchronised)

\* /health reports the tip of the database once every event has been reported,
\* also after a restart, a retried flush and a rollback.
HealthReportsTip ==
    report = NoBlock /\ reports = <<>> /\ retrying = NoBlock => health = Tip

\* What follows the answer of the node always continues a point of the cursor,
\* so that its height is known (the "could not find intersect height" restart
\* is never taken).
IntersectKnown ==
    pc \in {"request blocks", "blocks"} => Parent[headers[1]] \in Range(cursor)

\* The roll stage applies a block to an empty table only when it is a child of
\* the genesis block: apply_block_with_context does not test it, so it rests on
\* the order of the queue across restarts of the pull stage.
EmptyTableStartsAtGenesis ==
    TipHeight = 0 /\ retrying = NoBlock /\ queue # <<>> /\ Head(queue).kind = "forward"
        => Parent[Head(queue).block] = Genesis
=============================================================================
