------------------------------ MODULE OnsSync ------------------------------
(***************************************************************************)
(* The event mirror, src/ons_sync: a process that subscribes to the state  *)
(* deltas of the blocks a validator commits and copies every GS1 code and  *)
(* service type they set into a RethinkDB database.                        *)
(*                                                                         *)
(* An event names its predecessor, and the handler walks back: it asks for *)
(* the previous block until an event's predecessor is the block it stopped *)
(* at before (handler.go:254-260).  Every message is handled by a          *)
(* goroutine of its own, so walks overlap, and all of them share the       *)
(* globals g_current_latest_ons_event and g_latest_block_id and the one    *)
(* row of the table latest_updated_block_info, none of them locked.        *)
(*                                                                         *)
(* Blocks are numbered from 1 along one chain without forks, so a block's  *)
(* number is its id; a block changes at most one mirrored address.  The    *)
(* value a record holds is the block that set it.                          *)
(***************************************************************************)
EXTENDS Integers, Sequences, Bags

CONSTANTS Address,      \* addresses of GS1 codes and service types
          Change,       \* what a block may do to them
          MaxBlocks,    \* bound: length of the chain
          MaxJobs       \* bound: event goroutines alive at once

AnyChange == [type : {"SET", "DELETE"}, address : Address] \cup {[type |-> "NONE"]}

ASSUME ChangeAssumption    == Change \subseteq AnyChange
ASSUME MaxBlocksAssumption == MaxBlocks \in Nat
ASSUME MaxJobsAssumption   == MaxJobs \in Nat

VARIABLES chain,          \* external: the change of each committed block
          subscription,   \* external: the server sends new blocks
          requests,       \* websocket, client to server
          events,         \* websocket, server to client
          main,           \* where func main is
          running,        \* runSubscriber is in its select loop
          subscirbed,     \* ONSEventHandler.subscirbed
          connected,      \* ONSEventHandler.conn is alive
          current,        \* BlockNum of g_current_latest_ons_event
          latest,         \* g_latest_block_id
          jobs,           \* the goroutines of runReceiveEvents, by their state
          row,            \* database: the block of latest_updated_block_info
          mirror,         \* database: the block each record was taken from
          resumed,        \* history: the row when the process was started
          lost            \* history: blocks whose copying failed in this process

wire     == <<subscription, requests, events>>
handler  == <<running, subscirbed, connected>>
globals  == <<current, latest>>
database == <<row, mirror>>
history  == <<resumed, lost>>
vars     == <<chain, wire, main, handler, globals, jobs, database, history>>

-----------------------------------------------------------------------------
(* Blocks, events and goroutines.                                          *)

NullBlock == 0       \* "0000000000000000", the predecessor of the first block
Unknown   == -1      \* "", what an answer that carries no block decodes to
NoEvent   == -1      \* the BlockNum that stands for a nil event
NotStored == 0       \* no record of the address

Block   == 1 .. MaxBlocks
BlockId == {Unknown, NullBlock} \cup Block
Event   == {Unknown} \cup Block

BlockNum(event)        == IF event = Unknown THEN 0 ELSE event
PreviousBlockId(block) == IF block \in Block THEN block - 1 ELSE block

Sets(block, address) ==
    /\ block \in DOMAIN chain
    /\ chain[block].type = "SET"
    /\ chain[block].address = address

Stored(address) ==
    \E n \in DOMAIN chain :
        /\ Sets(n, address)
        /\ \A m \in DOMAIN chain :
               m > n => chain[m] # [type |-> "DELETE", address |-> address]

(* Where a goroutine is in UpdateOnsEvent; "assign" carries the id it has  *)
(* read from the row.                                                      *)
Job == [at : {"check", "set", "row", "compare", "ask", "refresh", "apply"},
        event : Event]
       \cup [at : {"assign"}, event : Event, read : BlockId]

Goroutine(place, event) == SetToBag({[at |-> place, event |-> event]})

Present(place, event) == BagIn([at |-> place, event |-> event], jobs)

(* The goroutine that handles event goes from one place to another.        *)
Moves(event, from, to) ==
    /\ Present(from, event)
    /\ jobs' = (jobs (-) Goroutine(from, event)) (+) Goroutine(to, event)

(* A message on a dead connection is lost; the error is only logged.       *)
Send(action, block_id) ==
    requests' = IF connected
                THEN Append(requests, [action |-> action, block_id |-> block_id])
                ELSE requests

-----------------------------------------------------------------------------
(* External: the validator and its REST API.                               *)

CommitBlock(change) ==
    /\ Len(chain) < MaxBlocks
    /\ change.type = "DELETE" => Stored(change.address)
    /\ chain' = Append(chain, change)
    /\ events' = IF subscription THEN Append(events, Len(chain')) ELSE events
    /\ UNCHANGED <<subscription, requests, main, handler, globals, jobs, database, history>>

(* A new subscriber gets the newest block first.                           *)
ServeSubscribe ==
    /\ subscription' = (Head(requests).action = "subscribe")
    /\ events' = IF subscription' /\ chain # <<>>
                 THEN Append(events, Len(chain))
                 ELSE events

ServeBlockDeltas ==
    LET asked == Head(requests).block_id
    IN  /\ events' = Append(events, IF asked \in DOMAIN chain THEN asked ELSE Unknown)
        /\ UNCHANGED subscription

ServeRequest ==
    /\ requests # <<>>
    /\ IF Head(requests).action = "get_block_deltas"
       THEN ServeBlockDeltas
       ELSE ServeSubscribe
    /\ requests' = Tail(requests)
    /\ UNCHANGED <<chain, main, handler, globals, jobs, database, history>>

-----------------------------------------------------------------------------
(* The process: func main, runSubscriber and the receiver.                 *)

(* A new process has connected, and is to stop its walk at block stop.     *)
StartAt(stop) ==
    /\ main = "down"
    /\ main' = "subscribing"
    /\ running' = TRUE
    /\ subscirbed' = FALSE
    /\ connected' = TRUE
    /\ current' = NoEvent
    /\ latest' = stop
    /\ resumed' = row
    /\ lost' = {}
    /\ UNCHANGED <<chain, wire, jobs, database>>

(* Variant of Start: the walk is to stop at the block the row names, not   *)
(* at the one before it.                                                   *)
StartAtRow == StartAt(row)

(* DBConnect, DBGetLatestUpdatedBlockInfo, NewONSEventHandler and Run.     *)
Start == StartAt(PreviousBlockId(row))

(* The row cannot be read; main goes on with the global as it is.          *)
StartUnread == StartAt(NullBlock)

(* main hands a request over an unbuffered channel to runSubscriber, which *)
(* writes it to the socket if it changes the subscription.                 *)
Subscribe(subscribing, from, to) ==
    /\ main = from
    /\ running
    /\ main' = to
    /\ subscirbed' = subscribing
    /\ IF subscirbed # subscribing
       THEN Send(IF subscribing THEN "subscribe" ELSE "unsubscribe", NullBlock)
       ELSE UNCHANGED requests
    /\ UNCHANGED <<chain, subscription, events, running, connected, globals, jobs, database, history>>

SubscribeFirst == Subscribe(TRUE, "subscribing", "waiting")

Interrupt ==
    /\ main = "waiting"
    /\ main' = "unsubscribing"
    /\ UNCHANGED <<chain, wire, handler, globals, jobs, database, history>>

Unsubscribe == Subscribe(FALSE, "unsubscribing", "terminating")

(* Variant of ExitSubscriber: Terminate is called before Subscribe(false). *)
ExitSubscriberEarly ==
    /\ main \in {"unsubscribing", "terminating"}
    /\ running
    /\ running' = FALSE
    /\ main' = IF main = "terminating" THEN "closing" ELSE main
    /\ UNCHANGED <<chain, wire, subscirbed, connected, globals, jobs, database, history>>

(* Terminate: runSubscriber takes exit_sub and returns.                    *)
ExitSubscriber ==
    /\ main = "terminating"
    /\ running
    /\ running' = FALSE
    /\ main' = "closing"
    /\ UNCHANGED <<chain, wire, subscirbed, connected, globals, jobs, database, history>>

(* The process ends: its memory, goroutines and connection are gone.       *)
End ==
    /\ main' = "down"
    /\ running' = FALSE
    /\ jobs' = EmptyBag
    /\ subscription' = FALSE
    /\ requests' = <<>>
    /\ events' = <<>>
    /\ subscirbed' = FALSE
    /\ connected' = FALSE
    /\ current' = NoEvent
    /\ latest' = NullBlock
    /\ UNCHANGED <<chain, database, history>>

(* The connection and the database are closed and main returns.            *)
Close == main = "closing" /\ End

Crash == main # "down" /\ End

(* The connection breaks: the server forgets the subscription, what is on  *)
(* its way is lost and runReceiveEvents returns.  Nobody connects again,   *)
(* and main goes on waiting.                                               *)
Disconnect ==
    /\ connected
    /\ connected' = FALSE
    /\ subscription' = FALSE
    /\ requests' = <<>>
    /\ events' = <<>>
    /\ UNCHANGED <<chain, main, running, subscirbed, globals, jobs, database, history>>

(* runReceiveEvents reads a message and starts a goroutine for it.         *)
ReceiveEvent ==
    /\ main # "down"
    /\ events # <<>>
    /\ BagCardinality(jobs) < MaxJobs
    /\ jobs' = jobs (+) Goroutine("check", Head(events))
    /\ events' = Tail(events)
    /\ UNCHANGED <<chain, subscription, requests, main, handler, globals, database, history>>

-----------------------------------------------------------------------------
(* UpdateOnsEvent, one access to what the goroutines share at a time.      *)

(* Variant of CheckNewer: any event is taken for the newest.               *)
CheckNothing(event) ==
    /\ Moves(event, "check", "set")
    /\ UNCHANGED <<chain, wire, main, handler, globals, database, history>>

(* getCurrentLatestONSEvent: is the event newer than the newest so far?    *)
CheckNewer(event) ==
    /\ Moves(event, "check", IF current < BlockNum(event) THEN "set" ELSE "compare")
    /\ UNCHANGED <<chain, wire, main, handler, globals, database, history>>

SetNewest(event) ==
    /\ Moves(event, "set", "row")
    /\ current' = BlockNum(event)
    /\ UNCHANGED <<chain, wire, main, handler, latest, database, history>>

(* DBUpdateLatestUpdatedBlockInfo                                          *)
UpdateRow(event) ==
    /\ Moves(event, "row", "compare")
    /\ row' = event
    /\ UNCHANGED <<chain, wire, main, handler, globals, mirror, history>>

(* The query fails; the error is only logged.                              *)
UpdateRowFails(event) ==
    /\ Moves(event, "row", "compare")
    /\ UNCHANGED <<chain, wire, main, handler, globals, database, history>>

Compare(event) ==
    /\ Moves(event, "compare", IF PreviousBlockId(event) # latest THEN "ask" ELSE "refresh")
    /\ UNCHANGED <<chain, wire, main, handler, globals, database, history>>

(* Variant of AskPrevious: asks for the event's own block again.           *)
AskSame(event) ==
    /\ running
    /\ Moves(event, "ask", "apply")
    /\ Send("get_block_deltas", event)
    /\ UNCHANGED <<chain, subscription, events, main, handler, globals, database, history>>

(* GetBlockDeltas: blocks until runSubscriber takes the id and sends it.   *)
AskPrevious(event) ==
    /\ running
    /\ Moves(event, "ask", "apply")
    /\ Send("get_block_deltas", PreviousBlockId(event))
    /\ UNCHANGED <<chain, subscription, events, main, handler, globals, database, history>>

(* DBGetLatestUpdatedBlockInfo: a query, then the global.                  *)
ReadRow(event) ==
    /\ Present("refresh", event)
    /\ jobs' = (jobs (-) Goroutine("refresh", event))
               (+) SetToBag({[at |-> "assign", event |-> event, read |-> PreviousBlockId(row)]})
    /\ UNCHANGED <<chain, wire, main, handler, globals, database, history>>

(* The query fails and the global stays as it is.                          *)
ReadRowFails(event) ==
    /\ Moves(event, "refresh", "apply")
    /\ UNCHANGED <<chain, wire, main, handler, globals, database, history>>

Refresh(event) ==
    \E id \in BlockId :
        LET job == [at |-> "assign", event |-> event, read |-> id]
        IN  /\ BagIn(job, jobs)
            /\ jobs' = (jobs (-) SetToBag({job})) (+) Goroutine("apply", event)
            /\ latest' = id
            /\ UNCHANGED <<chain, wire, main, handler, current, database, history>>

(* DBUpdateOrInsert under g_mutex: insert, skip older data, or update.     *)
DBUpdateOrInsert(address, block_num) ==
    mirror' = IF mirror[address] = NotStored \/ mirror[address] < block_num
              THEN [mirror EXCEPT ![address] = block_num]
              ELSE mirror

(* DBDeleteAddress filters both tables and deletes nothing.                *)
DBDeleteAddress(address) == UNCHANGED mirror

(* Variant of ApplyChange: the record is dated by the newest event, which  *)
(* is what getCurrentLatestONSEvent returns (handler.go:246).              *)
ApplyNewest(event) ==
    /\ Present("apply", event)
    /\ jobs' = jobs (-) Goroutine("apply", event)
    /\ IF event # Unknown /\ chain[event].type = "SET"
       THEN DBUpdateOrInsert(chain[event].address, current)
       ELSE UNCHANGED mirror
    /\ UNCHANGED <<chain, wire, main, handler, globals, row, history>>

ApplyChange(event) ==
    /\ Present("apply", event)
    /\ jobs' = jobs (-) Goroutine("apply", event)
    /\ IF event = Unknown
       THEN UNCHANGED mirror
       ELSE CASE chain[event].type = "SET"    -> DBUpdateOrInsert(chain[event].address, event)
              [] chain[event].type = "DELETE" -> DBDeleteAddress(chain[event].address)
              [] chain[event].type = "NONE"   -> UNCHANGED mirror
    /\ UNCHANGED <<chain, wire, main, handler, globals, row, history>>

(* A query on the record fails: DBUpdateOrInsert returns an error, which   *)
(* nobody looks at.                                                        *)
ApplyChangeFails(event) ==
    /\ event # Unknown
    /\ Present("apply", event)
    /\ jobs' = jobs (-) Goroutine("apply", event)
    /\ lost' = lost \cup {event}
    /\ UNCHANGED <<chain, wire, main, handler, globals, database, resumed>>

UpdateOnsEvent(event) ==
    \/ CheckNewer(event)
    \/ SetNewest(event)
    \/ UpdateRow(event)
    \/ Compare(event)
    \/ AskPrevious(event)
    \/ ReadRow(event)
    \/ Refresh(event)
    \/ ApplyChange(event)

-----------------------------------------------------------------------------

Init ==
    /\ chain = <<>>
    /\ subscription = FALSE
    /\ requests = <<>>
    /\ events = <<>>
    /\ main = "down"
    /\ running = FALSE
    /\ subscirbed = FALSE
    /\ connected = FALSE
    /\ current = NoEvent
    /\ latest = NullBlock
    /\ jobs = EmptyBag
    /\ row = NullBlock
    /\ mirror = [address \in Address |-> NotStored]
    /\ resumed = NullBlock
    /\ lost = {}

Work ==
    \/ SubscribeFirst
    \/ ReceiveEvent
    \/ \E event \in Event : UpdateOnsEvent(event)

Outside ==
    \/ \E change \in Change : CommitBlock(change)
    \/ ServeRequest

Shutdown == Interrupt \/ Unsubscribe \/ ExitSubscriber \/ Close

(* The process is interrupted, shut down and started again at will.        *)
ShutdownNext == Start \/ Work \/ Outside \/ Shutdown

(* It may also crash at any moment, lose its connection, and any query may *)
(* fail.                                                                   *)
QueryFails ==
    \/ StartUnread
    \/ \E event \in Event :
           \/ UpdateRowFails(event)
           \/ ReadRowFails(event)
           \/ ApplyChangeFails(event)

Next == ShutdownNext \/ Crash \/ Disconnect \/ QueryFails

(* One process that starts on an empty database and is never stopped.      *)
FirstStart == row = NullBlock /\ Start
FirstNext  == FirstStart \/ Work \/ Outside

(* Goroutines are scheduled, the server answers and messages in flight     *)
(* arrive; nobody has to commit a block.                                   *)
Fairness ==
    /\ WF_vars(FirstStart)
    /\ WF_vars(SubscribeFirst)
    /\ WF_vars(ReceiveEvent)
    /\ WF_vars(ServeRequest)
    /\ \A event \in Event : WF_vars(UpdateOnsEvent(event))

Spec         == Init /\ [][Next]_vars
ShutdownSpec == Init /\ [][ShutdownNext]_vars
FirstSpec    == Init /\ [][FirstNext]_vars /\ Fairness

-----------------------------------------------------------------------------
(* Properties.                                                             *)

TypeOK ==
    /\ chain \in Seq(Change) /\ Len(chain) <= MaxBlocks
    /\ subscription \in BOOLEAN
    /\ requests \in Seq([action : {"subscribe", "unsubscribe", "get_block_deltas"},
                         block_id : BlockId])
    /\ events \in Seq(Event)
    /\ main \in {"down", "subscribing", "waiting", "unsubscribing", "terminating", "closing"}
    /\ running \in BOOLEAN
    /\ subscirbed \in BOOLEAN
    /\ connected \in BOOLEAN
    /\ current \in {NoEvent, 0} \cup Block
    /\ latest \in BlockId
    /\ IsABag(jobs) /\ BagToSet(jobs) \subseteq Job
    /\ row \in {NullBlock} \cup Block
    /\ mirror \in [Address -> {NotStored} \cup Block]
    /\ resumed \in {NullBlock} \cup Block
    /\ lost \subseteq Block

(* Nothing is on its way and nobody is at work.                            *)
Idle ==
    /\ main = "waiting"
    /\ connected
    /\ requests = <<>>
    /\ events = <<>>
    /\ jobs = EmptyBag

Mirrored(block) == \A address \in Address : Sets(block, address) => mirror[address] >= block

(* When the handler stops asking there is "no more delta"                  *)
(* (handler.go:258): the mirror holds what every block set.                *)
NoMoreDelta == Idle => \A block \in DOMAIN chain : Mirrored(block)

(* Wherever earlier processes were stopped or lost their connection, once  *)
(* the present one is at rest the mirror holds what was set from the block *)
(* on at which it was started, that block included: its walk ends one      *)
(* block before it (sync.go:228), as the block itself may not have been    *)
(* copied.  Failing queries on the row lose nothing; a failing query on a  *)
(* record loses that block and no other (sync.go:256-289).                 *)
ResumedIsMirrored ==
    Idle => \A block \in DOMAIN chain : block >= resumed => Mirrored(block) \/ block \in lost

(* Every committed block reaches the mirror, overlapping walks and races   *)
(* on the globals notwithstanding (handler.go:241-315).                    *)
CatchesUp == \A block \in Block : block \in DOMAIN chain ~> Mirrored(block)

(* Whoever hands something to runSubscriber over an unbuffered channel     *)
(* finds it there to take it: main, which subscribes, unsubscribes and     *)
(* terminates, and every goroutine that asks for a block.  No order of     *)
(* interrupt, requests and shutdown leaves a sender that "hangs"           *)
(* (note.txt:9-10), except goroutines once main has ended the subscriber   *)
(* and is about to end the process (main.go:39-41).                        *)
SendersAreHeard ==
    (main \in {"subscribing", "unsubscribing", "terminating"}
       \/ \E event \in Event : Present("ask", event))
    => running \/ main = "closing"

(* Seen from outside the mirror only ever moves a record forward to a      *)
(* block of the chain that set it (handler.go:262-313).                    *)
ChainMirror      == INSTANCE ChainMirror
ImplementsMirror == ChainMirror!Spec
=============================================================================
