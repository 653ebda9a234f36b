--------------------------- MODULE OnsSync_proofs ---------------------------
(***************************************************************************)
(* What holds of the mirror for every length of the chain, any number of   *)
(* goroutines and every crash: see OnsSync.                                *)
(***************************************************************************)
EXTENDS OnsSync, Functions, SequenceTheorems, TLAPS

(* Where a goroutine is, and what main and goroutines send.                *)
Place == {"check", "set", "row", "compare", "ask", "refresh", "apply"}

Request == [action : {"subscribe", "unsubscribe", "get_block_deltas"}, block_id : BlockId]

(* Every event on the wire or in a goroutine is that of a committed block, *)
(* or the answer without a block.                                          *)
Committed(event) == event \in {Unknown} \cup DOMAIN chain

EventsAreCommitted ==
    /\ \A i \in DOMAIN events : Committed(events[i])
    /\ \A job \in DOMAIN jobs : Committed(job.event)

(* Once a goroutine is past its comparison there is a newest event; nobody *)
(* asks for a block before, so nobody gets the answer without a block      *)
(* before, and that answer is never taken for the newest event.            *)
NewestIsKnown ==
    /\ \A job \in DOMAIN jobs : job.at \notin {"check", "set"} => current # NoEvent
    /\ \A job \in DOMAIN jobs : job.event = Unknown => current # NoEvent
    /\ \A job \in DOMAIN jobs : job.at \in {"set", "row"} => job.event # Unknown
    /\ \A i \in DOMAIN events : events[i] = Unknown => current # NoEvent
    /\ \A i \in DOMAIN requests : requests[i].action = "get_block_deltas" => current # NoEvent

(* The subscriber is in its loop from start to the end of the shutdown.    *)
SubscriberRuns == main \notin {"down", "closing"} => running

(* A stopped process leaves nothing behind.                                *)
NothingIsLeft ==
    main = "down" => ~subscription /\ requests = <<>> /\ events = <<>> /\ DOMAIN jobs = {}

(* The inductive invariant.                                                *)
SyncInv == TypeOK /\ EventsAreCommitted /\ NewestIsKnown /\ SubscriberRuns /\ NothingIsLeft

-----------------------------------------------------------------------------
(* Bags, sequences and blocks.                                             *)

(* Adding one element.                                                     *)
LEMMA BagAddFacts ==
    ASSUME NEW B, IsABag(B), NEW y
    PROVE  /\ IsABag(B (+) SetToBag({y}))
           /\ DOMAIN (B (+) SetToBag({y})) = (DOMAIN B) \cup {y}
BY DEF IsABag, SetToBag, (+)

(* Removing one element.                                                   *)
LEMMA BagRemoveFacts ==
    ASSUME NEW B, IsABag(B), NEW y
    PROVE  /\ IsABag(B (-) SetToBag({y}))
           /\ DOMAIN (B (-) SetToBag({y})) \subseteq DOMAIN B
BY DEF IsABag, SetToBag, (-)

(* One goroutine goes on: all others stay where they were.                 *)
LEMMA ReplaceFacts ==
    ASSUME NEW B, IsABag(B), NEW x, NEW y
    PROVE  LET new == (B (-) SetToBag({x})) (+) SetToBag({y})
           IN  IsABag(new) /\ DOMAIN new \subseteq (DOMAIN B) \cup {y}
<1> DEFINE rest == B (-) SetToBag({x})
<1>1. IsABag(rest) /\ DOMAIN rest \subseteq DOMAIN B
    BY BagRemoveFacts
<1> HIDE DEF rest
<1>2. IsABag(rest (+) SetToBag({y})) /\ DOMAIN (rest (+) SetToBag({y})) = (DOMAIN rest) \cup {y}
    BY <1>1, BagAddFacts
<1> QED BY <1>1, <1>2 DEF rest

(* What Append adds is at the end.                                         *)
LEMMA AppendFacts ==
    ASSUME NEW S, NEW s \in Seq(S), NEW e \in S
    PROVE  /\ Append(s, e) \in Seq(S)
           /\ DOMAIN Append(s, e) = 1 .. (Len(s) + 1)
           /\ Len(Append(s, e)) = Len(s) + 1
           /\ DOMAIN s = 1 .. Len(s) /\ Len(s) \in Nat
           /\ \A i \in DOMAIN Append(s, e) :
                  \/ i \in DOMAIN s /\ Append(s, e)[i] = s[i]
                  \/ i = Len(s) + 1 /\ Append(s, e)[i] = e
BY AppendProperties, LenProperties

(* The tail has no elements of its own.                                    *)
LEMMA TailFacts ==
    ASSUME NEW S, NEW s \in Seq(S), s # <<>>
    PROVE  /\ Head(s) \in S /\ 1 \in DOMAIN s /\ Head(s) = s[1]
           /\ Tail(s) \in Seq(S)
           /\ \A i \in DOMAIN Tail(s) : i + 1 \in DOMAIN s /\ Tail(s)[i] = s[i + 1]
BY HeadTailProperties, LenProperties, EmptySeq

(* Committed blocks are blocks; a block's predecessor is an id.            *)
LEMMA BlockFacts ==
    /\ \A event \in Event : event \in Int /\ PreviousBlockId(event) \in BlockId
    /\ \A id \in {NullBlock} \cup Block : PreviousBlockId(id) \in BlockId
    /\ \A event \in Event : event # Unknown => event \in Block /\ BlockNum(event) = event
    /\ BlockNum(Unknown) = 0
    /\ TypeOK => DOMAIN chain \subseteq Block
<1>1. TypeOK => DOMAIN chain \subseteq Block
    BY MaxBlocksAssumption, LenProperties DEF TypeOK, Block
<1> QED BY <1>1, MaxBlocksAssumption DEF Event, Block, BlockId, PreviousBlockId, BlockNum, Unknown, NullBlock

-----------------------------------------------------------------------------
(* Each step keeps the invariant.                                          *)

(* What a step does to the goroutines, in terms the invariant is about.    *)
LEMMA MovesFacts ==
    ASSUME SyncInv, NEW event \in Event, NEW from \in Place, NEW to \in Place,
           Moves(event, from, to)
    PROVE  LET old == [at |-> from, event |-> event]
               new == [at |-> to, event |-> event]
           IN  /\ old \in DOMAIN jobs /\ DOMAIN jobs # {} /\ new \in Job
               /\ IsABag(jobs') /\ DOMAIN jobs' \subseteq (DOMAIN jobs) \cup {new}
               /\ Committed(event)
               /\ from \notin {"check", "set"} => current # NoEvent
               /\ event = Unknown => current # NoEvent
               /\ from \in {"set", "row"} => event # Unknown
<1> DEFINE old == [at |-> from, event |-> event]
           new == [at |-> to, event |-> event]
<1>1. old \in DOMAIN jobs /\ IsABag(jobs)
    BY DEF Moves, Present, BagIn, BagToSet, SyncInv, TypeOK
<1>2. new \in Job
    BY DEF Job, Place
<1>3. jobs' = (jobs (-) SetToBag({old})) (+) SetToBag({new})
    BY DEF Moves, Goroutine
<1>4. old.at = from /\ old.event = event
    OBVIOUS
<1> HIDE DEF old, new
<1>5. /\ Committed(event)
      /\ from \notin {"check", "set"} => current # NoEvent
      /\ event = Unknown => current # NoEvent
      /\ from \in {"set", "row"} => event # Unknown
    BY <1>1, <1>4 DEF SyncInv, EventsAreCommitted, NewestIsKnown
<1>6. IsABag(jobs') /\ DOMAIN jobs' \subseteq (DOMAIN jobs) \cup {new}
    BY <1>1, <1>3, ReplaceFacts
<1> QED BY <1>1, <1>2, <1>5, <1>6 DEF old, new

(* A step of a goroutine that touches nothing but jobs, current, row or    *)
(* requests keeps the invariant if the goroutine's new place is in order.  *)
LEMMA GoroutineKeeps ==
    ASSUME SyncInv, NEW new \in Job, DOMAIN jobs # {},
           IsABag(jobs'), DOMAIN jobs' \subseteq (DOMAIN jobs) \cup {new},
           UNCHANGED <<chain, subscription, requests, events, main, handler, mirror, history>>,
           current' \in {NoEvent, 0} \cup Block, latest' \in BlockId, row' \in {NullBlock} \cup Block,
           current # NoEvent => current' # NoEvent,
           Committed(new.event),
           new.at \notin {"check", "set"} => current' # NoEvent,
           new.event = Unknown => current' # NoEvent,
           new.at \in {"set", "row"} => new.event # Unknown
    PROVE  SyncInv'
<1>1. TypeOK'
    BY DEF SyncInv, TypeOK, handler, history, BagToSet, Block, BlockId, Event
<1>2. EventsAreCommitted'
    BY DEF SyncInv, EventsAreCommitted, Committed
<1>3. NewestIsKnown'
    BY DEF SyncInv, NewestIsKnown
<1>4. SubscriberRuns' /\ NothingIsLeft'
    BY DEF SyncInv, SubscriberRuns, NothingIsLeft, handler
<1> QED BY <1>1, <1>2, <1>3, <1>4 DEF SyncInv
(* getCurrentLatestONSEvent: an answer without a block is never newer.     *)
LEMMA CheckNewerKeeps ==
    ASSUME SyncInv, NEW event \in Event, CheckNewer(event)
    PROVE  SyncInv'
<1> DEFINE to == IF current < BlockNum(event) THEN "set" ELSE "compare"
           new == [at |-> to, event |-> event]
<1>1. to \in Place /\ "check" \in Place /\ Moves(event, "check", to)
    BY DEF CheckNewer, Place
<1>2. to \in {"set", "compare"}
    OBVIOUS
<1>3. current \in {NoEvent, 0} \cup Block
    BY DEF SyncInv, TypeOK
<1>4. event = Unknown => current # NoEvent /\ to # "set"
    <2>1. event = Unknown => current # NoEvent
        BY <1>1, MovesFacts
    <2> QED BY <2>1, <1>3, BlockFacts, MaxBlocksAssumption DEF NoEvent, Block
<1>5. to = "compare" => current # NoEvent
    BY <1>3, BlockFacts, MaxBlocksAssumption DEF NoEvent, Block, Event, Unknown
<1> HIDE DEF to
<1>6. /\ new \in Job /\ DOMAIN jobs # {} /\ IsABag(jobs') /\ DOMAIN jobs' \subseteq (DOMAIN jobs) \cup {new}
      /\ Committed(event)
    BY <1>1, MovesFacts
<1>7. new.at = to /\ new.event = event
    OBVIOUS
<1> HIDE DEF new
<1>8. /\ UNCHANGED <<chain, subscription, requests, events, main, handler, mirror, history>>
      /\ current' = current /\ latest' = latest /\ row' = row
    BY DEF CheckNewer, wire, globals, database
<1>9. current' \in {NoEvent, 0} \cup Block /\ latest' \in BlockId /\ row' \in {NullBlock} \cup Block
    BY <1>8 DEF SyncInv, TypeOK
<1> QED BY <1>2, <1>4, <1>5, <1>6, <1>7, <1>8, <1>9, GoroutineKeeps

(* The newest event is set to one that carries a block.                    *)
LEMMA SetNewestKeeps ==
    ASSUME SyncInv, NEW event \in Event, SetNewest(event)
    PROVE  SyncInv'
<1> DEFINE new == [at |-> "row", event |-> event]
<1>1. "set" \in Place /\ "row" \in Place /\ Moves(event, "set", "row")
    BY DEF SetNewest, Place
<1>2. /\ new \in Job /\ DOMAIN jobs # {} /\ IsABag(jobs') /\ DOMAIN jobs' \subseteq (DOMAIN jobs) \cup {new}
      /\ Committed(event) /\ event # Unknown
    BY <1>1, MovesFacts
<1>3. new.at = "row" /\ new.event = event
    OBVIOUS
<1> HIDE DEF new
<1>4. /\ UNCHANGED <<chain, subscription, requests, events, main, handler, mirror, history>>
      /\ current' = BlockNum(event) /\ latest' = latest /\ row' = row
    BY DEF SetNewest, wire, database
<1>5. current' \in Block /\ current' # NoEvent
    BY <1>2, <1>4, BlockFacts, MaxBlocksAssumption DEF NoEvent, Block
<1>6. latest' \in BlockId /\ row' \in {NullBlock} \cup Block
    BY <1>4 DEF SyncInv, TypeOK
<1> QED BY <1>2, <1>3, <1>4, <1>5, <1>6, GoroutineKeeps

(* The row always names a block.                                           *)
LEMMA UpdateRowKeeps ==
    ASSUME SyncInv, NEW event \in Event, UpdateRow(event)
    PROVE  SyncInv'
<1> DEFINE new == [at |-> "compare", event |-> event]
<1>1. "row" \in Place /\ "compare" \in Place /\ Moves(event, "row", "compare")
    BY DEF UpdateRow, Place
<1>2. /\ new \in Job /\ DOMAIN jobs # {} /\ IsABag(jobs') /\ DOMAIN jobs' \subseteq (DOMAIN jobs) \cup {new}
      /\ Committed(event) /\ event # Unknown /\ current # NoEvent
    BY <1>1, MovesFacts
<1>3. new.at = "compare" /\ new.event = event
    OBVIOUS
<1> HIDE DEF new
<1>4. /\ UNCHANGED <<chain, subscription, requests, events, main, handler, mirror, history>>
      /\ current' = current /\ latest' = latest /\ row' = event
    BY DEF UpdateRow, wire, globals
<1>5. current' \in {NoEvent, 0} \cup Block /\ latest' \in BlockId /\ row' \in {NullBlock} \cup Block
    BY <1>2, <1>4, BlockFacts DEF SyncInv, TypeOK
<1> QED BY <1>2, <1>3, <1>4, <1>5, GoroutineKeeps

(* The event's predecessor is compared with the block to stop at.          *)
LEMMA CompareKeeps ==
    ASSUME SyncInv, NEW event \in Event, Compare(event)
    PROVE  SyncInv'
<1> DEFINE to == IF PreviousBlockId(event) # latest THEN "ask" ELSE "refresh"
           new == [at |-> to, event |-> event]
<1>1. to \in Place /\ "compare" \in Place /\ Moves(event, "compare", to) /\ to \notin {"set", "row"}
    BY DEF Compare, Place
<1> HIDE DEF to
<1>2. /\ new \in Job /\ DOMAIN jobs # {} /\ IsABag(jobs') /\ DOMAIN jobs' \subseteq (DOMAIN jobs) \cup {new}
      /\ Committed(event) /\ current # NoEvent
    BY <1>1, MovesFacts
<1>3. new.at = to /\ new.event = event
    OBVIOUS
<1> HIDE DEF new
<1>4. /\ UNCHANGED <<chain, subscription, requests, events, main, handler, mirror, history>>
      /\ current' = current /\ latest' = latest /\ row' = row
    BY DEF Compare, wire, globals, database
<1>5. current' \in {NoEvent, 0} \cup Block /\ latest' \in BlockId /\ row' \in {NullBlock} \cup Block
    BY <1>4 DEF SyncInv, TypeOK
<1> QED BY <1>1, <1>2, <1>3, <1>4, <1>5, GoroutineKeeps
(* The row is read; the global is assigned later.                          *)
LEMMA ReadRowKeeps ==
    ASSUME SyncInv, NEW event \in Event, ReadRow(event)
    PROVE  SyncInv'
<1> DEFINE old == [at |-> "refresh", event |-> event]
           new == [at |-> "assign", event |-> event, read |-> PreviousBlockId(row)]
<1>1. old \in DOMAIN jobs /\ IsABag(jobs)
    BY DEF ReadRow, Present, BagIn, BagToSet, SyncInv, TypeOK
<1>2. jobs' = (jobs (-) SetToBag({old})) (+) SetToBag({new})
    BY DEF ReadRow, Goroutine
<1>3. PreviousBlockId(row) \in BlockId
    BY BlockFacts DEF SyncInv, TypeOK
<1>4. new \in Job
    BY <1>3 DEF Job
<1>5. old.at = "refresh" /\ old.event = event /\ new.at = "assign" /\ new.event = event
    OBVIOUS
<1> HIDE DEF old, new
<1>6. IsABag(jobs') /\ DOMAIN jobs' \subseteq (DOMAIN jobs) \cup {new}
    BY <1>1, <1>2, ReplaceFacts
<1>7. Committed(event) /\ current # NoEvent /\ DOMAIN jobs # {}
    BY <1>1, <1>5 DEF SyncInv, EventsAreCommitted, NewestIsKnown
<1>8. /\ UNCHANGED <<chain, subscription, requests, events, main, handler, mirror, history>>
      /\ current' = current /\ latest' = latest /\ row' = row
    BY DEF ReadRow, wire, globals, database
<1>9. current' \in {NoEvent, 0} \cup Block /\ latest' \in BlockId /\ row' \in {NullBlock} \cup Block
    BY <1>8 DEF SyncInv, TypeOK
<1> QED BY <1>4, <1>5, <1>6, <1>7, <1>8, <1>9, GoroutineKeeps

(* The global is assigned what was read.                                   *)
LEMMA RefreshKeeps ==
    ASSUME SyncInv, NEW event \in Event, Refresh(event)
    PROVE  SyncInv'
<1> DEFINE new == [at |-> "apply", event |-> event]
           old(id) == [at |-> "assign", event |-> event, read |-> id]
<1>1. PICK id \in BlockId :
          /\ old(id) \in DOMAIN jobs
          /\ jobs' = (jobs (-) SetToBag({old(id)})) (+) SetToBag({new})
          /\ latest' = id
          /\ UNCHANGED <<chain, wire, main, handler, current, database, history>>
    BY DEF Refresh, BagIn, BagToSet, Goroutine
<1>2. new \in Job
    BY DEF Job
<1>3. old(id).at = "assign" /\ old(id).event = event /\ new.at = "apply" /\ new.event = event
    OBVIOUS
<1> HIDE DEF old, new
<1>4. IsABag(jobs)
    BY DEF SyncInv, TypeOK
<1>5. IsABag(jobs') /\ DOMAIN jobs' \subseteq (DOMAIN jobs) \cup {new}
    BY <1>1, <1>4, ReplaceFacts
<1>6. Committed(event) /\ current # NoEvent /\ DOMAIN jobs # {}
    BY <1>1, <1>3 DEF SyncInv, EventsAreCommitted, NewestIsKnown
<1>7. /\ UNCHANGED <<chain, subscription, requests, events, main, handler, mirror, history>>
      /\ current' = current /\ row' = row
    BY <1>1 DEF wire, database
<1>8. current' \in {NoEvent, 0} \cup Block /\ latest' \in BlockId /\ row' \in {NullBlock} \cup Block
    BY <1>1, <1>7 DEF SyncInv, TypeOK
<1> QED BY <1>2, <1>3, <1>5, <1>6, <1>7, <1>8, GoroutineKeeps

(* What is sent is a request.                                              *)
LEMMA SendFacts ==
    ASSUME SyncInv, NEW action \in {"subscribe", "unsubscribe", "get_block_deltas"}, NEW id \in BlockId,
           Send(action, id)
    PROVE  /\ requests' \in Seq(Request)
           /\ \A i \in DOMAIN requests' :
                  requests'[i].action = "get_block_deltas" =>
                      current # NoEvent \/ action = "get_block_deltas"
<1> DEFINE request == [action |-> action, block_id |-> id]
<1>1. request \in Request /\ request.action = action
    BY DEF Request
<1> HIDE DEF request
<1>2. requests' \in {requests, Append(requests, request)} /\ requests \in Seq(Request)
    BY DEF Send, SyncInv, TypeOK, Request, request
<1>3. /\ requests' \in Seq(Request)
      /\ \A i \in DOMAIN requests' :
             (i \in DOMAIN requests /\ requests'[i] = requests[i]) \/ requests'[i] = request
    BY <1>1, <1>2, AppendFacts
<1> QED BY <1>1, <1>3 DEF SyncInv, NewestIsKnown

(* The previous block is asked for, and the goroutine goes on at once.     *)
LEMMA AskPreviousKeeps ==
    ASSUME SyncInv, NEW event \in Event, AskPrevious(event)
    PROVE  SyncInv'
<1> DEFINE new == [at |-> "apply", event |-> event]
<1>1. "ask" \in Place /\ "apply" \in Place /\ Moves(event, "ask", "apply")
    BY DEF AskPrevious, Place
<1>2. /\ new \in Job /\ DOMAIN jobs # {} /\ IsABag(jobs') /\ DOMAIN jobs' \subseteq (DOMAIN jobs) \cup {new}
      /\ Committed(event) /\ current # NoEvent
    BY <1>1, MovesFacts
<1>3. new.at = "apply" /\ new.event = event
    OBVIOUS
<1> HIDE DEF new
<1>4. requests' \in Seq(Request)
    BY BlockFacts, SendFacts DEF AskPrevious
<1>5. UNCHANGED <<chain, subscription, events, main, handler, globals, database, history>>
    BY DEF AskPrevious
<1>6. TypeOK'
    BY <1>2, <1>4, <1>5
       DEF SyncInv, TypeOK, handler, globals, database, history, BagToSet, Request, Block, BlockId, Event
<1>7. EventsAreCommitted'
    BY <1>2, <1>3, <1>5 DEF SyncInv, EventsAreCommitted, Committed
<1>8. NewestIsKnown'
    BY <1>2, <1>3, <1>5 DEF SyncInv, NewestIsKnown, globals
<1>9. SubscriberRuns' /\ NothingIsLeft'
    BY <1>2, <1>5 DEF SyncInv, SubscriberRuns, NothingIsLeft, handler
<1> QED BY <1>6, <1>7, <1>8, <1>9 DEF SyncInv

(* A record of the mirror is only ever replaced by a newer one.            *)
LEMMA ApplyFacts ==
    ASSUME SyncInv, NEW event \in Event, ApplyChange(event)
    PROVE  /\ mirror' \in [Address -> {NotStored} \cup Block]
           /\ \A address \in Address : mirror'[address] >= mirror[address]
<1>1. mirror \in [Address -> {NotStored} \cup Block]
    BY DEF SyncInv, TypeOK
<1>2. \A address \in Address : mirror[address] \in Nat
    BY <1>1, MaxBlocksAssumption DEF NotStored, Block
<1>3. CASE UNCHANGED mirror
    BY <1>1, <1>2, <1>3
<1>4. CASE event # Unknown
    <2>1. event \in Block /\ event \in Nat /\ event > 0
        BY <1>4, BlockFacts, MaxBlocksAssumption DEF Block
    <2>2. event \in DOMAIN chain
        <3>1. [at |-> "apply", event |-> event] \in DOMAIN jobs
            BY DEF ApplyChange, Present, BagIn, BagToSet
        <3> QED BY <1>4, <3>1 DEF SyncInv, EventsAreCommitted, Committed
    <2>3. chain[event] \in Change
        BY <2>2, LenProperties, ElementOfSeq DEF SyncInv, TypeOK
    <2>4. chain[event].type \in {"SET", "DELETE", "NONE"}
        BY <2>3, ChangeAssumption DEF AnyChange
    <2>5. UNCHANGED mirror \/ DBUpdateOrInsert(chain[event].address, event)
        BY <1>4, <2>4 DEF ApplyChange, DBDeleteAddress
    <2>6. ASSUME NEW key, DBUpdateOrInsert(key, event)
          PROVE  /\ mirror' \in [Address -> {NotStored} \cup Block]
                 /\ \A address \in Address : mirror'[address] >= mirror[address]
        <3>1. CASE ~(mirror[key] = NotStored \/ mirror[key] < event)
            BY <1>1, <1>2, <2>6, <3>1 DEF DBUpdateOrInsert
        <3>2. CASE mirror[key] = NotStored \/ mirror[key] < event
            <4>1. mirror' = [mirror EXCEPT ![key] = event]
                BY <2>6, <3>2 DEF DBUpdateOrInsert
            <4>2. mirror' \in [Address -> {NotStored} \cup Block]
                BY <1>1, <2>1, <4>1
            <4>3. ASSUME NEW address \in Address
                  PROVE  mirror'[address] >= mirror[address]
                <5>1. CASE address = key
                    <6>1. mirror'[address] = event
                        BY <1>1, <4>1, <5>1
                    <6> QED BY <1>2, <2>1, <3>2, <5>1, <6>1 DEF NotStored
                <5>2. CASE address # key
                    <6>1. mirror'[address] = mirror[address]
                        BY <1>1, <4>1, <5>2
                    <6> QED BY <1>2, <6>1
                <5> QED BY <5>1, <5>2
            <4> QED BY <4>2, <4>3
        <3> QED BY <3>1, <3>2
    <2> QED BY <1>3, <2>5, <2>6
<1> QED BY <1>3, <1>4 DEF ApplyChange
(* The change is copied and the goroutine is done.                         *)
LEMMA ApplyChangeKeeps ==
    ASSUME SyncInv, NEW event \in Event, ApplyChange(event)
    PROVE  SyncInv'
<1>1. /\ jobs' = jobs (-) Goroutine("apply", event)
      /\ UNCHANGED <<chain, wire, main, handler, globals, row, history>>
    BY DEF ApplyChange
<1>2. IsABag(jobs') /\ DOMAIN jobs' \subseteq DOMAIN jobs
    BY <1>1, BagRemoveFacts DEF Goroutine, SyncInv, TypeOK
<1>3. TypeOK'
    BY <1>1, <1>2, ApplyFacts
       DEF SyncInv, TypeOK, wire, handler, globals, history, BagToSet, Block, BlockId, Event
<1>4. EventsAreCommitted' /\ NewestIsKnown' /\ SubscriberRuns' /\ NothingIsLeft'
    BY <1>1, <1>2
       DEF SyncInv, EventsAreCommitted, NewestIsKnown, SubscriberRuns, NothingIsLeft, Committed,
           wire, handler, globals
<1> QED BY <1>3, <1>4 DEF SyncInv

(* The validator commits a block: what was committed stays committed.      *)
LEMMA CommitBlockKeeps ==
    ASSUME SyncInv, NEW change \in Change, CommitBlock(change)
    PROVE  SyncInv'
<1>1. /\ chain' = Append(chain, change) /\ chain \in Seq(Change)
      /\ Len(chain) < MaxBlocks
      /\ UNCHANGED <<subscription, requests, main, handler, globals, jobs, database, history>>
    BY DEF CommitBlock, SyncInv, TypeOK
<1>2. /\ chain' \in Seq(Change) /\ Len(chain') = Len(chain) + 1 /\ Len(chain) \in Nat
      /\ DOMAIN chain = 1 .. Len(chain) /\ DOMAIN chain' = 1 .. (Len(chain) + 1)
    BY <1>1, AppendFacts
<1>3. Len(chain') \in Block /\ Len(chain') <= MaxBlocks /\ Len(chain') \in DOMAIN chain'
      /\ DOMAIN chain \subseteq DOMAIN chain' /\ Len(chain') # Unknown
    BY <1>1, <1>2, MaxBlocksAssumption DEF Block, Unknown
<1>4. events \in Seq(Event) /\ Len(chain') \in Event
    BY <1>3 DEF SyncInv, TypeOK, Event
<1>5. /\ events' \in Seq(Event)
      /\ \A i \in DOMAIN events' : \/ i \in DOMAIN events /\ events'[i] = events[i]
                                   \/ events'[i] = Len(chain')
    BY <1>4, AppendFacts DEF CommitBlock
<1>6. TypeOK'
    BY <1>1, <1>2, <1>3, <1>5
       DEF SyncInv, TypeOK, handler, globals, database, history, BagToSet, Job, Block, BlockId, Event
<1>7. EventsAreCommitted'
    BY <1>1, <1>3, <1>5 DEF SyncInv, EventsAreCommitted, Committed
<1>8. NewestIsKnown' /\ SubscriberRuns'
    BY <1>1, <1>3, <1>5 DEF SyncInv, NewestIsKnown, SubscriberRuns, handler, globals
<1>9. NothingIsLeft'
    BY <1>1 DEF SyncInv, NothingIsLeft, CommitBlock
<1> QED BY <1>6, <1>7, <1>8, <1>9 DEF SyncInv

(* The server answers with a committed block or without one.               *)
LEMMA ServeRequestKeeps ==
    ASSUME SyncInv, ServeRequest
    PROVE  SyncInv'
<1>1. /\ requests # <<>> /\ requests' = Tail(requests) /\ requests \in Seq(Request)
      /\ UNCHANGED <<chain, main, handler, globals, jobs, database, history>>
    BY DEF ServeRequest, SyncInv, TypeOK, Request
<1>2. /\ Head(requests) = requests[1] /\ 1 \in DOMAIN requests
      /\ requests' \in Seq(Request)
      /\ \A i \in DOMAIN requests' : i + 1 \in DOMAIN requests /\ requests'[i] = requests[i + 1]
    BY <1>1, TailFacts
<1>3. subscription' \in BOOLEAN
    BY DEF ServeRequest, ServeSubscribe, ServeBlockDeltas, SyncInv, TypeOK
<1>4. events \in Seq(Event)
    BY DEF SyncInv, TypeOK
<1>5. DOMAIN chain \subseteq Block /\ Unknown \in Event
    BY BlockFacts DEF SyncInv, Event
<1>6. chain # <<>> => Len(chain) \in DOMAIN chain
    BY EmptySeq, LenProperties DEF SyncInv, TypeOK
<1>7. PICK answer \in {Unknown} \cup DOMAIN chain :
          /\ events' = events \/ events' = Append(events, answer)
          /\ answer = Unknown => events' = events \/ Head(requests).action = "get_block_deltas"
    <2>1. CASE Head(requests).action = "get_block_deltas"
        BY <2>1 DEF ServeRequest, ServeBlockDeltas
    <2>2. CASE Head(requests).action # "get_block_deltas"
        <3>1. events' = events \/ (chain # <<>> /\ events' = Append(events, Len(chain)))
            BY <2>2 DEF ServeRequest, ServeSubscribe
        <3>2. ASSUME chain # <<>>
              PROVE  Len(chain) # Unknown
            BY <1>5, <1>6, <3>2, MaxBlocksAssumption DEF Block, Unknown
        <3> QED BY <1>6, <3>1, <3>2
    <2> QED BY <2>1, <2>2
<1>8. answer \in Event
    BY <1>5 DEF Event
<1>9. /\ events' \in Seq(Event)
      /\ \A i \in DOMAIN events' : \/ i \in DOMAIN events /\ events'[i] = events[i]
                                   \/ events'[i] = answer /\ events' # events
    <2>1. CASE events' = events
        BY <1>4, <2>1
    <2>2. CASE events' # events /\ events' = Append(events, answer)
        BY <1>4, <1>8, <2>2, AppendFacts
    <2> QED BY <1>7, <2>1, <2>2
<1>10. answer = Unknown /\ events' # events => current # NoEvent
    BY <1>2, <1>7 DEF SyncInv, NewestIsKnown
<1>11. TypeOK'
    BY <1>1, <1>2, <1>3, <1>9
       DEF SyncInv, TypeOK, handler, globals, database, history, BagToSet, Job, Request, Block, BlockId, Event
<1>12. EventsAreCommitted'
    BY <1>1, <1>9 DEF SyncInv, EventsAreCommitted, Committed
<1>13. NewestIsKnown' /\ SubscriberRuns'
    BY <1>1, <1>2, <1>9, <1>10 DEF SyncInv, NewestIsKnown, SubscriberRuns, handler, globals
<1>14. NothingIsLeft'
    BY <1>1 DEF SyncInv, NothingIsLeft
<1> QED BY <1>11, <1>12, <1>13, <1>14 DEF SyncInv
(* The rest of the process: starting and stopping, and reading a message.  *)
LEMMA StartKeeps ==
    ASSUME SyncInv, Start \/ StartUnread
    PROVE  SyncInv'
<1>1. PreviousBlockId(row) \in BlockId /\ NullBlock \in BlockId
    BY BlockFacts DEF SyncInv, TypeOK, BlockId
<1>2. /\ main = "down" /\ main' = "subscribing" /\ running' = TRUE /\ subscirbed' = FALSE
      /\ connected' = TRUE /\ current' = NoEvent /\ latest' \in BlockId
      /\ resumed' = row /\ lost' = {}
      /\ UNCHANGED <<chain, subscription, requests, events, jobs, row, mirror>>
    BY <1>1 DEF Start, StartUnread, StartAt, wire, database
<1>3. requests = <<>> /\ events = <<>> /\ DOMAIN jobs = {}
    BY <1>2 DEF SyncInv, NothingIsLeft
<1>4. TypeOK'
    BY <1>2 DEF SyncInv, TypeOK, BagToSet, Job, Block, BlockId, Event
<1>5. DOMAIN requests = {} /\ DOMAIN events = {}
    BY <1>3
<1>6. EventsAreCommitted' /\ NewestIsKnown' /\ SubscriberRuns' /\ NothingIsLeft'
    BY <1>2, <1>3, <1>5 DEF EventsAreCommitted, NewestIsKnown, SubscriberRuns, NothingIsLeft
<1> QED BY <1>4, <1>6 DEF SyncInv

(* main subscribes and unsubscribes.                                       *)
LEMMA SubscribeKeeps ==
    ASSUME SyncInv, SubscribeFirst \/ Unsubscribe
    PROVE  SyncInv'
<1>1. PICK subscribing \in BOOLEAN, to \in {"waiting", "terminating"} :
          /\ running /\ main # "down" /\ main' = to /\ subscirbed' = subscribing
          /\ \/ Send("subscribe", NullBlock) \/ Send("unsubscribe", NullBlock)
             \/ UNCHANGED requests
          /\ UNCHANGED <<chain, subscription, events, running, connected, globals, jobs, database, history>>
    BY DEF SubscribeFirst, Unsubscribe, Subscribe
<1>2. NullBlock \in BlockId
    BY DEF BlockId
<1>3. /\ requests' \in Seq(Request)
      /\ \A i \in DOMAIN requests' : requests'[i].action = "get_block_deltas" => current # NoEvent
    <2>1. CASE UNCHANGED requests
        BY <2>1 DEF SyncInv, TypeOK, NewestIsKnown, Request
    <2>2. CASE Send("subscribe", NullBlock) \/ Send("unsubscribe", NullBlock)
        BY <1>2, <2>2, SendFacts
    <2> QED BY <1>1, <2>1, <2>2
<1>4. TypeOK'
    BY <1>1, <1>3 DEF SyncInv, TypeOK, globals, database, history, BagToSet, Job, Request, Block, BlockId, Event
<1>5. EventsAreCommitted' /\ NewestIsKnown' /\ SubscriberRuns' /\ NothingIsLeft'
    BY <1>1, <1>3
       DEF SyncInv, EventsAreCommitted, NewestIsKnown, SubscriberRuns, NothingIsLeft, Committed, globals
<1> QED BY <1>4, <1>5 DEF SyncInv

(* main is interrupted, and ends the subscriber.                           *)
LEMMA StoppingKeeps ==
    ASSUME SyncInv, Interrupt \/ ExitSubscriber
    PROVE  SyncInv'
<1>1. /\ main # "down" /\ main' \in {"unsubscribing", "closing"} /\ running' \in BOOLEAN
      /\ main' = "unsubscribing" => running
      /\ main' = "unsubscribing" => running'
      /\ UNCHANGED <<chain, wire, subscirbed, connected, globals, jobs, database, history>>
    BY DEF Interrupt, ExitSubscriber, SyncInv, TypeOK, SubscriberRuns, handler
<1>2. TypeOK'
    BY <1>1 DEF SyncInv, TypeOK, wire, globals, database, history, BagToSet, Job, Request, Block, BlockId, Event
<1>3. EventsAreCommitted' /\ NewestIsKnown' /\ SubscriberRuns' /\ NothingIsLeft'
    BY <1>1
       DEF SyncInv, EventsAreCommitted, NewestIsKnown, SubscriberRuns, NothingIsLeft, Committed, wire, globals
<1> QED BY <1>2, <1>3 DEF SyncInv

(* The process ends, one way or the other.                                 *)
LEMMA EndKeeps ==
    ASSUME SyncInv, End
    PROVE  SyncInv'
<1>1. DOMAIN jobs' = {} /\ IsABag(jobs')
    BY DEF End, EmptyBag, SetToBag, IsABag
<1>2. /\ main' = "down" /\ subscription' = FALSE /\ requests' = <<>> /\ events' = <<>>
      /\ running' = FALSE /\ subscirbed' = FALSE /\ connected' = FALSE
      /\ current' = NoEvent /\ latest' = NullBlock
      /\ UNCHANGED <<chain, row, mirror, resumed, lost>>
    BY DEF End, database, history
<1>3. requests' \in Seq(Request) /\ events' \in Seq(Event)
    BY <1>2, EmptySeq
<1>4. DOMAIN requests' = {} /\ DOMAIN events' = {}
    BY <1>2
<1>5. TypeOK'
    BY <1>1, <1>2, <1>3 DEF SyncInv, TypeOK, BagToSet, Job, Request, Block, BlockId, Event
<1>6. EventsAreCommitted' /\ NewestIsKnown' /\ SubscriberRuns' /\ NothingIsLeft'
    BY <1>1, <1>2, <1>4 DEF EventsAreCommitted, NewestIsKnown, SubscriberRuns, NothingIsLeft
<1> QED BY <1>5, <1>6 DEF SyncInv

(* A broken connection takes along what was on the wire.                   *)
LEMMA DisconnectKeeps ==
    ASSUME SyncInv, Disconnect
    PROVE  SyncInv'
<1>1. /\ connected' = FALSE /\ subscription' = FALSE /\ requests' = <<>> /\ events' = <<>>
      /\ UNCHANGED <<chain, main, running, subscirbed, globals, jobs, database, history>>
    BY DEF Disconnect
<1>2. requests' \in Seq(Request) /\ events' \in Seq(Event)
    BY <1>1, EmptySeq
<1>3. DOMAIN requests' = {} /\ DOMAIN events' = {}
    BY <1>1
<1>4. TypeOK'
    BY <1>1, <1>2 DEF SyncInv, TypeOK, globals, database, history, BagToSet, Job, Request, Block, BlockId, Event
<1>5. EventsAreCommitted' /\ NewestIsKnown' /\ SubscriberRuns' /\ NothingIsLeft'
    BY <1>1, <1>3
       DEF SyncInv, EventsAreCommitted, NewestIsKnown, SubscriberRuns, NothingIsLeft, Committed, globals
<1> QED BY <1>4, <1>5 DEF SyncInv

(* The row keeps its block.                                                *)
LEMMA UpdateRowFailsKeeps ==
    ASSUME SyncInv, NEW event \in Event, UpdateRowFails(event)
    PROVE  SyncInv'
<1> DEFINE new == [at |-> "compare", event |-> event]
<1>1. "row" \in Place /\ "compare" \in Place /\ Moves(event, "row", "compare")
    BY DEF UpdateRowFails, Place
<1>2. /\ new \in Job /\ DOMAIN jobs # {} /\ IsABag(jobs') /\ DOMAIN jobs' \subseteq (DOMAIN jobs) \cup {new}
      /\ Committed(event) /\ event # Unknown /\ current # NoEvent
    BY <1>1, MovesFacts
<1>3. new.at = "compare" /\ new.event = event
    OBVIOUS
<1> HIDE DEF new
<1>4. /\ UNCHANGED <<chain, subscription, requests, events, main, handler, mirror, history>>
      /\ current' = current /\ latest' = latest /\ row' = row
    BY DEF UpdateRowFails, wire, globals, database
<1>5. current' \in {NoEvent, 0} \cup Block /\ latest' \in BlockId /\ row' \in {NullBlock} \cup Block
    BY <1>4 DEF SyncInv, TypeOK
<1> QED BY <1>2, <1>3, <1>4, <1>5, GoroutineKeeps

(* The goroutine goes on with the stopping point it has.                   *)
LEMMA ReadRowFailsKeeps ==
    ASSUME SyncInv, NEW event \in Event, ReadRowFails(event)
    PROVE  SyncInv'
<1> DEFINE new == [at |-> "apply", event |-> event]
<1>1. "refresh" \in Place /\ "apply" \in Place /\ Moves(event, "refresh", "apply")
    BY DEF ReadRowFails, Place
<1>2. /\ new \in Job /\ DOMAIN jobs # {} /\ IsABag(jobs') /\ DOMAIN jobs' \subseteq (DOMAIN jobs) \cup {new}
      /\ Committed(event) /\ current # NoEvent
    BY <1>1, MovesFacts
<1>3. new.at = "apply" /\ new.event = event
    OBVIOUS
<1> HIDE DEF new
<1>4. /\ UNCHANGED <<chain, subscription, requests, events, main, handler, mirror, history>>
      /\ current' = current /\ latest' = latest /\ row' = row
    BY DEF ReadRowFails, wire, globals, database
<1>5. current' \in {NoEvent, 0} \cup Block /\ latest' \in BlockId /\ row' \in {NullBlock} \cup Block
    BY <1>4 DEF SyncInv, TypeOK
<1> QED BY <1>2, <1>3, <1>4, <1>5, GoroutineKeeps

(* The change is lost and the goroutine is done.                           *)
LEMMA ApplyChangeFailsKeeps ==
    ASSUME SyncInv, NEW event \in Event, ApplyChangeFails(event)
    PROVE  SyncInv'
<1>1. /\ jobs' = jobs (-) Goroutine("apply", event)
      /\ lost' = lost \cup {event} /\ event \in Block
      /\ UNCHANGED <<chain, wire, main, handler, globals, database, resumed>>
    BY BlockFacts DEF ApplyChangeFails
<1>2. IsABag(jobs') /\ DOMAIN jobs' \subseteq DOMAIN jobs
    BY <1>1, BagRemoveFacts DEF Goroutine, SyncInv, TypeOK
<1>3. TypeOK'
    BY <1>1, <1>2 DEF SyncInv, TypeOK, wire, handler, globals, database, BagToSet, Block, BlockId, Event
<1>4. EventsAreCommitted' /\ NewestIsKnown' /\ SubscriberRuns' /\ NothingIsLeft'
    BY <1>1, <1>2
       DEF SyncInv, EventsAreCommitted, NewestIsKnown, SubscriberRuns, NothingIsLeft, Committed,
           wire, handler, globals
<1> QED BY <1>3, <1>4 DEF SyncInv

(* A goroutine is started for a message.                                   *)
LEMMA ReceiveEventKeeps ==
    ASSUME SyncInv, ReceiveEvent
    PROVE  SyncInv'
<1> DEFINE new == [at |-> "check", event |-> Head(events)]
<1>1. /\ main # "down" /\ events # <<>> /\ events' = Tail(events) /\ events \in Seq(Event)
      /\ UNCHANGED <<chain, subscription, requests, main, handler, globals, database, history>>
    BY DEF ReceiveEvent, SyncInv, TypeOK
<1>2. /\ Head(events) \in Event /\ 1 \in DOMAIN events /\ Head(events) = events[1]
      /\ events' \in Seq(Event)
      /\ \A i \in DOMAIN events' : i + 1 \in DOMAIN events /\ events'[i] = events[i + 1]
    BY <1>1, TailFacts
<1>3. new \in Job
    BY <1>2 DEF Job
<1>4. new.at = "check" /\ new.event = Head(events)
    OBVIOUS
<1>5. jobs' = jobs (+) SetToBag({new})
    BY DEF ReceiveEvent, Goroutine
<1> HIDE DEF new
<1>6. IsABag(jobs') /\ DOMAIN jobs' = (DOMAIN jobs) \cup {new}
    BY <1>5, BagAddFacts DEF SyncInv, TypeOK
<1>7. Committed(new.event) /\ (new.event = Unknown => current # NoEvent)
    BY <1>2, <1>4 DEF SyncInv, EventsAreCommitted, NewestIsKnown
<1>8. TypeOK'
    BY <1>1, <1>2, <1>3, <1>6
       DEF SyncInv, TypeOK, handler, globals, database, history, BagToSet, Request, Block, BlockId, Event
<1>9. EventsAreCommitted'
    BY <1>1, <1>2, <1>6, <1>7 DEF SyncInv, EventsAreCommitted, Committed
<1>10. NewestIsKnown' /\ SubscriberRuns' /\ NothingIsLeft'
    BY <1>1, <1>2, <1>4, <1>6, <1>7
       DEF SyncInv, NewestIsKnown, SubscriberRuns, NothingIsLeft, handler, globals
<1> QED BY <1>8, <1>9, <1>10 DEF SyncInv

-----------------------------------------------------------------------------
(* The theorems.                                                           *)

(* In the beginning there is nothing at all.                               *)
LEMMA SyncInitially == Init => SyncInv
<1> SUFFICES ASSUME Init PROVE SyncInv
    OBVIOUS
<1>1. DOMAIN jobs = {} /\ IsABag(jobs)
    BY DEF Init, EmptyBag, SetToBag, IsABag
<1>2. /\ chain \in Seq(Change) /\ Len(chain) = 0
      /\ requests \in Seq(Request) /\ events \in Seq(Event)
      /\ DOMAIN requests = {} /\ DOMAIN events = {}
    BY EmptySeq DEF Init
<1>3. TypeOK
    <2>1. chain \in Seq(Change) /\ Len(chain) <= MaxBlocks
        BY <1>2, MaxBlocksAssumption
    <2>2. /\ requests \in Seq([action : {"subscribe", "unsubscribe", "get_block_deltas"}, block_id : BlockId])
          /\ events \in Seq(Event)
        BY <1>2 DEF Request
    <2>3. IsABag(jobs) /\ BagToSet(jobs) \subseteq Job
        BY <1>1 DEF BagToSet
    <2>4. /\ subscription \in BOOLEAN /\ running \in BOOLEAN /\ subscirbed \in BOOLEAN
          /\ main \in {"down", "subscribing", "waiting", "unsubscribing", "terminating", "closing"}
          /\ connected \in BOOLEAN /\ lost \subseteq Block
        BY DEF Init
    <2>5. /\ current \in {NoEvent, 0} \cup Block /\ latest \in BlockId
          /\ row \in {NullBlock} \cup Block /\ resumed \in {NullBlock} \cup Block
          /\ mirror \in [Address -> {NotStored} \cup Block]
        BY DEF Init, BlockId
    <2> QED BY <2>1, <2>2, <2>3, <2>4, <2>5 DEF TypeOK
<1>4. EventsAreCommitted /\ NewestIsKnown /\ SubscriberRuns /\ NothingIsLeft
    BY <1>1, <1>2 DEF Init, EventsAreCommitted, NewestIsKnown, SubscriberRuns, NothingIsLeft
<1> QED BY <1>3, <1>4 DEF SyncInv

(* Every step keeps the invariant.                                         *)
LEMMA SyncNextKeeps == SyncInv /\ [Next]_vars => SyncInv'
<1> SUFFICES ASSUME SyncInv, [Next]_vars PROVE SyncInv'
    OBVIOUS
<1>1. ASSUME NEW event \in Event, UpdateOnsEvent(event)
      PROVE  SyncInv'
    BY <1>1, CheckNewerKeeps, SetNewestKeeps, UpdateRowKeeps, CompareKeeps, AskPreviousKeeps,
       ReadRowKeeps, RefreshKeeps, ApplyChangeKeeps DEF UpdateOnsEvent
<1>2. CASE Start
    BY <1>2, StartKeeps
<1>3. CASE Work
    BY <1>1, <1>3, SubscribeKeeps, ReceiveEventKeeps DEF Work
<1>4. CASE Outside
    BY <1>4, CommitBlockKeeps, ServeRequestKeeps DEF Outside
<1>5. CASE Shutdown \/ Crash
    BY <1>5, StoppingKeeps, SubscribeKeeps, EndKeeps DEF Shutdown, Close, Crash
<1>6. CASE Disconnect
    BY <1>6, DisconnectKeeps
<1>7. CASE QueryFails
    BY <1>7, StartKeeps, UpdateRowFailsKeeps, ReadRowFailsKeeps, ApplyChangeFailsKeeps DEF QueryFails
<1>8. CASE UNCHANGED vars
    BY <1>8 DEF vars, wire, handler, globals, database, history, SyncInv, TypeOK, EventsAreCommitted, NewestIsKnown,
                SubscriberRuns, NothingIsLeft, Committed, BagToSet, Job, Block, BlockId, Event
<1> QED BY <1>2, <1>3, <1>4, <1>5, <1>6, <1>7, <1>8 DEF Next, ShutdownNext

(* It holds always.                                                        *)
THEOREM SyncInvariance == Spec => []SyncInv
BY SyncInitially, SyncNextKeeps, PTL DEF Spec

(* Everything keeps its type; in particular the row always names a block,  *)
(* never the answer without one.                                           *)
THEOREM SyncTypeCorrect == Spec => []TypeOK
<1>1. SyncInv => TypeOK
    BY DEF SyncInv
<1> QED BY <1>1, SyncInvariance, PTL

(* Neither main nor a goroutine waits for a subscriber that is gone,       *)
(* except goroutines of a process that is about to end.                    *)
THEOREM SendersAreHeardHolds == Spec => []SendersAreHeard
<1>1. SyncInv => SendersAreHeard
    <2> SUFFICES ASSUME SyncInv, main = "down", NEW event \in Event PROVE ~Present("ask", event)
        BY DEF SyncInv, SubscriberRuns, SendersAreHeard
    <2> QED BY DEF SyncInv, NothingIsLeft, Present, BagIn, BagToSet, EmptyBag, SetToBag
<1> QED BY <1>1, SyncInvariance, PTL

(* What a goroutine applies is the change of a committed block, and a      *)
(* record moves to that block only from an earlier one.                    *)
LEMMA ApplyAdvances ==
    ASSUME SyncInv, NEW event \in Event, ApplyChange(event)
    PROVE  \/ UNCHANGED <<chain, mirror>>
           \/ \E address \in Address, block \in DOMAIN chain : ChainMirror!Advance(address, block)
<1>1. UNCHANGED chain
    BY DEF ApplyChange
<1>2. CASE event = Unknown
    BY <1>1, <1>2 DEF ApplyChange
<1>3. CASE event # Unknown
    <2>1. event \in DOMAIN chain /\ event \in Block /\ event > 0
        <3>1. [at |-> "apply", event |-> event] \in DOMAIN jobs
            BY DEF ApplyChange, Present, BagIn, BagToSet
        <3>2. event \in DOMAIN chain
            BY <1>3, <3>1 DEF SyncInv, EventsAreCommitted, Committed
        <3> QED BY <1>3, <3>2, BlockFacts, MaxBlocksAssumption DEF Block
    <2>2. chain[event] \in AnyChange
        BY <2>1, LenProperties, ElementOfSeq, ChangeAssumption DEF SyncInv, TypeOK
    <2>3. CASE chain[event].type = "SET"
        <3> DEFINE key == chain[event].address
        <3>1. key \in Address
            BY <2>2, <2>3 DEF AnyChange
        <3>2. DBUpdateOrInsert(key, event)
            BY <1>3, <2>3 DEF ApplyChange
        <3>3. CASE mirror[key] = NotStored \/ mirror[key] < event
            <4>1. mirror' = [mirror EXCEPT ![key] = event]
                BY <3>2, <3>3 DEF DBUpdateOrInsert
            <4>2. mirror[key] < event
                BY <2>1, <3>3 DEF NotStored
            <4>3. ChainMirror!Advance(key, event)
                BY <1>1, <2>3, <4>1, <4>2 DEF ChainMirror!Advance, ChainMirror!Setting
            <4> QED BY <2>1, <3>1, <4>3
        <3>4. CASE ~(mirror[key] = NotStored \/ mirror[key] < event)
            BY <1>1, <3>2, <3>4 DEF DBUpdateOrInsert
        <3> QED BY <3>3, <3>4
    <2>4. CASE chain[event].type # "SET"
        <3>1. chain[event].type \in {"DELETE", "NONE"}
            BY <2>2, <2>4 DEF AnyChange
        <3> QED BY <1>1, <1>3, <3>1 DEF ApplyChange, DBDeleteAddress
    <2> QED BY <2>3, <2>4
<1> QED BY <1>2, <1>3

(* Whatever is lost, late, repeated or interrupted, every step of the      *)
(* process, the server and the faults adds a block to the chain, moves one *)
(* record forward to a block that set it, or is invisible.                 *)
THEOREM ImplementsMirrorHolds == Spec => ImplementsMirror
<1>1. Init => ChainMirror!Init
    BY DEF Init, ChainMirror!Init, NotStored, ChainMirror!NotStored
<1>2. ASSUME SyncInv, NEW event \in Event, UpdateOnsEvent(event)
      PROVE  ChainMirror!Next \/ UNCHANGED <<chain, mirror>>
    <2>1. CASE ApplyChange(event)
        BY <1>2, <2>1, ApplyAdvances DEF ChainMirror!Next
    <2>2. CASE ~ApplyChange(event)
        BY <1>2, <2>2 DEF UpdateOnsEvent, CheckNewer, SetNewest, UpdateRow, Compare, AskPrevious, ReadRow,
                          Refresh, database
    <2> QED BY <2>1, <2>2
<1>3. ASSUME NEW change \in Change, CommitBlock(change)
      PROVE  ChainMirror!Next
    BY <1>3 DEF CommitBlock, ChainMirror!Next, ChainMirror!Grow, database
<1>4. \/ Start \/ SubscribeFirst \/ ReceiveEvent \/ ServeRequest \/ Shutdown \/ Crash \/ Disconnect \/ QueryFails
      => UNCHANGED <<chain, mirror>>
    BY DEF Disconnect, QueryFails, UpdateRowFails, ReadRowFails, ApplyChangeFails, Start, StartUnread, StartAt,
           SubscribeFirst, Unsubscribe, Subscribe, ReceiveEvent, ServeRequest, Shutdown, Interrupt,
           ExitSubscriber, Close, Crash, End, database
<1>5. SyncInv /\ [Next]_vars => [ChainMirror!Next]_<<chain, mirror>>
    BY <1>2, <1>3, <1>4 DEF Next, ShutdownNext, Work, Outside, vars, database
<1> QED BY <1>1, <1>5, SyncInvariance, PTL DEF Spec, ImplementsMirror, ChainMirror!Spec

-----------------------------------------------------------------------------
(* What a process resumes.                                                 *)

(* The process can still get to rest: it is connected and not interrupted. *)
Attached == connected /\ main \in {"subscribing", "waiting"}

(* The events that a goroutine handles or that are on their way to one.    *)
AtWork == {job.event : job \in DOMAIN jobs}
OnWire == Range(events)

(* A block is taken care of once its event has arrived: there is a         *)
(* goroutine for it or will be, unless its change was copied or lost.      *)
Taken(block)     == Mirrored(block) \/ block \in lost \cup AtWork \cup OnWire
TakenFrom(first) == \A block \in DOMAIN chain : block >= first => Taken(block)

(* The block to stop at is still the one the process was started with: it  *)
(* lies before the block to resume at.                                     *)
StopsInTime == latest \in 0 .. PreviousBlockId(resumed)

(* The server does not know of the process yet, and nobody is at work.     *)
Expecting ==
    /\ StopsInTime
    /\ ~subscription
    /\ events = <<>>
    /\ DOMAIN jobs = {}
    /\ \/ main = "subscribing" /\ ~subscirbed /\ requests = <<>>
       \/ main = "waiting" /\ requests = <<[action |-> "subscribe", block_id |-> NullBlock]>>

(* Where a goroutine has not asked for the previous block yet.             *)
BeforeAsking == {"check", "set", "row", "compare", "ask"}

(* While no walk has got below block w, no goroutine can take its own      *)
(* event for the end of a walk, and so nobody moves the block to stop at.  *)
NothingBelow(w) ==
    /\ \A job \in DOMAIN jobs : job.event >= w /\ job.at \notin {"refresh", "assign"}
    /\ \A event \in OnWire : event >= w
    /\ \A request \in Range(requests) :
           request.block_id \in DOMAIN chain /\ request.block_id + 1 >= w

(* Block w has not been dealt with, or the block before it is asked for.   *)
GoesOn(w) ==
    \/ w \in OnWire
    \/ \E job \in DOMAIN jobs : job.event = w /\ job.at \in BeforeAsking
    \/ \E request \in Range(requests) : request.block_id + 1 = w

(* The lowest of all walks is at block w, above the one to stop at, and    *)
(* left nothing behind.                                                    *)
Walking(w) ==
    /\ StopsInTime
    /\ latest + 2 <= w
    /\ TakenFrom(w)
    /\ NothingBelow(w)
    /\ GoesOn(w)

(* The server sends every new block, and the old ones have been taken care *)
(* of from the block to resume at on, or a walk is on the way to it.       *)
Served ==
    /\ main = "waiting"
    /\ subscription
    /\ \A request \in Range(requests) : request.action = "get_block_deltas"
    /\ TakenFrom(resumed) \/ \E w \in DOMAIN chain : Walking(w)

(* The row names a committed block: the process resumes at one.            *)
RowIsCommitted == {row, resumed} \subseteq {NullBlock} \cup DOMAIN chain

(* The inductive invariant of resuming.                                    *)
ResumeInv == RowIsCommitted /\ (Attached => Expecting \/ Served)

-----------------------------------------------------------------------------
(* What a step leaves in a bag, on the wire and in the mirror.             *)

(* Removing one element leaves all others.                                 *)
LEMMA BagOthersStay ==
    ASSUME NEW B, IsABag(B), NEW x
    PROVE  (DOMAIN B) \ {x} \subseteq DOMAIN (B (-) SetToBag({x}))
BY DEF IsABag, SetToBag, (-)

(* One goroutine goes on: all others are still there, and so is it.        *)
LEMMA ReplacedFacts ==
    ASSUME NEW B, IsABag(B), NEW x, NEW y
    PROVE  LET new == (B (-) SetToBag({x})) (+) SetToBag({y})
           IN  ((DOMAIN B) \ {x}) \cup {y} \subseteq DOMAIN new
<1> DEFINE rest == B (-) SetToBag({x})
<1>1. IsABag(rest) /\ (DOMAIN B) \ {x} \subseteq DOMAIN rest
    BY BagRemoveFacts, BagOthersStay
<1> HIDE DEF rest
<1>2. DOMAIN (rest (+) SetToBag({y})) = (DOMAIN rest) \cup {y}
    BY <1>1, BagAddFacts
<1> QED BY <1>1, <1>2 DEF rest

(* Append adds its element to the others.                                  *)
LEMMA AppendRange ==
    ASSUME NEW S, NEW s \in Seq(S), NEW e \in S
    PROVE  Range(Append(s, e)) = Range(s) \cup {e}
<1>1. /\ DOMAIN Append(s, e) = 1 .. (Len(s) + 1) /\ DOMAIN s = 1 .. Len(s) /\ Len(s) \in Nat
      /\ \A i \in DOMAIN Append(s, e) :
             \/ i \in DOMAIN s /\ Append(s, e)[i] = s[i]
             \/ i = Len(s) + 1 /\ Append(s, e)[i] = e
    BY AppendFacts
<1>2. Len(s) + 1 \in DOMAIN Append(s, e) /\ Append(s, e)[Len(s) + 1] = e
    BY <1>1
<1>3. \A i \in DOMAIN s : i \in DOMAIN Append(s, e) /\ Append(s, e)[i] = s[i]
    BY <1>1
<1> QED BY <1>1, <1>2, <1>3 DEF Range

(* Head and tail have all elements between them.                           *)
LEMMA TailRange ==
    ASSUME NEW S, NEW s \in Seq(S), s # <<>>
    PROVE  Range(s) = {Head(s)} \cup Range(Tail(s))
<1>1. /\ Head(s) = s[1] /\ 1 \in DOMAIN s
      /\ \A i \in DOMAIN Tail(s) : i + 1 \in DOMAIN s /\ Tail(s)[i] = s[i + 1]
    BY TailFacts
<1>2. DOMAIN s = 1 .. Len(s) /\ Len(s) \in Nat /\ Len(s) # 0 /\ DOMAIN Tail(s) = 1 .. (Len(s) - 1)
    BY HeadTailProperties, LenProperties, EmptySeq
<1>3. \A i \in DOMAIN s : i = 1 \/ (i - 1 \in DOMAIN Tail(s) /\ Tail(s)[i - 1] = s[i])
    BY <1>1, <1>2
<1> QED BY <1>1, <1>3 DEF Range

(* Nothing is in the empty sequence.                                       *)
LEMMA EmptyRange == Range(<<>>) = {}
BY DEF Range

(* What is taken care of remains so, if no record goes back and no event   *)
(* is forgotten before its change was copied or lost.                      *)
LEMMA TakenStays ==
    ASSUME SyncInv, SyncInv', NEW block \in DOMAIN chain, Taken(block),
           DOMAIN chain \subseteq DOMAIN chain', chain'[block] = chain[block],
           \A address \in Address : mirror'[address] >= mirror[address],
           lost \subseteq lost',
           AtWork \cup OnWire \subseteq AtWork' \cup OnWire' \cup lost' \cup {b \in Block : Mirrored(b)'}
    PROVE  Taken(block)'
<1>1. CASE block \in lost \cup AtWork \cup OnWire
    BY <1>1 DEF Taken
<1>2. CASE Mirrored(block)
    <2>1. ASSUME NEW address \in Address, Sets(block, address)'
          PROVE  mirror'[address] >= block
        <3>1. Sets(block, address)
            BY <2>1 DEF Sets
        <3>2. mirror[address] >= block
            BY <1>2, <3>1 DEF Mirrored
        <3>3. mirror[address] \in Nat /\ mirror'[address] \in Nat /\ block \in Nat
            BY BlockFacts, MaxBlocksAssumption DEF SyncInv, TypeOK, NotStored, Block
        <3> QED BY <3>2, <3>3
    <2> QED BY <2>1 DEF Taken, Mirrored
<1> QED BY <1>1, <1>2 DEF Taken

(* Whoever is told to stop in time stops before the block to resume at.    *)
LEMMA StopFacts ==
    ASSUME SyncInv, RowIsCommitted, StopsInTime
    PROVE  /\ latest \in Nat
           /\ \A block \in DOMAIN chain : block \in Nat /\ block >= 1
           /\ \A block \in DOMAIN chain : block >= resumed => block >= latest + 1
           /\ resumed # NullBlock => resumed >= latest + 1
<1>1. /\ DOMAIN chain \subseteq Block /\ resumed \in {NullBlock} \cup Block
      /\ \A block \in Block : block \in Nat /\ block >= 1
    BY BlockFacts, MaxBlocksAssumption DEF SyncInv, TypeOK, Block
<1>2. \A block \in Block : PreviousBlockId(block) = block - 1
    BY DEF PreviousBlockId
<1>3. PreviousBlockId(NullBlock) = 0
    BY DEF PreviousBlockId, NullBlock, Block
<1>4. CASE resumed = NullBlock
    BY <1>1, <1>3, <1>4 DEF StopsInTime, NullBlock
<1>5. CASE resumed \in Block
    BY <1>1, <1>2, <1>5 DEF StopsInTime
<1> QED BY <1>1, <1>4, <1>5

-----------------------------------------------------------------------------
(* Each step keeps what resuming rests on.                                 *)

(* A goroutine goes on with its event, and ends no walk that is not over.  *)
LEMMA GoroutineResumes ==
    ASSUME SyncInv, SyncInv', ResumeInv, NEW old \in DOMAIN jobs, NEW new, new.event = old.event,
           DOMAIN jobs' \subseteq (DOMAIN jobs) \cup {new},
           ((DOMAIN jobs) \ {old}) \cup {new} \subseteq DOMAIN jobs',
           UNCHANGED <<chain, subscription, requests, events, main, connected, mirror, resumed, lost>>,
           row' \in {NullBlock} \cup DOMAIN chain,
           \A w \in DOMAIN chain : Walking(w) => new.at \in BeforeAsking /\ latest' = latest
    PROVE  ResumeInv'
<1>1. RowIsCommitted'
    BY DEF ResumeInv, RowIsCommitted
<1>2. AtWork' = AtWork
    BY DEF AtWork
<1>3. OnWire' = OnWire /\ DOMAIN chain' = DOMAIN chain
    BY DEF OnWire
<1>4. \A address \in Address : mirror'[address] >= mirror[address]
    <2>1. \A address \in Address : mirror[address] \in Int
        BY MaxBlocksAssumption DEF SyncInv, TypeOK, NotStored, Block
    <2> QED BY <2>1
<1>5. \A block \in DOMAIN chain : Taken(block) => Taken(block)'
    BY <1>2, <1>3, <1>4, TakenStays
<1>6. ASSUME NEW w \in DOMAIN chain, Walking(w)
      PROVE  Walking(w)'
    <2>1. new.at \in BeforeAsking /\ latest' = latest
        BY <1>6
    <2>2. StopsInTime' /\ latest' + 2 <= w
        BY <1>6, <2>1 DEF Walking, StopsInTime
    <2>3. TakenFrom(w)'
        BY <1>3, <1>5, <1>6 DEF Walking, TakenFrom
    <2>4. old.event >= w
        BY <1>6 DEF Walking, NothingBelow
    <2>5. NothingBelow(w)'
        BY <1>3, <1>6, <2>1, <2>4 DEF Walking, NothingBelow, BeforeAsking
    <2>6. GoesOn(w)'
        BY <1>3, <1>6, <2>1 DEF Walking, GoesOn
    <2> QED BY <2>2, <2>3, <2>5, <2>6 DEF Walking
<1>7. ASSUME Attached'
      PROVE  Served'
    <2>1. Served
        BY <1>7 DEF ResumeInv, Attached, Expecting
    <2>2. TakenFrom(resumed) => TakenFrom(resumed)'
        BY <1>3, <1>5 DEF TakenFrom
    <2>3. \A request \in Range(requests') : request.action = "get_block_deltas"
        BY <2>1 DEF Served
    <2> QED BY <1>3, <1>6, <2>1, <2>2, <2>3 DEF Served
<1> QED BY <1>1, <1>7 DEF ResumeInv

(* The same in terms of the places a goroutine goes between.               *)
LEMMA MovesResume ==
    ASSUME SyncInv, SyncInv', ResumeInv, NEW event \in Event, NEW from \in Place, NEW to \in Place,
           Moves(event, from, to),
           UNCHANGED <<chain, subscription, requests, events, main, connected, mirror, resumed, lost, latest>>,
           row' \in {NullBlock} \cup DOMAIN chain,
           \A w \in DOMAIN chain : Walking(w) => to \in BeforeAsking
    PROVE  ResumeInv'
<1> DEFINE old == [at |-> from, event |-> event]
           new == [at |-> to, event |-> event]
<1>1. old \in DOMAIN jobs /\ IsABag(jobs) /\ DOMAIN jobs' \subseteq (DOMAIN jobs) \cup {new}
    BY MovesFacts DEF SyncInv, TypeOK
<1>2. jobs' = (jobs (-) SetToBag({old})) (+) SetToBag({new})
    BY DEF Moves, Goroutine
<1>3. new.event = old.event /\ new.at = to
    OBVIOUS
<1> HIDE DEF old, new
<1>4. ((DOMAIN jobs) \ {old}) \cup {new} \subseteq DOMAIN jobs'
    BY <1>1, <1>2, ReplacedFacts
<1> QED BY <1>1, <1>3, <1>4, GoroutineResumes

(* In a walk that is not over, a goroutine is above the block to stop at.  *)
LEMMA WalkersFacts ==
    ASSUME SyncInv, RowIsCommitted, NEW w \in DOMAIN chain, Walking(w), NEW job \in DOMAIN jobs
    PROVE  /\ job.at \notin {"refresh", "assign"}
           /\ job.event \in DOMAIN chain /\ job.event \in Nat /\ w \in Nat /\ w <= job.event
           /\ PreviousBlockId(job.event) = job.event - 1
           /\ PreviousBlockId(job.event) # latest
           /\ PreviousBlockId(job.event) \in DOMAIN chain
<1>1. /\ latest \in Nat /\ w \in Nat /\ latest + 2 <= w
      /\ \A block \in DOMAIN chain : block \in Nat
    BY StopFacts DEF Walking
<1>2. job.at \notin {"refresh", "assign"} /\ job.event >= w
    BY DEF Walking, NothingBelow
<1>3. job.event \in DOMAIN chain
    BY <1>1, <1>2 DEF SyncInv, EventsAreCommitted, Committed, Unknown
<1>4. PreviousBlockId(job.event) = job.event - 1
    BY <1>3, BlockFacts DEF SyncInv, PreviousBlockId
<1>5. PreviousBlockId(job.event) \in DOMAIN chain
    <2>1. DOMAIN chain = 1 .. Len(chain) /\ Len(chain) \in Nat
        BY LenProperties DEF SyncInv, TypeOK
    <2> QED BY <1>1, <1>2, <1>3, <1>4, <2>1
<1> QED BY <1>1, <1>2, <1>3, <1>4, <1>5

(* The steps of a goroutine from its first comparison to its last but one. *)
LEMMA UpdateResumes ==
    ASSUME SyncInv, SyncInv', ResumeInv, NEW event \in Event,
           \/ CheckNewer(event) \/ SetNewest(event) \/ UpdateRow(event) \/ UpdateRowFails(event)
    PROVE  ResumeInv'
<1>1. row \in {NullBlock} \cup DOMAIN chain
    BY DEF ResumeInv, RowIsCommitted
<1>2. PICK from \in Place, to \in BeforeAsking :
          /\ Moves(event, from, to)
          /\ UNCHANGED <<chain, subscription, requests, events, main, connected, mirror, resumed, lost, latest>>
          /\ row' = row \/ (row' = event /\ from = "row")
    <2> DEFINE Step(from, to) ==
                 /\ Moves(event, from, to)
                 /\ UNCHANGED <<chain, subscription, requests, events, main, connected, mirror, resumed, lost, latest>>
                 /\ row' = row \/ (row' = event /\ from = "row")
    <2>1. CASE CheckNewer(event)
        <3>1. Step("check", "set") \/ Step("check", "compare")
            BY <2>1 DEF CheckNewer, wire, handler, globals, database, history
        <3> QED BY <3>1 DEF Place, BeforeAsking
    <2>2. CASE SetNewest(event)
        <3>1. Step("set", "row")
            BY <2>2 DEF SetNewest, wire, handler, database, history
        <3> QED BY <3>1 DEF Place, BeforeAsking
    <2>3. CASE UpdateRow(event) \/ UpdateRowFails(event)
        <3>1. Step("row", "compare")
            BY <2>3 DEF UpdateRow, UpdateRowFails, wire, handler, globals, database, history
        <3> QED BY <3>1 DEF Place, BeforeAsking
    <2> QED BY <2>1, <2>2, <2>3
<1>3. to \in Place
    BY DEF Place, BeforeAsking
<1>4. row' \in {NullBlock} \cup DOMAIN chain
    <2>1. from = "row" => event \in DOMAIN chain
        BY <1>2, <1>3, MovesFacts DEF Committed
    <2> QED BY <1>1, <1>2, <2>1
<1> QED BY <1>2, <1>3, <1>4, MovesResume

(* A comparison ends no walk that is above the block to stop at.           *)
LEMMA CompareResumes ==
    ASSUME SyncInv, SyncInv', ResumeInv, NEW event \in Event, Compare(event)
    PROVE  ResumeInv'
<1> DEFINE to == IF PreviousBlockId(event) # latest THEN "ask" ELSE "refresh"
           old == [at |-> "compare", event |-> event]
<1>1. /\ Moves(event, "compare", to) /\ to \in Place /\ "compare" \in Place
      /\ UNCHANGED <<chain, subscription, requests, events, main, connected, mirror, resumed, lost, latest, row>>
    BY DEF Compare, Place, wire, handler, globals, database, history
<1>2. PreviousBlockId(event) # latest => to = "ask"
    OBVIOUS
<1> HIDE DEF to
<1>3. old \in DOMAIN jobs /\ old.event = event
    BY <1>1, MovesFacts
<1> HIDE DEF old
<1>4. \A w \in DOMAIN chain : Walking(w) => to \in BeforeAsking
    BY <1>2, <1>3, WalkersFacts DEF ResumeInv, BeforeAsking
<1>5. row' \in {NullBlock} \cup DOMAIN chain
    BY <1>1 DEF ResumeInv, RowIsCommitted
<1> QED BY <1>1, <1>4, <1>5, MovesResume

(* The block to stop at is moved only when no walk is on its way any more. *)
LEMMA RefreshResumes ==
    ASSUME SyncInv, SyncInv', ResumeInv, NEW event \in Event,
           ReadRow(event) \/ ReadRowFails(event) \/ Refresh(event)
    PROVE  ResumeInv'
<1>1. PICK old, new :
          /\ old \in DOMAIN jobs
          /\ old.at \in {"refresh", "assign"} /\ new.event = old.event
          /\ jobs' = (jobs (-) SetToBag({old})) (+) SetToBag({new})
          /\ UNCHANGED <<chain, subscription, requests, events, main, connected, mirror, resumed, lost, row>>
    <2> DEFINE refresh  == [at |-> "refresh", event |-> event]
               apply    == [at |-> "apply", event |-> event]
               read(id) == [at |-> "assign", event |-> event, read |-> id]
    <2>0. /\ refresh.at = "refresh" /\ refresh.event = event /\ apply.event = event
          /\ \A id : read(id).at = "assign" /\ read(id).event = event
        OBVIOUS
    <2>1. CASE ReadRow(event)
        <3>1. /\ refresh \in DOMAIN jobs
              /\ jobs' = (jobs (-) SetToBag({refresh})) (+) SetToBag({read(PreviousBlockId(row))})
              /\ UNCHANGED <<chain, subscription, requests, events, main, connected, mirror, resumed, lost, row>>
            BY <2>1 DEF ReadRow, Present, Goroutine, BagIn, BagToSet, wire, handler, globals, database, history
        <3> HIDE DEF refresh, apply, read
        <3> QED BY <2>0, <3>1
    <2>2. CASE ReadRowFails(event)
        <3>1. /\ refresh \in DOMAIN jobs
              /\ jobs' = (jobs (-) SetToBag({refresh})) (+) SetToBag({apply})
              /\ UNCHANGED <<chain, subscription, requests, events, main, connected, mirror, resumed, lost, row>>
            BY <2>2
               DEF ReadRowFails, Moves, Present, Goroutine, BagIn, BagToSet, wire, handler, globals, database, history
        <3> HIDE DEF refresh, apply, read
        <3> QED BY <2>0, <3>1
    <2>3. CASE Refresh(event)
        <3>1. PICK id \in BlockId :
                  /\ read(id) \in DOMAIN jobs
                  /\ jobs' = (jobs (-) SetToBag({read(id)})) (+) SetToBag({apply})
                  /\ UNCHANGED <<chain, subscription, requests, events, main, connected, mirror, resumed, lost, row>>
            BY <2>3 DEF Refresh, Goroutine, BagIn, BagToSet, wire, handler, database, history
        <3> HIDE DEF refresh, apply, read
        <3> QED BY <2>0, <3>1
    <2> QED BY <2>1, <2>2, <2>3
<1>2. IsABag(jobs)
    BY DEF SyncInv, TypeOK
<1>3. /\ DOMAIN jobs' \subseteq (DOMAIN jobs) \cup {new}
      /\ ((DOMAIN jobs) \ {old}) \cup {new} \subseteq DOMAIN jobs'
    BY <1>1, <1>2, ReplaceFacts, ReplacedFacts
<1>4. \A w \in DOMAIN chain : ~Walking(w)
    BY <1>1, WalkersFacts DEF ResumeInv
<1>5. row' \in {NullBlock} \cup DOMAIN chain
    BY <1>1 DEF ResumeInv, RowIsCommitted
<1> QED BY <1>1, <1>3, <1>4, <1>5, GoroutineResumes

(* What was recorded stays recorded where the mirror is left alone.        *)
LEMMA SameRecords ==
    ASSUME SyncInv, UNCHANGED mirror
    PROVE  \A address \in Address : mirror'[address] >= mirror[address]
<1>1. \A address \in Address : mirror[address] \in Int
    BY MaxBlocksAssumption DEF SyncInv, TypeOK, NotStored, Block
<1> QED BY <1>1

(* The previous block is asked for: a walk is one block further.           *)
LEMMA AskPreviousResumes ==
    ASSUME SyncInv, SyncInv', ResumeInv, NEW event \in Event, AskPrevious(event)
    PROVE  ResumeInv'
<1> DEFINE old == [at |-> "ask", event |-> event]
           new == [at |-> "apply", event |-> event]
           request == [action |-> "get_block_deltas", block_id |-> PreviousBlockId(event)]
<1>1. /\ Moves(event, "ask", "apply") /\ "ask" \in Place /\ "apply" \in Place
      /\ UNCHANGED <<chain, subscription, events, main, connected, mirror, resumed, lost, latest, row>>
    BY DEF AskPrevious, Place, handler, globals, database, history
<1>2. old \in DOMAIN jobs /\ IsABag(jobs) /\ DOMAIN jobs' \subseteq (DOMAIN jobs) \cup {new}
    BY <1>1, MovesFacts DEF SyncInv, TypeOK
<1>3. jobs' = (jobs (-) SetToBag({old})) (+) SetToBag({new})
    BY <1>1 DEF Moves, Goroutine
<1>4. /\ old.event = event /\ new.event = event /\ new.at = "apply"
      /\ request.action = "get_block_deltas" /\ request.block_id = PreviousBlockId(event)
    OBVIOUS
<1>5. connected => requests' = Append(requests, request)
    BY DEF AskPrevious, Send
<1>6. request \in Request
    BY BlockFacts DEF Request
<1> HIDE DEF old, new, request
<1>7. ((DOMAIN jobs) \ {old}) \cup {new} \subseteq DOMAIN jobs'
    BY <1>2, <1>3, ReplacedFacts
<1>8. connected => Range(requests') = Range(requests) \cup {request}
    <2>1. requests \in Seq(Request)
        BY DEF SyncInv, TypeOK, Request
    <2>2. Range(Append(requests, request)) = Range(requests) \cup {request}
        BY <1>6, <2>1, AppendRange
    <2> QED BY <1>5, <2>2
<1>9. RowIsCommitted'
    BY <1>1 DEF ResumeInv, RowIsCommitted
<1>10. AtWork' = AtWork
    BY <1>2, <1>4, <1>7 DEF AtWork
<1>11. OnWire' = OnWire /\ DOMAIN chain' = DOMAIN chain
    BY <1>1 DEF OnWire
<1>12. \A block \in DOMAIN chain : Taken(block) => Taken(block)'
    BY <1>1, <1>10, <1>11, SameRecords, TakenStays
<1>13. ASSUME Attached'
       PROVE  Served'
    <2>1. Served /\ connected
        BY <1>1, <1>2, <1>13 DEF ResumeInv, Attached, Expecting
    <2>2. TakenFrom(resumed) => TakenFrom(resumed)'
        BY <1>1, <1>11, <1>12 DEF TakenFrom
    <2>3. \A r \in Range(requests') : r.action = "get_block_deltas"
        BY <1>4, <1>8, <2>1 DEF Served
    <2>4. ASSUME NEW w \in DOMAIN chain, Walking(w)
          PROVE  Walking(w)'
        <3>1. /\ event \in Nat /\ w \in Nat /\ w <= event
              /\ PreviousBlockId(event) = event - 1 /\ PreviousBlockId(event) \in DOMAIN chain
            BY <1>2, <1>4, <2>4, WalkersFacts DEF ResumeInv
        <3>2. StopsInTime' /\ latest' + 2 <= w
            BY <1>1, <2>4 DEF Walking, StopsInTime
        <3>3. TakenFrom(w)'
            BY <1>11, <1>12, <2>4 DEF Walking, TakenFrom
        <3>4. NothingBelow(w)'
            BY <1>2, <1>4, <1>8, <1>11, <2>1, <2>4, <3>1 DEF Walking, NothingBelow
        <3>5. GoesOn(w)'
            <4>1. CASE event = w
                BY <1>4, <1>8, <2>1, <3>1, <4>1 DEF GoesOn
            <4>2. CASE event # w
                BY <1>4, <1>7, <1>8, <1>11, <2>1, <2>4, <4>2 DEF Walking, GoesOn
            <4> QED BY <4>1, <4>2
        <3> QED BY <3>2, <3>3, <3>4, <3>5 DEF Walking
    <2> QED BY <1>1, <1>11, <2>1, <2>2, <2>3, <2>4 DEF Served
<1> QED BY <1>9, <1>13 DEF ResumeInv

(* What is copied is in the mirror.                                        *)
LEMMA CopiedFacts ==
    ASSUME SyncInv, SyncInv', NEW event \in DOMAIN chain, ApplyChange(event)
    PROVE  Mirrored(event)'
<1>1. UNCHANGED chain
    BY DEF ApplyChange
<1>2. event \in Block /\ event \in Nat /\ event > 0
    BY BlockFacts, MaxBlocksAssumption DEF SyncInv, Block
<1>3. mirror \in [Address -> {NotStored} \cup Block]
    BY DEF SyncInv, TypeOK
<1>4. ASSUME NEW address \in Address, Sets(event, address)'
      PROVE  mirror'[address] >= event
    <2>1. chain[event].type = "SET" /\ chain[event].address = address
        BY <1>1, <1>4 DEF Sets
    <2>2. DBUpdateOrInsert(address, event)
        BY <1>2, <2>1 DEF ApplyChange, Unknown
    <2>3. mirror[address] \in Nat
        BY <1>3, MaxBlocksAssumption DEF NotStored, Block
    <2>4. CASE mirror[address] = NotStored \/ mirror[address] < event
        <3>1. mirror'[address] = event
            BY <1>3, <2>2, <2>4 DEF DBUpdateOrInsert
        <3> QED BY <1>2, <3>1
    <2>5. CASE ~(mirror[address] = NotStored \/ mirror[address] < event)
        <3>1. mirror'[address] = mirror[address]
            BY <2>2, <2>5 DEF DBUpdateOrInsert
        <3> QED BY <1>2, <2>3, <2>5, <3>1
    <2> QED BY <2>4, <2>5
<1> QED BY <1>4 DEF Mirrored

(* A goroutine is done with its event: the change is copied or lost.       *)
LEMMA ApplyResumes ==
    ASSUME SyncInv, SyncInv', ResumeInv, NEW event \in Event, ApplyChange(event) \/ ApplyChangeFails(event)
    PROVE  ResumeInv'
<1> DEFINE old == [at |-> "apply", event |-> event]
<1>1. /\ jobs' = jobs (-) SetToBag({old}) /\ old \in DOMAIN jobs
      /\ UNCHANGED <<chain, subscription, requests, events, main, connected, resumed, latest, row>>
      /\ lost \subseteq lost'
    BY DEF ApplyChange, ApplyChangeFails, Present, Goroutine, BagIn, BagToSet, wire, handler, globals, database, history
<1>2. old.event = event /\ old.at \notin BeforeAsking
    BY DEF BeforeAsking
<1> HIDE DEF old
<1>3. IsABag(jobs)
    BY DEF SyncInv, TypeOK
<1>4. DOMAIN jobs' \subseteq DOMAIN jobs /\ (DOMAIN jobs) \ {old} \subseteq DOMAIN jobs'
    BY <1>1, <1>3, BagRemoveFacts, BagOthersStay
<1>5. RowIsCommitted'
    BY <1>1 DEF ResumeInv, RowIsCommitted
<1>6. OnWire' = OnWire /\ DOMAIN chain' = DOMAIN chain
    BY <1>1 DEF OnWire
<1>7. \A address \in Address : mirror'[address] >= mirror[address]
    BY ApplyFacts, SameRecords DEF ApplyChangeFails, database
<1>8. event \in DOMAIN chain => event \in lost' \cup {b \in Block : Mirrored(b)'}
    <2>1. event \in DOMAIN chain => event \in Block
        BY BlockFacts DEF SyncInv
    <2> QED BY <2>1, CopiedFacts DEF ApplyChangeFails
<1>9. \A block \in DOMAIN chain : Taken(block) => Taken(block)'
    <2>1. AtWork \subseteq AtWork' \cup {event}
        BY <1>2, <1>4 DEF AtWork
    <2>2. CASE event \in DOMAIN chain
        BY <1>1, <1>6, <1>7, <1>8, <2>1, <2>2, TakenStays
    <2>3. CASE event \notin DOMAIN chain
        <3>1. ASSUME NEW block \in DOMAIN chain, block \in lost \cup AtWork \cup OnWire
              PROVE  Taken(block)'
            BY <1>1, <1>6, <2>1, <2>3, <3>1 DEF Taken
        <3>2. event = Unknown
            BY <1>1, <1>2, <2>3 DEF SyncInv, EventsAreCommitted, Committed
        <3>3. UNCHANGED mirror
            BY <3>2 DEF ApplyChange, ApplyChangeFails
        <3>4. ASSUME NEW block \in DOMAIN chain, Mirrored(block)
              PROVE  Taken(block)'
            BY <1>1, <3>3, <3>4 DEF Taken, Mirrored, Sets
        <3> QED BY <3>1, <3>4 DEF Taken
    <2> QED BY <2>2, <2>3
<1>10. ASSUME Attached'
       PROVE  Served'
    <2>1. Served
        BY <1>1, <1>10 DEF ResumeInv, Attached, Expecting
    <2>2. TakenFrom(resumed) => TakenFrom(resumed)'
        BY <1>1, <1>6, <1>9 DEF TakenFrom
    <2>3. \A request \in Range(requests') : request.action = "get_block_deltas"
        BY <1>1, <2>1 DEF Served
    <2>4. ASSUME NEW w \in DOMAIN chain, Walking(w)
          PROVE  Walking(w)'
        <3>1. StopsInTime' /\ latest' + 2 <= w
            BY <1>1, <2>4 DEF Walking, StopsInTime
        <3>2. TakenFrom(w)'
            BY <1>6, <1>9, <2>4 DEF Walking, TakenFrom
        <3>3. NothingBelow(w)'
            BY <1>1, <1>4, <1>6, <2>4 DEF Walking, NothingBelow
        <3>4. GoesOn(w)'
            BY <1>1, <1>2, <1>4, <1>6, <2>4 DEF Walking, GoesOn
        <3> QED BY <3>1, <3>2, <3>3, <3>4 DEF Walking
    <2> QED BY <1>1, <1>6, <2>1, <2>2, <2>3, <2>4 DEF Served
<1> QED BY <1>5, <1>10 DEF ResumeInv

(* An event is read from the wire: there is a goroutine for it.            *)
LEMMA ReceiveEventResumes ==
    ASSUME SyncInv, SyncInv', ResumeInv, ReceiveEvent
    PROVE  ResumeInv'
<1> DEFINE new == [at |-> "check", event |-> Head(events)]
<1>1. /\ events # <<>> /\ events' = Tail(events) /\ events \in Seq(Event)
      /\ UNCHANGED <<chain, subscription, requests, main, connected, mirror, resumed, lost, latest, row>>
    BY DEF ReceiveEvent, SyncInv, TypeOK, handler, globals, database, history
<1>2. jobs' = jobs (+) SetToBag({new}) /\ new.at = "check" /\ new.event = Head(events)
    BY DEF ReceiveEvent, Goroutine
<1> HIDE DEF new
<1>3. DOMAIN jobs' = (DOMAIN jobs) \cup {new}
    BY <1>2, BagAddFacts DEF SyncInv, TypeOK
<1>4. OnWire = {Head(events)} \cup OnWire' /\ DOMAIN chain' = DOMAIN chain
    BY <1>1, TailRange DEF OnWire
<1>5. AtWork' = AtWork \cup {Head(events)}
    BY <1>2, <1>3 DEF AtWork
<1>6. RowIsCommitted'
    BY <1>1 DEF ResumeInv, RowIsCommitted
<1>7. \A block \in DOMAIN chain : Taken(block) => Taken(block)'
    BY <1>1, <1>4, <1>5, SameRecords, TakenStays
<1>8. ASSUME Attached'
      PROVE  Served'
    <2>1. Served
        BY <1>1, <1>8 DEF ResumeInv, Attached, Expecting
    <2>2. TakenFrom(resumed) => TakenFrom(resumed)'
        BY <1>1, <1>4, <1>7 DEF TakenFrom
    <2>3. \A request \in Range(requests') : request.action = "get_block_deltas"
        BY <1>1, <2>1 DEF Served
    <2>4. ASSUME NEW w \in DOMAIN chain, Walking(w)
          PROVE  Walking(w)'
        <3>1. StopsInTime' /\ latest' + 2 <= w
            BY <1>1, <2>4 DEF Walking, StopsInTime
        <3>2. TakenFrom(w)'
            BY <1>4, <1>7, <2>4 DEF Walking, TakenFrom
        <3>3. NothingBelow(w)'
            BY <1>1, <1>2, <1>3, <1>4, <2>4 DEF Walking, NothingBelow
        <3>4. GoesOn(w)'
            BY <1>1, <1>2, <1>3, <1>4, <2>4 DEF Walking, GoesOn, BeforeAsking
        <3> QED BY <3>1, <3>2, <3>3, <3>4 DEF Walking
    <2> QED BY <1>1, <1>4, <2>1, <2>2, <2>3, <2>4 DEF Served
<1> QED BY <1>6, <1>8 DEF ResumeInv

(* A new block is sent to whoever is subscribed, and starts no walk below  *)
(* the others; to whoever is not, it is one of the old ones.               *)
LEMMA CommitBlockResumes ==
    ASSUME SyncInv, SyncInv', ResumeInv, NEW change \in Change, CommitBlock(change)
    PROVE  ResumeInv'
<1>1. /\ chain' = Append(chain, change) /\ chain \in Seq(Change)
      /\ UNCHANGED <<subscription, requests, main, subscirbed, connected, jobs, mirror, resumed, lost, latest, row>>
    BY DEF CommitBlock, SyncInv, TypeOK, handler, globals, database, history
<1>2. /\ Len(chain') = Len(chain) + 1 /\ Len(chain) \in Nat
      /\ DOMAIN chain = 1 .. Len(chain) /\ DOMAIN chain' = 1 .. (Len(chain) + 1)
      /\ \A block \in DOMAIN chain : chain'[block] = chain[block]
    <2>1. /\ Len(chain') = Len(chain) + 1 /\ Len(chain) \in Nat
          /\ DOMAIN chain = 1 .. Len(chain) /\ DOMAIN chain' = 1 .. (Len(chain) + 1)
          /\ \A i \in DOMAIN chain' : (i \in DOMAIN chain /\ chain'[i] = chain[i]) \/ i = Len(chain) + 1
        BY <1>1, AppendFacts
    <2> QED BY <2>1
<1>3. PICK newest \in Event :
          /\ newest = Len(chain') /\ newest \in Nat
          /\ DOMAIN chain' = (DOMAIN chain) \cup {newest}
          /\ \A block \in DOMAIN chain : newest >= block
    <2>1. Len(chain) + 1 \in Block
        BY <1>2, MaxBlocksAssumption DEF CommitBlock, Block
    <2> QED BY <1>2, <2>1 DEF Event
<1>4. subscription => OnWire' = OnWire \cup {newest}
    <2>1. events \in Seq(Event)
        BY DEF SyncInv, TypeOK
    <2>2. Range(Append(events, newest)) = Range(events) \cup {newest}
        BY <2>1, AppendRange
    <2> QED BY <1>3, <2>2 DEF CommitBlock, OnWire
<1>5. ~subscription => events' = events
    BY DEF CommitBlock
<1>6. AtWork' = AtWork /\ OnWire \subseteq OnWire'
    BY <1>1, <1>4, <1>5 DEF AtWork, OnWire
<1>7. RowIsCommitted'
    BY <1>1, <1>3 DEF ResumeInv, RowIsCommitted
<1>8. \A block \in DOMAIN chain : Taken(block) => Taken(block)'
    BY <1>1, <1>2, <1>3, <1>6, SameRecords, TakenStays
<1>9. Expecting => Expecting'
    BY <1>1, <1>5 DEF Expecting, StopsInTime
<1>10. ASSUME Served
       PROVE  Served'
    <2>1. Taken(newest)'
        BY <1>4, <1>10 DEF Served, Taken
    <2>2. \A first : TakenFrom(first) => TakenFrom(first)'
        BY <1>3, <1>8, <2>1 DEF TakenFrom
    <2>3. \A request \in Range(requests') : request.action = "get_block_deltas"
        BY <1>1, <1>10 DEF Served
    <2>4. ASSUME NEW w \in DOMAIN chain, Walking(w)
          PROVE  Walking(w)'
        <3>1. StopsInTime' /\ latest' + 2 <= w
            BY <1>1, <2>4 DEF Walking, StopsInTime
        <3>2. TakenFrom(w)'
            BY <2>2, <2>4 DEF Walking
        <3>3. NothingBelow(w)'
            BY <1>1, <1>3, <1>4, <1>10, <2>4 DEF Walking, NothingBelow, Served
        <3>4. GoesOn(w)'
            BY <1>1, <1>6, <2>4 DEF Walking, GoesOn
        <3> QED BY <3>1, <3>2, <3>3, <3>4 DEF Walking
    <2> QED BY <1>1, <1>3, <1>10, <2>2, <2>3, <2>4 DEF Served
<1> QED BY <1>1, <1>7, <1>9, <1>10 DEF ResumeInv, Attached

(* The server sends the block that was asked for: either a walk goes on    *)
(* below, or it has come to the block above the one to stop at, and that   *)
(* is the block to resume at or lies before it.                            *)
LEMMA ServeBlockDeltasResumes ==
    ASSUME SyncInv, SyncInv', RowIsCommitted, Served, ServeRequest
    PROVE  Served'
<1> DEFINE Answer(asked) == IF asked \in DOMAIN chain THEN asked ELSE Unknown
<1>0. PICK asked, answer : asked = Head(requests).block_id /\ answer = Answer(asked)
    OBVIOUS
<1>1. /\ requests # <<>> /\ requests' = Tail(requests) /\ requests \in Seq(Request)
      /\ UNCHANGED <<chain, main, connected, jobs, mirror, resumed, lost, latest, row>>
    BY DEF ServeRequest, SyncInv, TypeOK, Request, handler, globals, database, history
<1>2. Range(requests) = {Head(requests)} \cup Range(requests')
    BY <1>1, TailRange
<1>3. /\ events' = Append(events, answer) /\ UNCHANGED subscription
    BY <1>0, <1>2 DEF ServeRequest, ServeBlockDeltas, Served
<1>4. answer \in Event
    BY <1>0, BlockFacts DEF SyncInv, Event
<1>5. asked \in DOMAIN chain => answer = asked
    BY <1>0
<1>6. OnWire' = OnWire \cup {answer}
    <2>1. events \in Seq(Event)
        BY DEF SyncInv, TypeOK
    <2> QED BY <1>3, <1>4, <2>1, AppendRange DEF OnWire
<1>7. AtWork' = AtWork /\ DOMAIN chain' = DOMAIN chain
    BY <1>1 DEF AtWork
<1>8. \A block \in DOMAIN chain : Taken(block) => Taken(block)'
    BY <1>1, <1>6, <1>7, SameRecords, TakenStays
<1>9. \A first : TakenFrom(first) => TakenFrom(first)'
    BY <1>7, <1>8 DEF TakenFrom
<1>10. /\ main' = "waiting" /\ subscription'
       /\ \A request \in Range(requests') : request.action = "get_block_deltas"
    BY <1>1, <1>2, <1>3 DEF Served
<1>11. ASSUME NEW w \in DOMAIN chain, Walking(w)
       PROVE  TakenFrom(resumed)' \/ \E v \in DOMAIN chain : Walking(v)'
    <2>1. asked \in DOMAIN chain /\ asked + 1 >= w /\ answer = asked
        BY <1>0, <1>2, <1>5, <1>11 DEF Walking, NothingBelow
    <2>2. /\ latest \in Nat /\ latest + 2 <= w /\ StopsInTime
          /\ \A block \in DOMAIN chain : block \in Nat
          /\ \A block \in DOMAIN chain : block >= resumed => block >= latest + 1
        BY <1>11, StopFacts DEF Walking
    <2>3. Taken(asked)'
        BY <1>6, <2>1 DEF Taken
    <2>4. StopsInTime'
        BY <1>1, <2>2 DEF StopsInTime
    <2>5. CASE asked >= w
        <3>1. TakenFrom(w)' /\ latest' + 2 <= w
            BY <1>1, <1>9, <1>11 DEF Walking
        <3>2. NothingBelow(w)'
            BY <1>1, <1>2, <1>6, <1>11, <2>1, <2>5 DEF Walking, NothingBelow
        <3>3. Head(requests).block_id + 1 # w
            BY <1>0, <2>1, <2>2, <2>5
        <3>4. GoesOn(w)'
            BY <1>1, <1>2, <1>6, <1>11, <3>3 DEF Walking, GoesOn
        <3> QED BY <2>4, <3>1, <3>2, <3>4 DEF Walking
    <2>6. CASE asked + 1 = w
        <3>1. \A block \in DOMAIN chain : block >= asked => block >= w \/ block = asked
            BY <2>1, <2>2, <2>6
        <3>2. TakenFrom(asked)'
            BY <1>7, <1>9, <1>11, <2>3, <3>1 DEF Walking, TakenFrom
        <3>3. CASE asked = latest + 1
            <4>1. \A block \in DOMAIN chain : block >= resumed => block >= asked
                BY <2>2, <3>3
            <4> QED BY <1>1, <3>2, <4>1 DEF TakenFrom
        <3>4. CASE asked # latest + 1
            <4>1. latest' + 2 <= asked
                BY <1>1, <2>1, <2>2, <2>6, <3>4
            <4>2. w \in Nat /\ asked \in Nat
                BY <2>1, <2>2
            <4>3. NothingBelow(asked)'
                <5>1. \A job \in DOMAIN jobs : job.event \in Int /\ job.event >= w /\ job.at \notin {"refresh", "assign"}
                    BY <1>11, WalkersFacts
                <5>2. \A event \in OnWire : event \in Int /\ event >= w
                    <6>1. OnWire \subseteq Event
                        BY DEF OnWire, Range, SyncInv, TypeOK
                    <6> QED BY <1>11, <6>1, BlockFacts DEF Walking, NothingBelow
                <5>3. \A request \in Range(requests) :
                          request.block_id \in DOMAIN chain /\ request.block_id + 1 >= w
                    BY <1>11 DEF Walking, NothingBelow
                <5>4. \A job \in DOMAIN jobs' : job.event >= asked /\ job.at \notin {"refresh", "assign"}
                    BY <1>1, <2>6, <4>2, <5>1
                <5>5. \A event \in OnWire' : event >= asked
                    BY <1>6, <2>1, <2>6, <4>2, <5>2
                <5>6. \A request \in Range(requests') :
                          request.block_id \in DOMAIN chain' /\ request.block_id + 1 >= asked
                    BY <1>2, <1>7, <2>2, <2>6, <4>2, <5>3
                <5> QED BY <5>4, <5>5, <5>6 DEF NothingBelow
            <4>4. GoesOn(asked)'
                BY <1>6, <2>1 DEF GoesOn
            <4> QED BY <2>1, <2>4, <3>2, <4>1, <4>3, <4>4 DEF Walking
        <3> QED BY <3>3, <3>4
    <2>7. asked \in Nat /\ w \in Nat
        BY <2>1, <2>2
    <2> QED BY <2>1, <2>5, <2>6, <2>7
<1>12. TakenFrom(resumed) => TakenFrom(resumed)'
    BY <1>1, <1>9 DEF TakenFrom
<1> QED BY <1>7, <1>10, <1>11, <1>12 DEF Served

(* The server sends a new subscriber the newest block: the walk from there *)
(* begins, unless nothing lies between it and the block to resume at.      *)
LEMMA ServeSubscribeResumes ==
    ASSUME SyncInv, SyncInv', RowIsCommitted, Expecting, ServeRequest
    PROVE  Served'
<1>1. /\ Head(requests).action = "subscribe" /\ main = "waiting"
      /\ requests' = <<>>
    <2>1. PICK request : request.action = "subscribe" /\ requests = <<request>> /\ main = "waiting"
        BY DEF ServeRequest, Expecting
    <2>2. Head(<<request>>) = request /\ Tail(<<request>>) = <<>>
        OBVIOUS
    <2> QED BY <2>1, <2>2 DEF ServeRequest
<1>2. /\ subscription' = TRUE
      /\ events' = IF chain # <<>> THEN Append(events, Len(chain)) ELSE events
      /\ UNCHANGED <<chain, main, connected, jobs, mirror, resumed, lost, latest, row>>
    BY <1>1 DEF ServeRequest, ServeSubscribe, handler, globals, database, history
<1>3. Range(requests') = {} /\ DOMAIN jobs' = {} /\ OnWire = {}
    BY <1>1, <1>2, EmptyRange DEF Expecting, OnWire
<1>4. CASE chain = <<>>
    <2>1. DOMAIN chain' = {}
        BY <1>2, <1>4
    <2>2. TakenFrom(resumed)'
        BY <2>1 DEF TakenFrom
    <2> QED BY <1>1, <1>2, <1>3, <2>2 DEF Served
<1>5. CASE chain # <<>>
    <2>1. PICK newest \in DOMAIN chain :
              newest = Len(chain) /\ (\A block \in DOMAIN chain : block >= newest => block = newest)
        <3>1. DOMAIN chain = 1 .. Len(chain) /\ Len(chain) \in Nat /\ Len(chain) # 0
            BY <1>5, LenProperties, EmptySeq DEF SyncInv, TypeOK
        <3> QED BY <3>1
    <2>2. newest \in Event
        BY BlockFacts DEF SyncInv, Event
    <2>3. OnWire' = {newest}
        <3>1. events \in Seq(Event)
            BY DEF SyncInv, TypeOK
        <3>2. Range(Append(events, newest)) = Range(events) \cup {newest}
            BY <2>2, <3>1, AppendRange
        <3> QED BY <1>2, <1>3, <1>5, <2>1, <3>2 DEF OnWire
    <2>4. DOMAIN chain' = DOMAIN chain
        BY <1>2
    <2>5. TakenFrom(newest)'
        BY <2>1, <2>3, <2>4 DEF TakenFrom, Taken
    <2>6. /\ latest \in Nat /\ StopsInTime
          /\ \A block \in DOMAIN chain : block \in Nat
          /\ \A block \in DOMAIN chain : block >= resumed => block >= latest + 1
        BY StopFacts DEF Expecting
    <2>7. CASE latest + 2 <= newest
        <3>1. StopsInTime' /\ latest' + 2 <= newest
            BY <1>2, <2>6, <2>7 DEF StopsInTime
        <3>2. NothingBelow(newest)'
            BY <1>3, <2>1, <2>3, <2>6 DEF NothingBelow
        <3>3. GoesOn(newest)'
            BY <2>3 DEF GoesOn
        <3>4. Walking(newest)'
            BY <2>5, <3>1, <3>2, <3>3 DEF Walking
        <3> QED BY <1>1, <1>2, <1>3, <2>4, <3>4 DEF Served
    <2>8. CASE ~(latest + 2 <= newest)
        <3>1. \A block \in DOMAIN chain : block >= resumed => block >= newest
            BY <2>1, <2>6, <2>8
        <3>2. TakenFrom(resumed)'
            BY <1>2, <2>4, <2>5, <3>1 DEF TakenFrom
        <3> QED BY <1>1, <1>2, <1>3, <3>2 DEF Served
    <2> QED BY <2>7, <2>8
<1> QED BY <1>4, <1>5

(* The server, for whoever can still get to rest.                          *)
LEMMA ServeRequestResumes ==
    ASSUME SyncInv, SyncInv', ResumeInv, ServeRequest
    PROVE  ResumeInv'
<1>1. UNCHANGED <<chain, main, connected, resumed, row>>
    BY DEF ServeRequest, handler, database, history
<1>2. RowIsCommitted'
    BY <1>1 DEF ResumeInv, RowIsCommitted
<1>3. Attached' => Served'
    BY <1>1, ServeSubscribeResumes, ServeBlockDeltasResumes DEF ResumeInv, Attached
<1> QED BY <1>2, <1>3 DEF ResumeInv

(* A new process stops before the block the row names.                     *)
LEMMA StartResumes ==
    ASSUME SyncInv, ResumeInv, Start \/ StartUnread
    PROVE  ResumeInv'
<1>1. /\ main = "down" /\ main' = "subscribing" /\ subscirbed' = FALSE
      /\ latest' \in {PreviousBlockId(row), NullBlock}
      /\ resumed' = row
      /\ UNCHANGED <<chain, subscription, requests, events, jobs, row>>
    BY DEF Start, StartUnread, StartAt, wire, database
<1>2. ~subscription /\ requests = <<>> /\ events = <<>> /\ DOMAIN jobs = {}
    BY <1>1 DEF SyncInv, NothingIsLeft
<1>3. RowIsCommitted'
    BY <1>1 DEF ResumeInv, RowIsCommitted
<1>4. PreviousBlockId(row) \in Nat
    BY MaxBlocksAssumption DEF SyncInv, TypeOK, PreviousBlockId, NullBlock, Block
<1>5. PreviousBlockId(resumed)' = PreviousBlockId(row)
    BY <1>1 DEF PreviousBlockId
<1>6. StopsInTime'
    BY <1>1, <1>4, <1>5 DEF StopsInTime, NullBlock
<1>7. Expecting'
    BY <1>1, <1>2, <1>6 DEF Expecting
<1> QED BY <1>3, <1>7 DEF ResumeInv

(* main subscribes.                                                        *)
LEMMA SubscribeFirstResumes ==
    ASSUME SyncInv, ResumeInv, SubscribeFirst
    PROVE  ResumeInv'
<1>1. /\ main = "subscribing" /\ main' = "waiting"
      /\ UNCHANGED <<chain, subscription, events, connected, latest, jobs, row, resumed>>
    BY DEF SubscribeFirst, Subscribe, globals, database, history
<1>2. RowIsCommitted'
    BY <1>1 DEF ResumeInv, RowIsCommitted
<1>3. ASSUME Attached'
      PROVE  Expecting'
    <2>1. Expecting /\ connected
        BY <1>1, <1>3 DEF ResumeInv, Attached, Served
    <2>2. ~subscirbed /\ requests = <<>>
        BY <1>1, <2>1 DEF Expecting
    <2>3. requests' = <<[action |-> "subscribe", block_id |-> NullBlock]>>
        <3> DEFINE request == [action |-> "subscribe", block_id |-> NullBlock]
        <3>1. requests' = Append(requests, request)
            BY <2>1, <2>2 DEF SubscribeFirst, Subscribe, Send
        <3> HIDE DEF request
        <3>2. Append(<<>>, request) = <<request>>
            OBVIOUS
        <3> QED BY <2>2, <3>1, <3>2 DEF request
    <2>4. StopsInTime'
        BY <1>1, <2>1 DEF Expecting, StopsInTime
    <2> QED BY <1>1, <2>1, <2>3, <2>4 DEF Expecting
<1> QED BY <1>2, <1>3 DEF ResumeInv

(* Whoever is stopped or cut off has nothing left to get to rest with.     *)
LEMMA StoppedResumes ==
    ASSUME ResumeInv, Interrupt \/ Unsubscribe \/ ExitSubscriber \/ End \/ Disconnect
    PROVE  ResumeInv'
<1>1. UNCHANGED <<chain, row, resumed>>
    BY DEF Interrupt, Unsubscribe, Subscribe, ExitSubscriber, End, Disconnect, database, history
<1>2. ~Attached'
    BY DEF Interrupt, Unsubscribe, Subscribe, ExitSubscriber, End, Disconnect, Attached
<1> QED BY <1>1, <1>2 DEF ResumeInv, RowIsCommitted

(* In the beginning nobody is connected.                                   *)
LEMMA ResumeInitially == Init => ResumeInv
BY DEF Init, ResumeInv, RowIsCommitted, Attached

(* Every step keeps it.                                                    *)
LEMMA ResumeNextKeeps == SyncInv /\ SyncInv' /\ ResumeInv /\ [Next]_vars => ResumeInv'
<1> SUFFICES ASSUME SyncInv, SyncInv', ResumeInv, [Next]_vars PROVE ResumeInv'
    OBVIOUS
<1>1. ASSUME NEW event \in Event, UpdateOnsEvent(event)
      PROVE  ResumeInv'
    BY <1>1, UpdateResumes, CompareResumes, AskPreviousResumes, RefreshResumes, ApplyResumes DEF UpdateOnsEvent
<1>2. CASE Start
    BY <1>2, StartResumes
<1>3. CASE Work
    BY <1>1, <1>3, SubscribeFirstResumes, ReceiveEventResumes DEF Work
<1>4. CASE Outside
    BY <1>4, CommitBlockResumes, ServeRequestResumes DEF Outside
<1>5. CASE Shutdown \/ Crash \/ Disconnect
    BY <1>5, StoppedResumes DEF Shutdown, Close, Crash
<1>6. CASE QueryFails
    BY <1>6, StartResumes, UpdateResumes, RefreshResumes, ApplyResumes DEF QueryFails
<1>7. CASE UNCHANGED vars
    <2>1. UNCHANGED <<chain, subscription, requests, events, main, subscirbed, connected, latest, jobs, row,
                      mirror, resumed, lost>>
        BY <1>7 DEF vars, wire, handler, globals, database, history
    <2>2. \A block : Taken(block)' <=> Taken(block)
        BY <2>1 DEF Taken, Mirrored, Sets, AtWork, OnWire
    <2>3. \A first : TakenFrom(first)' <=> TakenFrom(first)
        BY <2>1, <2>2 DEF TakenFrom
    <2>4. \A w : Walking(w)' <=> Walking(w)
        BY <2>1, <2>3 DEF Walking, StopsInTime, NothingBelow, GoesOn, OnWire
    <2>5. TakenFrom(resumed)' <=> TakenFrom(resumed)
        BY <2>1, <2>3 DEF TakenFrom
    <2>6. Served' <=> Served
        BY <2>1, <2>4, <2>5 DEF Served
    <2>7. Expecting' <=> Expecting
        BY <2>1 DEF Expecting, StopsInTime
    <2> QED BY <2>1, <2>6, <2>7 DEF ResumeInv, RowIsCommitted, Attached
<1> QED BY <1>2, <1>3, <1>4, <1>5, <1>6, <1>7 DEF Next, ShutdownNext

(* Whatever earlier processes left undone, and whatever fails: a process   *)
(* at rest has copied every block from the one it resumed at on, except    *)
(* those whose own query failed (handler.go:241-315, sync.go:228).         *)
THEOREM ResumedIsMirroredHolds == Spec => []ResumedIsMirrored
<1>1. SyncInv /\ ResumeInv => ResumedIsMirrored
    <2> SUFFICES ASSUME SyncInv, ResumeInv, Idle,
                        NEW block \in DOMAIN chain, block >= resumed
                 PROVE  Mirrored(block) \/ block \in lost
        BY DEF ResumedIsMirrored
    <2>1. Attached /\ requests = <<>> /\ events = <<>> /\ DOMAIN jobs = {}
        BY DEF Idle, Attached, EmptyBag, SetToBag
    <2>2. Range(requests) = {} /\ OnWire = {} /\ AtWork = {}
        BY <2>1, EmptyRange DEF OnWire, AtWork
    <2>3. Served
        BY <2>1 DEF ResumeInv, Expecting, Idle
    <2>4. \A w : ~Walking(w)
        BY <2>1, <2>2 DEF Walking, GoesOn
    <2>5. TakenFrom(resumed)
        BY <2>3, <2>4 DEF Served
    <2> QED BY <2>2, <2>5 DEF TakenFrom, Taken
<1>2. Init => ResumeInv
    BY ResumeInitially
<1>3. SyncInv /\ SyncInv' /\ ResumeInv /\ [Next]_vars => ResumeInv'
    BY ResumeNextKeeps
<1> QED BY <1>1, <1>2, <1>3, SyncInvariance, PTL DEF Spec
=============================================================================
