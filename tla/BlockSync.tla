------------------------------ MODULE BlockSync ------------------------------
(***************************************************************************)
(* How a node fetches the blocks it lacks from its peers (net/node.cpp)    *)
(* and what its application answers (app/application.cpp).  One node is    *)
(* modelled in full: its record of every peer, the blocks it has asked     *)
(* for, received and is pushing, and the loops that other fibers wake.     *)
(* Its peers follow the same protocol: they answer from their own chain,   *)
(* which grows and switches forks at any moment.                           *)
(*                                                                         *)
(* The handlers of one node run as fibers of one thread and give up        *)
(* control where they call the application: the synopsis of a request and  *)
(* the push of a block are steps of their own.  A connection delivers in   *)
(* order; when it closes, what is under way is lost.                       *)
(***************************************************************************)
EXTENDS BlockTree, SequencesExt

CONSTANTS
    Peers,
    Start,       \* the head the node starts with
    UndoSize,    \* how many blocks can be undone, and are kept of a fork
    IdsPerReply, \* block ids in one reply
    MinPrefetch, \* block ids that are enough to start fetching blocks
    PerPeer,     \* blocks asked of one peer at a time
    AtOnce,      \* blocks handed to the application at a time
    Scenarios,   \* bound: the peers there are, the heads they may come to, and how many
                 \* connections may be lost
    None         \* no request

ASSUME NetworkAssumption ==
    /\ IsFiniteSet(Peers) /\ Start \in Blocks \cup {Genesis}
    /\ {UndoSize, IdsPerReply, MinPrefetch, PerPeer, AtOnce} \subseteq Nat
    /\ \A s \in Scenarios : s.heads \in [Peers -> Blocks \cup {Genesis}] /\ s.drops \in Nat

VARIABLES
    head,       \* the node's head block
    known,      \* the blocks of its chain and of the forks it keeps
    reach,      \* the peers there are and the heads they may come to
    peerHead,   \* the peers' head blocks
    conn,       \* the node's record of every peer
    active,     \* _active_sync_requests
    received,   \* _received_sync_items and _new_received_sync_items
    handling,   \* the blocks on their way through the application
    recent,     \* _most_recent_blocks_accepted
    toFetch,    \* _items_to_fetch, blocks, in the order they were put there
    fetchDue,   \* the sync items loop has been triggered
    itemsDue,   \* the items loop has been triggered
    backlogDue, \* process_backlog_of_sync_blocks is scheduled
    turn,       \* the loop that is in the middle of a turn, during which no other fiber runs
    drops       \* the connections that may still be lost

dbVars   == <<head, known>>
others   == <<drops, reach, turn>>
pushVars == <<received, handling, recent, backlogDue>>
vars     == <<head, known, peerHead, conn, active, received, handling, recent, toFetch,
              fetchDue, itemsDue, backlogDue, turn, drops, reach>>

(* Genesis also stands for "no block". *)
Chain(h) == IF h = Genesis THEN << >> ELSE PathTo[h]
Included(b, h) == b \in ToSet(Chain(h))
NonUndoable(h) == IF Num(h) > UndoSize THEN Num(h) - UndoSize ELSE 0
CommonNum(b, h) == Cardinality(ToSet(Chain(b)) \cap ToSet(Chain(h)))

-----------------------------------------------------------------------------
(* The application: pushing a block, naming the chain, listing ids *)

(* What push_block() makes of b.  Nothing changes unless it is "ok". *)
PushResult(b) ==
    IF Num(b) <= NonUndoable(head) THEN "old"
    ELSE IF Parent[b] \notin known \cup {Genesis} THEN "unlinkable"
    ELSE IF Num(b) > Num(head) /\ CommonNum(b, head) < NonUndoable(head) THEN "unswitchable"
    ELSE "ok"

Push(b) ==
    LET h == IF Num(b) > Num(head) THEN b ELSE head
    IN  /\ head' = h
        /\ known' = {x \in known \cup {b} : Included(x, h) \/ Num(x) >= NonUndoable(h)}

(* What a synopsis takes of `ids', where ids[n] is the id of block n: those *)
(* at low, and again and again half of the way further, up to high.        *)
Points(ids, low, high) ==
    LET from[l \in Nat] ==
            IF l > high THEN << >>
            ELSE (IF l \in DOMAIN ids THEN <<ids[l]>> ELSE << >>) \o from[l + (high - l + 2) \div 2]
    IN  from[low]

LowFor(h, ref) == LET low == IF ref # Genesis /\ Included(ref, h) /\ Num(ref) < NonUndoable(h)
                             THEN Num(ref) ELSE NonUndoable(h)
                  IN  IF low = 0 THEN 1 ELSE low

(* The synopsis up to ref, which may be on a fork, of a chain with head h; *)
(* the network code will append `after' more ids.                          *)
Synopsis(h, ref, after) ==
    LET path == Chain(IF ref = Genesis THEN h ELSE ref)
    IN  Points(path, LowFor(h, ref), Len(path) + after)

ForkTooOld(h, ref) == ref # Genesis /\ ~Included(ref, h) /\ CommonNum(ref, h) < NonUndoable(h)

(* The ids from the last block of the synopsis that is on the chain of h. *)
BlockIds(h, synopsis) ==
    LET on   == {i \in DOMAIN synopsis : Included(synopsis[i], h)}
        from == IF synopsis = << >> THEN 1 ELSE Num(synopsis[CHOOSE i \in on : \A j \in on : j <= i])
    IN  IF synopsis # << >> /\ on = {} THEN << >>
        ELSE SubSeq(Chain(h), from, IF from + IdsPerReply - 1 < Num(h) THEN from + IdsPerReply - 1 ELSE Num(h))

Remaining(h, ids) == IF ids = << >> THEN 0 ELSE Num(h) - Num(Last(ids))

(* Whether the answer `ids' tells the one who sent the synopsis that it lacks blocks. *)
NeedsItems(ids, synopsis) ==
    ids # << >> /\ ~(synopsis # << >> /\ Len(ids) = 1 /\ Contains(synopsis, ids[1]))

-----------------------------------------------------------------------------
(* The record of a peer *)

Closed == [up |-> FALSE,
           toGet      |-> << >>,   \* ids_of_items_to_get
           processing |-> {},      \* ids_of_items_being_processed
           unfetched  |-> 0,       \* number_of_unfetched_item_ids
           weNeed     |-> FALSE,   \* we_need_sync_items_from_peer
           peerNeeds  |-> FALSE,   \* peer_needs_sync_items_from_us
           seen       |-> Genesis, \* last_block_delegate_has_seen
           asked      |-> None,    \* item_ids_requested_from_peer: the synopsis
           requested  |-> {},      \* sync_items_requested_from_peer
           wanted     |-> {},      \* items_requested_from_peer
           theirs     |-> {},      \* inventory_peer_advertised_to_us
           ours       |-> {},      \* inventory_advertised_to_peer
           composing  |-> << >>,   \* the requests that wait for their synopsis
           serves     |-> FALSE,   \* the peer's peer_needs_sync_items_from_us
           out |-> << >>, in |-> << >>]  \* messages on their way to and from the peer


(* No loop is in the middle of a turn. *)
Free == turn = "none"

Up == {p \in Peers : conn[p].up}
Idle(c) == c.wanted = {} /\ c.requested = {} /\ c.asked = None

(* fetch_next_batch_of_item_ids_from_peer, up to the call of the           *)
(* application.  `here' tells whether a handler of a message of this peer  *)
(* waits: the peer's next message is read when it is done.                 *)
FetchIds(c, here) ==
    [c EXCEPT !.composing = Append(@, [ref |-> c.seen, ids |-> c.toGet, here |-> here])]
Handling(c) == \E i \in DOMAIN c.composing : c.composing[i].here

StartSync(c, here) ==
    FetchIds([c EXCEPT !.toGet = << >>, !.unfetched = 0, !.weNeed = TRUE, !.seen = Genesis], here)

FetchIfAllDone(c) ==
    IF c.toGet = << >> /\ c.unfetched = 0 /\ c.processing = {} THEN FetchIds(c, FALSE) ELSE c

Send(c, m) == [c EXCEPT !.out = Append(@, m)]
Got(c) == [c EXCEPT !.in = Tail(@)]

LeaveOwing(cn, gone, act, items, fetch, fetchItems) ==
    /\ conn' = [p \in Peers |-> IF p \in gone THEN Closed ELSE cn[p]]
    /\ active' = act
    /\ toFetch' = items \o SetToSeq({b \in UNION {cn[p].wanted : p \in gone} :
                                          \E q \in Peers \ gone : b \in cn[q].theirs})
    /\ fetchDue' = (fetch \/ \E p \in gone : cn[p].requested # {})
    /\ itemsDue' = (fetchItems \/ \E p \in gone : cn[p].wanted # {})

(* The step leaves the records cn, closes the connections of `gone', and   *)
(* triggers the loops; what the closed peers owed is asked of the others.  *)
Leave(cn, gone, act, items, fetch, fetchItems) ==
    /\ conn' = [p \in Peers |-> IF p \in gone THEN Closed ELSE cn[p]]
    /\ active' = act \ UNION {cn[p].requested : p \in gone}
    /\ toFetch' = items \o SetToSeq({b \in UNION {cn[p].wanted : p \in gone} :
                                          \E q \in Peers \ gone : b \in cn[q].theirs})
    /\ fetchDue' = (fetch \/ \E p \in gone : cn[p].requested # {})
    /\ itemsDue' = (fetchItems \/ \E p \in gone : cn[p].wanted # {})

(* Only the record of p changes. *)
Update(p, c) == conn' = [conn EXCEPT ![p] = c]

Init ==
    /\ head = Start
    /\ known = ToSet(Chain(Start))
    /\ \E s \in Scenarios : peerHead = s.heads /\ reach = s.reach /\ drops = s.drops
    /\ conn = [p \in Peers |-> Closed]
    /\ active = {} /\ received = {} /\ handling = << >> /\ recent = {Start}
    /\ turn = "none" /\ toFetch = << >> /\ fetchDue = FALSE /\ itemsDue = FALSE /\ backlogDue = FALSE

-----------------------------------------------------------------------------
(* Connections *)

Ask(h) == [type |-> "fetch_ids", synopsis |-> Synopsis(h, Genesis, 0)]

(* Both ends ask for the other's ids when the handshake is done. *)
Connect(p) ==
    /\ Free /\ p \in DOMAIN reach /\ ~conn[p].up
    /\ Update(p, StartSync([Closed EXCEPT !.up = TRUE, !.serves = TRUE, !.peerNeeds = TRUE,
                                          !.in = <<Ask(peerHead[p])>>], TRUE))
    /\ UNCHANGED <<dbVars, pushVars, peerHead, active, toFetch, fetchDue, itemsDue, others>>

Close(p) ==
    /\ Leave(conn, {p}, active, toFetch, fetchDue, itemsDue)
    /\ UNCHANGED <<dbVars, pushVars, peerHead, reach, turn>>

(* The peer goes away, or has not answered a request in time. *)
Drop(p) ==
    /\ Free /\ conn[p].up /\ drops > 0
    /\ drops' = drops - 1
    /\ Close(p)

Stalled(c) ==
    c.up /\ c.weNeed /\ c.asked = None /\ c.toGet = << >> /\ ~Handling(c)

TerminateStalled(p) ==
    /\ Free /\ Stalled(conn[p])
    /\ Close(p)
    /\ UNCHANGED drops

-----------------------------------------------------------------------------
(* Asking for block ids *)

(* The synopsis of the chain, and the ids to get appended at the numbers   *)
(* that continue it.                                                       *)
FullSynopsis(ref, ids) ==
    LET ours  == Synopsis(head, ref, Len(ids))
        first == Num(ids[1])
        last  == first + Len(ids) - 1
        low   == IF ours = << >> THEN 1 ELSE Num(ours[1])
    IN  IF ids = << >> THEN ours
        ELSE ours \o Points([n \in first..last |-> ids[n - first + 1]], low, last)

(* create_blockchain_synopsis_for_peer gets the application's answer for   *)
(* the state it had copied before it gave up control.                      *)
SendRequest(p) ==
    LET c == conn[p]
        req == Head(c.composing)
        synopsis == FullSynopsis(req.ref, req.ids)
    IN  /\ Free /\ c.up /\ c.composing # << >>
        /\ IF ForkTooOld(head, req.ref)
           THEN Leave(conn, {p}, active, toFetch, fetchDue, itemsDue)
           ELSE /\ Update(p, Send([c EXCEPT !.composing = Tail(@), !.asked = synopsis],
                                  [type |-> "fetch_ids", synopsis |-> synopsis]))
                /\ UNCHANGED <<active, toFetch, fetchDue, itemsDue>>
        /\ UNCHANGED <<dbVars, pushVars, peerHead, others>>

(* The peer answers what it has been asked first. *)
PeerAnswers(p) ==
    LET c == conn[p]
        m == Head(c.out)
        rest == [c EXCEPT !.out = Tail(@)]
        ids == BlockIds(peerHead[p], m.synopsis)
        Kept(b) == Included(b, peerHead[p]) \/ Num(b) >= NonUndoable(peerHead[p])
    IN  /\ Free /\ c.up /\ c.out # << >>
        /\ \/ /\ m.type = "fetch_ids"
              /\ Update(p, [rest EXCEPT !.serves = NeedsItems(ids, m.synopsis),
                                        !.in = Append(@, [type |-> "ids", ids |-> ids,
                                                          remaining |-> Remaining(peerHead[p], ids)])])
              /\ UNCHANGED <<active, toFetch, fetchDue, itemsDue>>
           \/ /\ m.type = "fetch_items" /\ \A i \in DOMAIN m.items : Kept(m.items[i])
              /\ Update(p, [rest EXCEPT !.in = @ \o [i \in DOMAIN m.items |->
                                                        [type |-> "block", block |-> m.items[i]]]])
              /\ UNCHANGED <<active, toFetch, fetchDue, itemsDue>>
           \/ \* get_item() throws, which ends the connection
              /\ m.type = "fetch_items" /\ \E i \in DOMAIN m.items : ~Kept(m.items[i])
              /\ Leave(conn, {p}, active, toFetch, fetchDue, itemsDue)
        /\ UNCHANGED <<dbVars, pushVars, peerHead, others>>

-----------------------------------------------------------------------------
(* Receiving block ids *)

(* The reply starts at block 1 or at a block of the synopsis that was sent. *)
ValidReply(ids, synopsis) ==
    ids # << >> => IF synopsis = << >> THEN Num(ids[1]) = 1 ELSE Contains(synopsis, ids[1])

UpToDate(c, m) ==
    /\ m.remaining = 0
    /\ m.ids = << >> \/ (Len(m.ids) = 1 /\ m.ids[1] \in known)
    /\ c.toGet = << >> /\ c.unfetched = 0

FirstForOther(p, b) == \E q \in Up \ {p} : conn[q].toGet # << >> /\ conn[q].toGet[1] = b

(* The blocks at the front of the list that the application already has. *)
SeenBefore(p, ids) ==
    IF FirstForOther(p, ids[1]) THEN 0
    ELSE LET new == SelectInSeq(ids, LAMBDA b : b \notin known)
         IN  IF new = 0 THEN Len(ids) ELSE new - 1

ExtendedTwice(p, c, ids) ==
    LET n == SeenBefore(p, ids)
        i == SelectLastInSeq(c.toGet, LAMBDA b : b = ids[1])
    IN  IF ids = << >> THEN c
        ELSE IF c.toGet = << >>
        THEN [c EXCEPT !.toGet = SubSeq(ids, n + 1, Len(ids)), !.seen = IF n = 0 THEN @ ELSE ids[n]]
        ELSE IF i = 0
        THEN [c EXCEPT !.toGet = Tail(ids), !.seen = ids[1]]
        ELSE [c EXCEPT !.toGet = SubSeq(@, 1, i) \o ids]

(* The list of a peer after a reply: the first, or one that extends the    *)
(* list, or replaces its end if the peer has switched forks.               *)
Extended(p, c, ids) ==
    LET n == SeenBefore(p, ids)
        i == SelectLastInSeq(c.toGet, LAMBDA b : b = ids[1])
    IN  IF ids = << >> THEN c
        ELSE IF c.toGet = << >>
        THEN [c EXCEPT !.toGet = SubSeq(ids, n + 1, Len(ids)), !.seen = IF n = 0 THEN @ ELSE ids[n]]
        ELSE IF i = 0
        THEN [c EXCEPT !.toGet = Tail(ids), !.seen = ids[1]]
        ELSE [c EXCEPT !.toGet = SubSeq(@, 1, i - 1) \o ids]

OnBlockIds(p) ==
    LET c == [Got(conn[p]) EXCEPT !.asked = None]
        m == Head(conn[p].in)
        new == [Extended(p, c, m.ids) EXCEPT !.unfetched = m.remaining]
        enough == IF m.remaining # 0 THEN Len(new.toGet) > MinPrefetch ELSE new.toGet # << >>
    IN  /\ conn[p].in # << >> /\ m.type = "ids"
        /\ \/ /\ conn[p].asked = None
              /\ Update(p, Got(conn[p]))
              /\ UNCHANGED <<active, toFetch, fetchDue, itemsDue>>
           \/ /\ conn[p].asked # None /\ ~ValidReply(m.ids, conn[p].asked)
              /\ Leave(conn, {p}, active, toFetch, fetchDue, itemsDue)
           \/ /\ conn[p].asked # None /\ ValidReply(m.ids, conn[p].asked) /\ UpToDate(c, m)
              /\ Update(p, [c EXCEPT !.weNeed = FALSE])
              /\ UNCHANGED <<active, toFetch, fetchDue, itemsDue>>
           \/ /\ conn[p].asked # None /\ ValidReply(m.ids, conn[p].asked) /\ ~UpToDate(c, m)
              /\ Update(p, IF enough THEN new ELSE FetchIds(new, TRUE))
              /\ fetchDue' = (fetchDue \/ enough)
              /\ UNCHANGED <<active, toFetch, itemsDue>>
        /\ UNCHANGED <<dbVars, pushVars, peerHead, others>>

OnFetchIdsOnly(p) ==
    LET m == Head(conn[p].in)
        c == [Got(conn[p]) EXCEPT !.peerNeeds = NeedsItems(BlockIds(head, m.synopsis), m.synopsis)]
    IN  /\ conn[p].in # << >> /\ m.type = "fetch_ids"
        /\ Update(p, c)
        /\ UNCHANGED <<dbVars, pushVars, peerHead, active, toFetch, fetchDue, itemsDue, others>>

(* A peer asks for our ids: it learns whether it lacks blocks, and we that *)
(* we lack the one it has last.                                            *)
OnFetchIds(p) ==
    LET m == Head(conn[p].in)
        c == [Got(conn[p]) EXCEPT !.peerNeeds = NeedsItems(BlockIds(head, m.synopsis), m.synopsis)]
    IN  /\ conn[p].in # << >> /\ m.type = "fetch_ids"
        /\ Update(p, IF ~c.weNeed /\ m.synopsis # << >> /\ Last(m.synopsis) \notin known
                     THEN StartSync(c, TRUE) ELSE c)
        /\ UNCHANGED <<dbVars, pushVars, peerHead, active, toFetch, fetchDue, itemsDue, others>>

-----------------------------------------------------------------------------
(* Fetching and receiving blocks *)

(* What the loop over a peer's list makes of the next block. *)
Request(items, b) ==
    IF b \in received \cup active \cup ToSet(items) \/ Len(items) >= PerPeer
    THEN items ELSE Append(items, b)

ToRequest(c) == FoldLeft(Request, << >>, c.toGet)

CanRequest(p) == conn[p].weNeed /\ Idle(conn[p]) /\ ToRequest(conn[p]) # << >>

(* One turn of fetch_sync_items_loop, one peer at a time. *)
FetchSyncItems ==
    /\ fetchDue /\ turn \in {"none", "sync items"}
    /\ \/ \E p \in Up :
            LET items == ToRequest(conn[p])
            IN  /\ CanRequest(p)
                /\ Update(p, Send([conn[p] EXCEPT !.requested = ToSet(items)],
                                  [type |-> "fetch_items", items |-> items]))
                /\ active' = active \cup ToSet(items)
                /\ turn' = "sync items"
                /\ UNCHANGED fetchDue
       \/ /\ \A p \in Up : ~CanRequest(p)
          /\ fetchDue' = FALSE
          /\ turn' = "none"
          /\ UNCHANGED <<conn, active>>
    /\ UNCHANGED <<dbVars, pushVars, peerHead, toFetch, itemsDue, drops, reach>>

(* One turn of fetch_items_loop, one block at a time: the first on the     *)
(* list that an idle peer has.                                             *)
FetchItems ==
    LET OfferedBy(p, b) == Idle(conn[p]) /\ b \in conn[p].theirs
        i == SelectInSeq(toFetch, LAMBDA b : \E p \in Up : OfferedBy(p, b))
        b == toFetch[i]
    IN  /\ itemsDue /\ turn \in {"none", "items"}
        /\ \/ \E p \in Up :
                /\ i # 0 /\ OfferedBy(p, b)
                /\ Update(p, Send([conn[p] EXCEPT !.wanted = {b}],
                                  [type |-> "fetch_items", items |-> <<b>>]))
                /\ toFetch' = RemoveAt(toFetch, i)
                /\ turn' = "items"
                /\ UNCHANGED itemsDue
           \/ /\ i = 0
              /\ itemsDue' = FALSE
              /\ turn' = "none"
              /\ UNCHANGED <<conn, toFetch>>
        /\ UNCHANGED <<dbVars, pushVars, peerHead, active, fetchDue, drops, reach>>

OnInventory(p) ==
    LET m == Head(conn[p].in)
        b == m.block
        new == ~Contains(toFetch, b) /\ \A q \in Up : b \notin conn[q].wanted
    IN  /\ conn[p].in # << >> /\ m.type = "inventory"
        /\ IF \E q \in Up : b \in conn[q].ours
           THEN Update(p, Got(conn[p])) /\ UNCHANGED <<toFetch, itemsDue>>
           ELSE /\ Update(p, [Got(conn[p]) EXCEPT !.theirs = @ \cup {b}])
                /\ toFetch' = IF new THEN Append(toFetch, b) ELSE toFetch
                /\ itemsDue' = (itemsDue \/ new)
        /\ UNCHANGED <<dbVars, pushVars, peerHead, active, fetchDue, others>>

(* A block that was asked for while synchronizing: it waits for its turn. *)
OnSyncBlock(p) ==
    LET b == Head(conn[p].in).block
        c == [Got(conn[p]) EXCEPT !.requested = @ \ {b}]
        more == c.unfetched > 0 /\ Len(c.toGet) < MinPrefetch
    IN  /\ conn[p].in # << >> /\ Head(conn[p].in).type = "block"
        /\ b \notin conn[p].wanted /\ b \in conn[p].requested
        /\ active' = active \ {b}
        /\ received' = received \cup {b}
        /\ backlogDue' = TRUE
        /\ Update(p, IF Idle(c) /\ more THEN FetchIds(c, TRUE) ELSE c)
        /\ fetchDue' = (fetchDue \/ (Idle(c) /\ ~more))
        /\ UNCHANGED <<dbVars, handling, recent, peerHead, toFetch, itemsDue, others>>

(* A block that was asked for after it had been advertised: it is pushed   *)
(* at once, and advertised to the peers that are in sync.                  *)
OnNormalBlock(p) ==
    LET b == Head(conn[p].in).block
        c == [Got(conn[p]) EXCEPT !.wanted = @ \ {b}]
        cn == [conn EXCEPT ![p] = c]
        ok == b \in recent \/ PushResult(b) = "ok"
        told == [q \in Peers |->
                    IF b \in cn[q].theirs THEN [cn[q] EXCEPT !.seen = b]
                    ELSE IF cn[q].up /\ ~cn[q].peerNeeds THEN [cn[q] EXCEPT !.ours = @ \cup {b}]
                    ELSE cn[q]]
        guilty == {p} \cup {q \in Up : cn[q].toGet # << >> /\ cn[q].toGet[1] = b}
    IN  /\ conn[p].in # << >> /\ Head(conn[p].in).type = "block" /\ b \in conn[p].wanted
        /\ \/ /\ ok
              /\ IF b \in recent THEN UNCHANGED dbVars ELSE Push(b)
              /\ recent' = recent \cup {b}
              /\ Leave(told, {}, active, toFetch, fetchDue, itemsDue \/ Idle(c))
           \/ /\ ~ok /\ PushResult(b) = "unlinkable"
              /\ Leave([cn EXCEPT ![p] = StartSync(c, TRUE)], {}, active, toFetch, fetchDue,
                       itemsDue \/ Idle(c))
              /\ UNCHANGED <<dbVars, recent>>
           \/ /\ ~ok /\ PushResult(b) # "unlinkable"
              /\ Leave(cn, guilty, active, toFetch, fetchDue, itemsDue)
              /\ UNCHANGED <<dbVars, recent>>
        /\ UNCHANGED <<received, handling, backlogDue, peerHead, others>>

-----------------------------------------------------------------------------
(* Pushing the blocks received *)

FrontsAnywhere == UNION {ToSet(conn[p].toGet) : p \in Up}

Fronts == {conn[p].toGet[1] : p \in {q \in Up : conn[q].toGet # << >>}}

PopFront(c, b) ==
    IF c.toGet # << >> /\ c.toGet[1] = b
    THEN [c EXCEPT !.toGet = Tail(@), !.processing = @ \cup {b}] ELSE c

EndBacklog(fetch) ==
    /\ backlogDue' = FALSE /\ turn' = "none"
    /\ fetchDue' = (fetchDue \/ fetch)

(* One round of the loop of process_backlog_of_sync_blocks: a block that   *)
(* is next for some peer goes to the application, unless it has been       *)
(* accepted by the other way.                                              *)
ProcessBacklog ==
    /\ backlogDue /\ turn \in {"none", "backlog"}
    /\ \/ /\ Len(handling) >= AtOnce
          /\ EndBacklog(turn = "backlog")
          /\ UNCHANGED <<conn, received, handling>>
       \/ /\ Len(handling) < AtOnce /\ received \cap Fronts = {}
          /\ EndBacklog(TRUE)
          /\ UNCHANGED <<conn, received, handling>>
       \/ \E b \in received \cap Fronts :
            /\ Len(handling) < AtOnce /\ b \notin recent
            /\ conn' = [p \in Peers |-> PopFront(conn[p], b)]
            /\ received' = received \ {b}
            /\ handling' = Append(handling, b)
            /\ turn' = "backlog"
            /\ UNCHANGED <<backlogDue, fetchDue>>
       \/ \E b \in received \cap Fronts :
            /\ Len(handling) < AtOnce /\ b \in recent
            /\ conn' = [p \in Peers |->
                          LET c == PopFront(conn[p], b)
                          IN  IF b \in c.processing
                              THEN FetchIfAllDone([c EXCEPT !.processing = @ \ {b}]) ELSE c]
            /\ EndBacklog(TRUE)
            /\ UNCHANGED <<received, handling>>
    /\ UNCHANGED <<dbVars, peerHead, active, recent, toFetch, itemsDue, drops, reach>>

(* The application has pushed the first block it was given. *)
Accepted(c, b) ==
    IF ~c.up THEN c
    ELSE IF c.toGet = << >> /\ c.processing = {}
    THEN IF ~c.peerNeeds /\ ~c.weNeed THEN StartSync(c, FALSE) ELSE c
    ELSE IF b \in c.processing
    THEN FetchIfAllDone([c EXCEPT !.processing = @ \ {b}, !.seen = b])
    ELSE c

FinishPush ==
    LET b == Head(handling)
        guilty == {p \in Up : b \in conn[p].processing}
    IN  /\ Free /\ handling # << >>
        /\ handling' = Tail(handling)
        /\ backlogDue' = TRUE
        /\ \/ /\ PushResult(b) = "ok"
              /\ Push(b)
              /\ recent' = recent \cup {b}
              /\ conn' = [p \in Peers |-> Accepted(conn[p], b)]
              /\ UNCHANGED <<active, toFetch, fetchDue, itemsDue>>
           \/ /\ PushResult(b) # "ok"
              /\ Leave(conn, guilty, active, toFetch, fetchDue, itemsDue)
              /\ UNCHANGED <<dbVars, recent>>
        /\ UNCHANGED <<received, peerHead, others>>

-----------------------------------------------------------------------------
(* The peers' own chains *)

(* The peer produces or receives the next block, and advertises it if it   *)
(* takes us to be in sync.                                                 *)
PeerGrows(p, b) ==
    /\ Free /\ p \in DOMAIN reach /\ b \in reach[p] /\ Parent[b] = peerHead[p]
    /\ peerHead' = [peerHead EXCEPT ![p] = b]
    /\ Update(p, IF conn[p].up /\ ~conn[p].serves
                 THEN [conn[p] EXCEPT !.in = Append(@, [type |-> "inventory", block |-> b])]
                 ELSE conn[p])
    /\ UNCHANGED <<dbVars, pushVars, active, toFetch, fetchDue, itemsDue, others>>

(* The peer synchronizes with someone else, and then asks us again unless  *)
(* we still have to ask it.                                                *)
PeerSwitches(p, b) ==
    /\ Free /\ p \in DOMAIN reach /\ b \in reach[p] /\ Num(b) > Num(peerHead[p])
    /\ peerHead' = [peerHead EXCEPT ![p] = b]
    /\ Update(p, IF conn[p].up /\ ~conn[p].serves
                 THEN [conn[p] EXCEPT !.in = Append(@, Ask(b))] ELSE conn[p])
    /\ UNCHANGED <<dbVars, pushVars, active, toFetch, fetchDue, itemsDue, others>>

(* A peer that lacks blocks of ours gets them and asks again. *)
PeerFollows(p) ==
    LET h == IF Num(head) > Num(peerHead[p]) THEN head ELSE peerHead[p]
        asks == {i \in DOMAIN conn[p].in : conn[p].in[i].type = "fetch_ids"}
    IN  /\ Free /\ conn[p].up /\ conn[p].peerNeeds /\ asks = {}
        /\ peerHead' = [peerHead EXCEPT ![p] = h]
        /\ Update(p, [conn[p] EXCEPT !.in = Append(@, Ask(h))])
        /\ UNCHANGED <<dbVars, pushVars, active, toFetch, fetchDue, itemsDue, others>>

OnMessage(p) ==
    /\ Free /\ ~Handling(conn[p])
    /\ \/ OnBlockIds(p) \/ OnFetchIds(p) \/ OnInventory(p)
       \/ OnSyncBlock(p) \/ OnNormalBlock(p)

Next ==
    \/ \E p \in Peers :
          \/ Connect(p) \/ Drop(p) \/ TerminateStalled(p)
          \/ SendRequest(p) \/ PeerAnswers(p) \/ OnMessage(p) \/ PeerFollows(p)
          \/ \E b \in Blocks : PeerGrows(p, b) \/ PeerSwitches(p, b)
    \/ FetchSyncItems \/ FetchItems \/ ProcessBacklog \/ FinishPush

Spec == Init /\ [][Next]_vars

-----------------------------------------------------------------------------
(* Properties *)

BlockLists == Seq(Blocks)
Requests == [ref : Blocks \cup {Genesis}, ids : BlockLists, here : BOOLEAN]
PeerRecordOK(c) ==
    /\ c.up \in BOOLEAN /\ c.weNeed \in BOOLEAN /\ c.peerNeeds \in BOOLEAN /\ c.serves \in BOOLEAN
    /\ c.toGet \in BlockLists /\ IsInjective(c.toGet)
    /\ c.processing \subseteq Blocks /\ c.unfetched \in Nat
    /\ c.seen \in Blocks \cup {Genesis}
    /\ c.asked = None \/ c.asked \in BlockLists
    /\ {c.requested, c.wanted, c.theirs, c.ours} \subseteq SUBSET Blocks
    /\ c.composing \in Seq(Requests)

TypeOK ==
    /\ head \in Blocks \cup {Genesis} /\ known \subseteq Blocks
    /\ peerHead \in [Peers -> Blocks \cup {Genesis}]
    /\ \A p \in Peers : PeerRecordOK(conn[p])
    /\ active \subseteq Blocks /\ received \subseteq Blocks /\ recent \subseteq Blocks \cup {Genesis}
    /\ handling \in BlockLists /\ toFetch \in BlockLists
    /\ {fetchDue, itemsDue, backlogDue} \subseteq BOOLEAN
    /\ turn \in {"none", "sync items", "items", "backlog"} /\ drops \in Nat

(* The branch of b leaves the chain below the blocks that can be undone. *)
OutOfReach(b) == CommonNum(b, head) < NonUndoable(head)

(* Every block on its way to the application follows one it has or one     *)
(* ahead of it, however the replies and blocks of several peers arrive     *)
(* (process_backlog_of_sync_blocks), unless the branch has gone out of     *)
(* reach meanwhile.                                                        *)
PushedInOrder ==
    \A i \in DOMAIN handling :
        \/ Parent[handling[i]] \in known \cup {Genesis} \cup {handling[j] : j \in 1..(i - 1)}
        \/ OutOfReach(handling[i])

(* A block counts as requested (_active_sync_requests) exactly while one   *)
(* connected peer owes it, and no block arrives that was not asked for,    *)
(* for which process_block_message would disconnect the peer.              *)
RequestsAreOwed ==
    /\ \A p \in Peers : \A i \in DOMAIN conn[p].in :
          conn[p].in[i].type = "block" =>
              conn[p].in[i].block \in conn[p].requested \cup conn[p].wanted
    /\ active = UNION {conn[p].requested : p \in Peers}
    /\ \A p, q \in Peers : p # q => conn[p].requested \cap conn[q].requested = {}

(* Nothing is under way. *)
Quiet ==
    /\ \A p \in Up : conn[p].in = << >> /\ conn[p].out = << >> /\ conn[p].composing = << >>
    /\ handling = << >> /\ ~backlogDue /\ ~fetchDue /\ ~itemsDue

(* A node never takes itself to be in sync with a peer that has a longer   *)
(* chain it could switch to: when it has come to rest it has caught up, or *)
(* some blocks of the peer stay on a list of what is to be fetched         *)
(* (on_blockchain_item_ids_inventory_message_received,                     *)
(* on_item_ids_inventory_message).                                         *)
KnowsWhatItLacks ==
    Quiet => \A p \in Up : \/ Num(head) >= Num(peerHead[p])
                           \/ OutOfReach(peerHead[p])
                           \/ conn[p].toGet # << >>
                           \/ ToSet(toFetch) \cap ToSet(Chain(peerHead[p])) # {}

(* terminate_inactive_connections_loop on a peer that has no request       *)
(* outstanding and no items left on its list, while we need items of it:   *)
(* "This is a state we should never get into in the first place".          *)
NeverStalled == \A p \in Peers : ~Stalled(conn[p])
=============================================================================
