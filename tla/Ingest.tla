------------------------------- MODULE Ingest -------------------------------
(* How material becomes posts: the RSS and the web collector poll their    *)
(* sources (rss_collector.go, web_collector.go), the Telegram collector is *)
(* pushed one message at a time (telegram_collector.go) and clients call   *)
(* CreatePost; all of them end in PostUsecase.Create, which writes the     *)
(* post and, for a new post of a self-contained source, the event of the   *)
(* summary outbox.  Sources and posts are added and deleted meanwhile, any *)
(* call may fail and the process may restart.                              *)
EXTENDS Integers, Sequences, FiniteSets

CONSTANTS
    Items,        \* pieces of material: one external id each
    Home,         \* the source of each item
    Media,        \* items without text
    Refused,      \* items the database refuses: an id the unique index cannot
                  \* hold, text in another encoding
    Type,         \* sources, numbered in the order of their creation, to types
    Broken,       \* sources whose fetch fails every time
    Later,        \* sources that do not exist yet at the start
    Handlers,     \* messages of the Telegram session handled at once
    Clients,      \* concurrent callers of CreatePost
    FeedSize,     \* how many entries a feed offers
    PageSize,     \* collectorPageSize
    MaxFaults, MaxEdits  \* bounds: faults; sources and posts added or deleted

Sources == DOMAIN Type
Collectors == {"rss", "html"}
Procs == Collectors \cup Handlers \cup Clients

ASSUME SourcesAssumption ==
    /\ IsFiniteSet(Sources) /\ Sources \subseteq Nat \ {0}
    /\ Broken \subseteq Sources /\ Later \subseteq Sources
    /\ Type \in [Sources -> {"rss", "html", "telegram_channel", "telegram_group"}]
ASSUME ItemsAssumption ==
    /\ Home \in [Items -> Sources]
    /\ Media \subseteq Items /\ Refused \subseteq Items
ASSUME ProcsAssumption ==
    /\ Handlers \cap Clients = {} /\ Collectors \cap (Handlers \cup Clients) = {}
ASSUME BoundsAssumption ==
    /\ FeedSize \in Nat \ {0} /\ PageSize \in Nat \ {0}
    /\ MaxFaults \in Nat /\ MaxEdits \in Nat

VARIABLES
    source,     \* the row of each source: "absent", "present" or "deleted"
    post,       \* the items that have a row in posts
    announced,  \* how many summarize_post events were written for an item
    written,    \* history: how many rows were inserted for an item
    published,  \* the items that have appeared
    offer,      \* what the feed or the page of a source offers, newest first
    session,    \* the Telegram session runs
    inbox,      \* messages it has received
    excused,    \* history: messages that met a fault or came before their source
    run,        \* what each process does
    left        \* what the bounds still allow

tables == <<source, post, announced, written>>
world == <<published, offer, session, inbox, excused>>
vars == <<tables, world, run, left>>

Rest == [pc |-> "rest", todo |-> {}, token |-> 0, source |-> 0, items |-> <<>>, retried |-> FALSE]

Telegram == {i \in Items : Type[Home[i]] \in {"telegram_channel", "telegram_group"}}
SelfContained(s) == Type[s] # "telegram_group"
Present(s) == s \in Sources /\ source[s] = "present"
HasText(i) == i \notin Media
Spend(what) == left[what] > 0 /\ left' = [left EXCEPT ![what] = @ - 1]
Held(p) == {run[p].items[k] : k \in DOMAIN run[p].items} \cap Telegram

-----------------------------------------------------------------------------
(* The tick of a collector                                                 *)

(* List(token): the next page of the sources of the type, oldest first.    *)
Listed(c, token) == {s \in Sources : Present(s) /\ Type[s] = c /\ s > token}
Page(c, token) ==
    {s \in Listed(c, token) : Cardinality({t \in Listed(c, token) : t < s}) < PageSize}
Oldest(S) == CHOOSE s \in S : \A t \in S : s <= t
Newest(S) == CHOOSE s \in S : \A t \in S : t <= s

(* On to the next source of the page, to the next page, or to rest until   *)
(* the next interval.                                                      *)
Proceed(r) ==
    IF r.todo # {}
    THEN [r EXCEPT !.pc = "fetch", !.source = Oldest(r.todo), !.todo = @ \ {Oldest(@)},
                   !.items = <<>>, !.retried = FALSE]
    ELSE IF r.token # 0 THEN [Rest EXCEPT !.pc = "list", !.token = r.token]
    ELSE Rest

(* Mutant: an error of one source ends the tick.                           *)
AbortTick(p) == Rest

(* An error ends the batch: it is logged and the collector goes on; a page *)
(* is tried once more; a message is dropped and a client gets the error.   *)
Abort(p) ==
    IF p \notin Collectors THEN Rest
    ELSE IF p = "html" /\ ~run[p].retried
    THEN [run[p] EXCEPT !.pc = "fetch", !.items = <<>>, !.retried = TRUE]
    ELSE Proceed(run[p])

(* Mutant: the loop runs once more after the last item.                    *)
ContinuePastEnd(p) ==
    IF run[p].items # <<>> THEN [run[p] EXCEPT !.pc = "get", !.items = Tail(@)]
    ELSE IF p \in Collectors THEN Proceed(run[p])
    ELSE Rest

(* The loop of CollectItems: the next item, or the end of the batch.       *)
Continue(p) ==
    IF Len(run[p].items) > 1 THEN [run[p] EXCEPT !.pc = "get", !.items = Tail(@)]
    ELSE IF p \in Collectors THEN Proceed(run[p])
    ELSE Rest

Set(p, r) == run' = [run EXCEPT ![p] = r]

Tick(c) ==
    /\ run[c].pc = "rest"
    /\ Set(c, [Rest EXCEPT !.pc = "list"])
    /\ UNCHANGED <<tables, world, left>>

ListSources(c) ==
    /\ run[c].pc = "list"
    /\ LET page == Page(c, run[c].token)
           more == page # Listed(c, run[c].token)
       IN Set(c, Proceed([Rest EXCEPT !.todo = page,
                                      !.token = IF more THEN Newest(page) ELSE 0]))
    /\ UNCHANGED <<tables, world, left>>

ListFails(c) ==
    /\ run[c].pc = "list" /\ Spend("faults")
    /\ Set(c, Rest)
    /\ UNCHANGED <<tables, world>>

(* The items with text, in their order.                                    *)
FilterTextItems(items) ==
    LET out[k \in 0..Len(items)] ==
            IF k = 0 THEN <<>>
            ELSE IF HasText(items[k]) THEN Append(out[k - 1], items[k])
            ELSE out[k - 1]
    IN out[Len(items)]

(* All a feed offers, whatever is known of it.  A page without text is an  *)
(* error.                                                                  *)
Fetch(c) ==
    /\ run[c].pc = "fetch" /\ run[c].source \notin Broken
    /\ LET texts == FilterTextItems(offer[run[c].source])
       IN Set(c, IF texts # <<>> THEN [run[c] EXCEPT !.pc = "get", !.items = texts]
                 ELSE IF c = "html" THEN Abort(c)
                 ELSE Proceed(run[c]))
    /\ UNCHANGED <<tables, world, left>>

FetchBroken(c) ==
    /\ run[c].pc = "fetch" /\ run[c].source \in Broken
    /\ Set(c, Abort(c))
    /\ UNCHANGED <<tables, world, left>>

FetchFails(c) ==
    /\ run[c].pc = "fetch" /\ Spend("faults")
    /\ Set(c, Abort(c))
    /\ UNCHANGED <<tables, world>>

-----------------------------------------------------------------------------
(* A message of the Telegram session                                       *)

Take(h, i) ==
    /\ run[h].pc = "rest" /\ i \in inbox
    /\ inbox' = inbox \ {i}
    /\ Set(h, [Rest EXCEPT !.pc = "resolve", !.items = <<i>>])
    /\ UNCHANGED <<tables, published, offer, session, excused, left>>

(* Mutant: only channels are listed.                                       *)
ResolveChannel(h) ==
    /\ run[h].pc = "resolve"
    /\ LET i == Head(run[h].items)
       IN Set(h, IF Present(Home[i]) /\ HasText(i) /\ Type[Home[i]] = "telegram_channel"
                 THEN [run[h] EXCEPT !.pc = "get", !.source = Home[i]] ELSE Rest)
    /\ UNCHANGED <<tables, world, left>>

(* resolve, then FilterTextItems: a message of an unknown chat, or without *)
(* text, is ignored.                                                       *)
Resolve(h) ==
    /\ run[h].pc = "resolve"
    /\ LET i == Head(run[h].items)
       IN Set(h, IF Present(Home[i]) /\ HasText(i)
                 THEN [run[h] EXCEPT !.pc = "get", !.source = Home[i]] ELSE Rest)
    /\ UNCHANGED <<tables, world, left>>

-----------------------------------------------------------------------------
(* PostUsecase.Create                                                      *)

(* A client asks for a post: Create refuses what has no text.              *)
CreatePost(c, i) ==
    /\ run[c].pc = "rest" /\ HasText(i)
    /\ Set(c, [Rest EXCEPT !.pc = "get", !.source = Home[i], !.items = <<i>>])
    /\ UNCHANGED <<tables, world, left>>

(* sourceRepo.Get, outside the transaction: ErrSourceNotFound is an error  *)
(* that CollectItems does not skip.                                        *)
GetSource(p) ==
    /\ run[p].pc = "get"
    /\ Set(p, IF Present(run[p].source) THEN [run[p] EXCEPT !.pc = "save"] ELSE Abort(p))
    /\ UNCHANGED <<tables, world, left>>

(* Mutant: the event is written whether or not the row is new.             *)
InsertAndAnnounce(i) ==
    /\ post' = post \cup {i}
    /\ written' = [written EXCEPT ![i] = IF i \notin post THEN @ + 1 ELSE @]
    /\ announced' = [announced EXCEPT ![i] = IF SelfContained(Home[i]) THEN @ + 1 ELSE @]

(* The transaction: INSERT ... ON CONFLICT DO NOTHING, and the event when  *)
(* this call created the row.                                              *)
Insert(i) ==
    LET created == i \notin post IN
    /\ post' = post \cup {i}
    /\ written' = [written EXCEPT ![i] = IF created THEN @ + 1 ELSE @]
    /\ announced' = [announced EXCEPT ![i] =
            IF SelfContained(Home[i]) /\ created THEN @ + 1 ELSE @]

SavePost(p) ==
    /\ run[p].pc = "save"
    /\ LET i == Head(run[p].items) IN
        /\ Present(Home[i]) /\ i \notin Refused
        /\ Insert(i)
        /\ Set(p, IF i \in post THEN [run[p] EXCEPT !.pc = "reread"] ELSE Continue(p))
    /\ UNCHANGED <<source, world, left>>

(* After a conflict nothing is locked: the row may be gone when it is read *)
(* again, and ErrPostNotFound is an error that CollectItems does not skip. *)
Reread(p) ==
    /\ run[p].pc = "reread"
    /\ Set(p, IF Head(run[p].items) \in post THEN Continue(p) ELSE Abort(p))
    /\ UNCHANGED <<tables, world, left>>

(* 23503: the source was deleted since it was read; the item is skipped.   *)
SaveOrphan(p) ==
    /\ run[p].pc = "save" /\ ~Present(run[p].source)
    /\ Set(p, Continue(p))
    /\ UNCHANGED <<tables, world, left>>

SaveRefused(p) ==
    /\ run[p].pc = "save" /\ Present(run[p].source)
    /\ Head(run[p].items) \in Refused
    /\ Set(p, Abort(p))
    /\ UNCHANGED <<tables, world, left>>

(* A query fails, or the commit does: nothing is written.                  *)
CreateFails(p) ==
    /\ run[p].pc \in {"resolve", "get", "save", "reread"} /\ Spend("faults")
    /\ excused' = excused \cup IF p \in Handlers THEN Held(p) ELSE {}
    /\ Set(p, Abort(p))
    /\ UNCHANGED <<tables, published, offer, session, inbox>>

-----------------------------------------------------------------------------
(* The rest of the world                                                   *)

(* An item appears.  A feed forgets its oldest entry, a page has one       *)
(* article, a message reaches the process if the session runs.             *)
Publish(i) ==
    /\ i \notin published
    /\ published' = published \cup {i}
    /\ IF i \in Telegram
       THEN /\ inbox' = IF session THEN inbox \cup {i} ELSE inbox
            /\ excused' = IF session /\ Present(Home[i]) THEN excused ELSE excused \cup {i}
            /\ offer' = offer
       ELSE /\ offer' = [offer EXCEPT ![Home[i]] =
                    SubSeq(<<i>> \o @, 1, IF Len(@) < FeedSize THEN Len(@) + 1 ELSE FeedSize)]
            /\ UNCHANGED <<inbox, excused>>
    /\ UNCHANGED <<tables, session, run, left>>

AddSource(s) ==
    /\ source[s] = "absent" /\ Spend("edits")
    /\ source' = [source EXCEPT ![s] = "present"]
    /\ UNCHANGED <<post, announced, written, world, run>>

(* ON DELETE RESTRICT: a source that has posts stays.                      *)
DeleteSource(s) ==
    /\ source[s] = "present" /\ Spend("edits")
    /\ \A i \in post : Home[i] # s
    /\ source' = [source EXCEPT ![s] = "deleted"]
    /\ UNCHANGED <<post, announced, written, world, run>>

DeletePost(i) ==
    /\ i \in post /\ Spend("edits")
    /\ post' = post \ {i}
    /\ UNCHANGED <<source, announced, written, world, run>>

(* Run of the session returns an error: nothing starts it again.           *)
SessionEnds ==
    /\ session /\ Spend("faults")
    /\ session' = FALSE
    /\ inbox' = {} /\ excused' = excused \cup inbox
    /\ UNCHANGED <<tables, published, offer, run>>

(* A crash and a start: the loops tick at once, the session is new and the *)
(* messages of the time between are not asked for.                         *)
Restart ==
    /\ Spend("faults")
    /\ run' = [p \in Procs |-> Rest]
    /\ session' = TRUE
    /\ inbox' = {} /\ excused' = excused \cup inbox \cup UNION {Held(p) : p \in Handlers}
    /\ UNCHANGED <<tables, published, offer>>

-----------------------------------------------------------------------------
Init ==
    /\ source = [s \in Sources |-> IF s \in Later THEN "absent" ELSE "present"]
    /\ post = {} /\ published = {} /\ inbox = {} /\ excused = {}
    /\ announced = [i \in Items |-> 0] /\ written = [i \in Items |-> 0]
    /\ offer = [s \in Sources |-> <<>>]
    /\ session = TRUE
    /\ run = [p \in Procs |-> Rest]
    /\ left = [faults |-> MaxFaults, edits |-> MaxEdits]

Create(p) == GetSource(p) \/ SavePost(p) \/ Reread(p) \/ SaveOrphan(p) \/ SaveRefused(p)
Collect(c) == Tick(c) \/ ListSources(c) \/ Fetch(c) \/ FetchBroken(c) \/ Create(c)
Handle(h) == Resolve(h) \/ Create(h) \/ \E i \in inbox : Take(h, i)

Next ==
    \/ \E c \in Collectors : Collect(c) \/ ListFails(c) \/ FetchFails(c)
    \/ \E h \in Handlers : Handle(h)
    \/ \E c \in Clients : Create(c) \/ \E i \in Items : CreatePost(c, i)
    \/ \E p \in Procs : CreateFails(p)
    \/ \E i \in Items : Publish(i) \/ DeletePost(i)
    \/ \E s \in Sources : AddSource(s) \/ DeleteSource(s)
    \/ SessionEnds \/ Restart

(* The loops of the collectors tick at every interval and go on until they *)
(* are stopped; the session hands over every message it has received.      *)
Fairness ==
    /\ \A c \in Collectors : WF_vars(Collect(c))
    /\ \A h \in Handlers : WF_vars(Handle(h))

Spec == Init /\ [][Next]_vars /\ Fairness

-----------------------------------------------------------------------------
(* Properties                                                              *)

(* Every variable has the shape the code gives it; a process that writes a *)
(* post has an item with text of the source it works on.                   *)
Runs ==
    [pc: {"rest", "list", "fetch", "resolve", "get", "save", "reread"}, todo: SUBSET Sources,
     token: Sources \cup {0}, source: Sources \cup {0}, items: Seq(Items), retried: BOOLEAN]

TypeOK ==
    /\ source \in [Sources -> {"absent", "present", "deleted"}]
    /\ post \subseteq Items /\ published \subseteq Items
    /\ inbox \subseteq Telegram /\ excused \subseteq Telegram
    /\ announced \in [Items -> Nat] /\ written \in [Items -> Nat]
    /\ offer \in [Sources -> Seq(Items)]
    /\ session \in BOOLEAN
    /\ run \in [Procs -> Runs]
    /\ left \in [faults: 0..MaxFaults, edits: 0..MaxEdits]
    /\ \A p \in Procs : run[p].pc \in {"get", "save", "reread"} =>
        /\ run[p].items # <<>> /\ run[p].source \in Sources
        /\ \A k \in DOMAIN run[p].items :
            HasText(run[p].items[k]) /\ Home[run[p].items[k]] = run[p].source

(* The outbox follows the table: for a self-contained source there is one  *)
(* event per row ever inserted, and none for a cumulative one, however     *)
(* often an item is collected again, by whom and with whichever failures   *)
(* and restarts between (Create, Save).  A second row needs a deletion.    *)
OneEventPerPost ==
    \A i \in Items :
        /\ announced[i] = IF SelfContained(Home[i]) THEN written[i] ELSE 0
        /\ written[i] <= (IF i \in post THEN 1 ELSE 0) + (MaxEdits - left.edits)

(* What a feed or a page keeps offering is stored in the end, and stored   *)
(* again after a deletion, whatever fails a finite number of times and     *)
(* although other sources fail every time (collectAllOfType, CollectItems, *)
(* collectWithRetry).  What stands behind an item that the database        *)
(* refuses is not promised: the error ends the batch of that source.       *)
Offered(i) ==
    LET s == Home[i] IN
    /\ Present(s) /\ s \notin Broken /\ HasText(i)
    /\ \E k \in DOMAIN offer[s] :
        /\ offer[s][k] = i
        /\ \A j \in 1..k : offer[s][j] \notin Refused

OfferedIsCollected ==
    \A i \in Items \ Telegram : <>[]Offered(i) => []<>(i \in post)

(* A message the session received becomes a post unless a fault met it:    *)
(* messages are handled once, so one failed query, a restart or the end of *)
(* the session loses them (handle).                                        *)
MessagesAreKept ==
    \A i \in Telegram \ (Media \cup Refused) :
        (i \in inbox) ~> (i \in post \cup excused \/ source[Home[i]] = "deleted")
=============================================================================
