-------------------------------- MODULE Feed --------------------------------
(* The ranked feed: the query over scores and reactions                    *)
(* (scoreRepo.ListRanked), the reactions (reactionRepo.Upsert) and the     *)
(* page that shows them (FeedView.tsx).  The page talks to the server with *)
(* calls that overlap: a call waits, is served (it reads or writes the     *)
(* database) and is answered, or it fails before or after it was served;   *)
(* answers arrive in any order.  Rows of the query are the scored posts    *)
(* and the scored digests under one key, their id.                         *)
EXTENDS Integers, Sequences, FiniteSets

CONSTANTS
    Posts, Digests,  \* the ids of posts and of digests, ordered as uuids are
    Scores,          \* the scores there can be, on an integer scale
    LikeBoost,       \* 0.1 on that scale
    Filters,         \* [min: threshold, period: the ids published in it]
    PageSize,        \* the page asked for: at least 1 after the clamping
    LoadCalls,       \* the calls of the feed that can be in flight at once
    ReactCalls,      \* the same for reactions
    MaxScorings,     \* bound: the scores stored while the page is open
    MaxClicks,       \* bound: the reactions sent
    MaxFaults,       \* bound: the calls that fail
    None

ASSUME IdsAssumption ==
    Posts \subseteq Nat /\ Digests \subseteq Nat /\ Posts \cap Digests = {}
ASSUME ScoresAssumption == Scores \subseteq Nat /\ LikeBoost \in Nat
ASSUME FiltersAssumption ==
    Filters # {} /\ Filters \subseteq [min: Nat, period: SUBSET (Posts \cup Digests)]
ASSUME PageAssumption == PageSize \in Nat \ {0}
ASSUME BoundsAssumption ==
    MaxScorings \in Nat /\ MaxClicks \in Nat /\ MaxFaults \in Nat
ASSUME NoneAssumption == None \notin Scores \cup [value: Nat, id: Nat]

VARIABLES
    value,    \* scores: the score of each post and digest, None before the first
    signal,   \* post_reactions: "like", "dislike" or "" for no row
    filter,   \* the threshold and the period selected on the page
    items,    \* the list shown, in its order: ids with the reaction shown
    token,    \* nextToken, None at the end of the feed
    loading,  \* "Load more" is disabled
    load,     \* the calls of the feed in flight
    react,    \* the reactions in flight
    since,    \* history, since the list was last asked for: see NewSince
    muddled,  \* history: posts whose reaction met another call, or failed
    left      \* what the bounds still allow

vars == <<value, signal, filter, items, token, loading, load, react, since, muddled, left>>
database == <<value, signal>>
list == <<items, token>>

Items == Posts \cup Digests
Signals == {"like", "dislike"}
Tokens == [value: Scores, id: Items] \cup {None}
Shown == [id: Items, reaction: Signals \cup {""}]
IdleCall == [state |-> "idle"]
InFlight(calls) == {c \in DOMAIN calls : calls[c].state # "idle"}
Spend(what) == left[what] > 0 /\ left' = [left EXCEPT ![what] = @ - 1]
Reacting(p) == \E c \in InFlight(react) : react[c].post = p

-----------------------------------------------------------------------------
(* ListRanked                                                              *)

(* Mutant: the reaction of a digest is left NULL.                          *)
ReactionOrNull(i) == IF i \in Posts THEN signal[i] ELSE None

Reaction(i) == IF i \in Posts THEN signal[i] ELSE ""

EffectiveValue(i) == value[i] + IF Reaction(i) = "like" THEN LikeBoost ELSE 0

(* The rows a filter selects: scored, not disliked, above the threshold    *)
(* and published in the period.                                            *)
Selected(f) ==
    {i \in f.period : /\ value[i] # None /\ value[i] >= f.min
                      /\ Reaction(i) # "dislike"}

(* Mutants: the cursor row comes again; ties of the cursor row are lost.   *)
AfterOrAt(t, i) == value[i] < t.value \/ (value[i] = t.value /\ i >= t.id)
AfterByValue(t, i) == value[i] < t.value

(* The keyset condition: strictly after the cursor row.                    *)
After(t, i) == value[i] < t.value \/ (value[i] = t.value /\ i > t.id)

Rows(f, t) == {i \in Selected(f) : t = None \/ After(t, i)}

(* ORDER BY effective_value DESC, id ASC.                                  *)
Ahead(i, j) ==
    \/ EffectiveValue(i) > EffectiveValue(j)
    \/ EffectiveValue(i) = EffectiveValue(j) /\ i < j

(* The first rows in that order, at most PageSize of them: all that are    *)
(* left out come after a full page.                                        *)
IsPage(s, rows) ==
    /\ \A a, b \in DOMAIN s : a < b => Ahead(s[a], s[b])
    /\ \A i \in rows : \/ \E a \in DOMAIN s : s[a] = i
                       \/ Len(s) = PageSize /\ \A a \in DOMAIN s : Ahead(s[a], i)

Pages(rows) == {s \in UNION {[1..n -> rows] : n \in 0..PageSize} : IsPage(s, rows)}

(* The cursor is cut from the last row returned, when there is one more.   *)
NextToken(s, rows) ==
    IF \A i \in rows : \E a \in DOMAIN s : s[a] = i THEN None
    ELSE [value |-> value[s[Len(s)]], id |-> s[Len(s)]]

(* The item of a row carries the stored reaction.                          *)
Cards(s) == [a \in DOMAIN s |-> [id |-> s[a], reaction |-> Reaction(s[a])]]

-----------------------------------------------------------------------------
(* History: whether the list was asked for with no other call of the feed  *)
(* in flight and none joined since (alone), whether a like was stored then *)
(* or has been stored since (likes), and which rows were scored since.     *)

Liked == \E p \in Posts : signal[p] = "like"

NewSince(t) ==
    IF InFlight(load) # {} THEN [since EXCEPT !.alone = FALSE]
    ELSE IF t = None THEN
        [alone |-> TRUE, likes |-> IF Liked THEN "before" ELSE "none", moved |-> {}]
    ELSE since

-----------------------------------------------------------------------------
(* The page                                                                *)

(* load(token): the filter is the one of the render that made the closure. *)
Ask(c, f, t) ==
    /\ load[c].state = "idle"
    /\ filter' = f
    /\ load' = [load EXCEPT ![c] =
            [state |-> "waiting", filter |-> f, token |-> t, page |-> <<>>, next |-> None]]
    /\ loading' = TRUE
    /\ since' = NewSince(t)
    /\ muddled' = muddled \cup {react[r].post : r \in InFlight(react)}
    /\ UNCHANGED <<database, list, react, left>>

Refresh(c) == Ask(c, filter, None)

(* A filter changes: the effect of the page loads the list anew.           *)
ChooseFilter(c, f) == f # filter /\ Ask(c, f, None)

LoadMore(c) == token # None /\ ~loading /\ Ask(c, filter, token)

(* An answer replaces the list, or is appended when the call had a token.  *)
Answer(c) ==
    /\ load[c].state = "served"
    /\ items' = IF load[c].token = None THEN load[c].page
                ELSE items \o load[c].page
    /\ token' = load[c].next
    /\ loading' = FALSE
    /\ load' = [load EXCEPT ![c] = IdleCall]
    /\ UNCHANGED <<database, filter, react, since, muddled, left>>

(* The list and the token stay, even those of another filter.              *)
LoadFails(c) ==
    /\ load[c].state # "idle" /\ Spend("faults")
    /\ loading' = FALSE
    /\ load' = [load EXCEPT ![c] = IdleCall]
    /\ since' = IF load[c].token = None THEN [since EXCEPT !.alone = FALSE] ELSE since
    /\ UNCHANGED <<database, filter, list, react, muddled>>

(* setItems: every card of a post gets the mark, or loses it when it has   *)
(* it already.                                                             *)
Marked(p, mark) ==
    [k \in DOMAIN items |->
        IF items[k].id = p THEN [items[k] EXCEPT !.reaction = IF @ = mark THEN "" ELSE mark]
        ELSE items[k]]

(* handleReact: the mark is set at once, or cleared when it was set; the   *)
(* signal is sent in both cases.  Cards marked "dislike" are not rendered  *)
(* and cards of digests have no buttons.                                   *)
React(c, p, s) ==
    /\ react[c].state = "idle" /\ Spend("clicks")
    /\ \E k \in DOMAIN items : items[k].id = p /\ items[k].reaction # "dislike"
    /\ items' = Marked(p, s)
    /\ react' = [react EXCEPT ![c] = [state |-> "waiting", post |-> p, signal |-> s]]
    /\ muddled' = IF Reacting(p) \/ InFlight(load) # {} THEN muddled \cup {p} ELSE muddled
    /\ UNCHANGED <<database, filter, token, loading, load, since>>

ReactDone(c) ==
    /\ react[c].state = "served"
    /\ react' = [react EXCEPT ![c] = IdleCall]
    /\ UNCHANGED <<database, filter, list, loading, load, since, muddled, left>>

(* The rollback clears the mark, whatever it was before the click.         *)
ReactFails(c) ==
    /\ react[c].state # "idle" /\ Spend("faults")
    /\ items' = Marked(react[c].post, "")
    /\ react' = [react EXCEPT ![c] = IdleCall]
    /\ muddled' = muddled \cup {react[c].post}
    /\ UNCHANGED <<database, filter, token, loading, load, since>>

-----------------------------------------------------------------------------
(* The server                                                              *)

ServeLoad(c) ==
    /\ load[c].state = "waiting"
    /\ LET rows == Rows(load[c].filter, load[c].token) IN
       \E s \in Pages(rows) :
        load' = [load EXCEPT ![c].state = "served", ![c].page = Cards(s),
                             ![c].next = NextToken(s, rows)]
    /\ UNCHANGED <<database, filter, list, loading, react, since, muddled, left>>

(* Mutant: ON CONFLICT DO NOTHING.                                         *)
ServeFirstReact(c) ==
    /\ react[c].state = "waiting"
    /\ signal' = [signal EXCEPT ![react[c].post] = IF @ = "" THEN react[c].signal ELSE @]
    /\ react' = [react EXCEPT ![c].state = "served"]
    /\ since' = [since EXCEPT !.likes = IF react[c].signal = "like" THEN "since" ELSE @]
    /\ UNCHANGED <<value, filter, list, loading, load, muddled, left>>

(* reactionRepo.Upsert: the last write wins.                               *)
ServeReact(c) ==
    /\ react[c].state = "waiting"
    /\ signal' = [signal EXCEPT ![react[c].post] = react[c].signal]
    /\ react' = [react EXCEPT ![c].state = "served"]
    /\ since' = [since EXCEPT !.likes = IF react[c].signal = "like" THEN "since" ELSE @]
    /\ UNCHANGED <<value, filter, list, loading, load, muddled, left>>

(* scoreRepo.Upsert by a score worker: a first score or another one.       *)
Upsert(i, v) ==
    /\ value[i] # v /\ Spend("scorings")
    /\ value' = [value EXCEPT ![i] = v]
    /\ since' = [since EXCEPT !.moved = @ \cup {i}]
    /\ UNCHANGED <<signal, filter, list, loading, load, react, muddled>>

Init ==
    /\ value \in [Items -> Scores \cup {None}]
    /\ signal = [p \in Posts |-> ""]
    /\ filter \in Filters
    /\ items = <<>> /\ token = None /\ loading = FALSE
    /\ load = [c \in LoadCalls |-> IdleCall]
    /\ react = [c \in ReactCalls |-> IdleCall]
    /\ since = [alone |-> FALSE, likes |-> "none", moved |-> {}]
    /\ muddled = {}
    /\ left = [scorings |-> MaxScorings, clicks |-> MaxClicks, faults |-> MaxFaults]

Next ==
    \/ \E c \in LoadCalls :
        \/ Refresh(c) \/ LoadMore(c) \/ ServeLoad(c) \/ Answer(c) \/ LoadFails(c)
        \/ \E f \in Filters : ChooseFilter(c, f)
    \/ \E c \in ReactCalls :
        \/ ServeReact(c) \/ ReactDone(c) \/ ReactFails(c)
        \/ \E p \in Posts, s \in Signals : React(c, p, s)
    \/ \E i \in Items, v \in Scores : Upsert(i, v)

Spec == Init /\ [][Next]_vars

-----------------------------------------------------------------------------
(* Properties                                                              *)

LoadStates ==
    {IdleCall} \cup [state: {"waiting", "served"}, filter: Filters, token: Tokens,
                     page: Seq(Shown), next: Tokens]
ReactStates ==
    {IdleCall} \cup [state: {"waiting", "served"}, post: Posts, signal: Signals]

(* Every variable has the shape the code gives it; tokens and cards name   *)
(* rows.                                                                   *)
TypeOK ==
    /\ value \in [Items -> Scores \cup {None}]
    /\ signal \in [Posts -> Signals \cup {""}]
    /\ filter \in Filters
    /\ items \in Seq(Shown)
    /\ token \in Tokens
    /\ loading \in BOOLEAN
    /\ load \in [LoadCalls -> LoadStates]
    /\ react \in [ReactCalls -> ReactStates]
    /\ since \in [alone: BOOLEAN, likes: {"none", "before", "since"}, moved: SUBSET Items]
    /\ muddled \subseteq Posts
    /\ left \in [scorings: 0..MaxScorings, clicks: 0..MaxClicks, faults: 0..MaxFaults]

(* Paging always comes to an end: whatever is liked, disliked or scored    *)
(* between two pages, the cursor a page returns is strictly below the one  *)
(* it was asked with, in the order of the cursor (ListRanked).             *)
Below(t, u) == t.value < u.value \/ (t.value = u.value /\ t.id > u.id)

CursorDescends ==
    \A c \in InFlight(load) :
        (load[c].token # None /\ load[c].next # None) => Below(load[c].next, load[c].token)

(* The list shown stands for the selected filter when its first page was   *)
(* asked for alone and answered.                                           *)
Settled ==
    since.alone /\ \A c \in InFlight(load) : load[c].token # None

Copies(i) == {k \in DOMAIN items : items[k].id = i}

ShownOnce(i) ==
    /\ \A j, k \in Copies(i) : j = k
    /\ Copies(i) # {} => i \in filter.period /\ value[i] >= filter.min
    /\ (i \in Selected(filter) /\ (token = None \/ ~After(token, i))) => Copies(i) # {}

(* The pages put one after the other are the feed: every row of the filter *)
(* down to the cursor is shown exactly once and no row of another filter   *)
(* is, although posts are disliked and calls fail meanwhile.  Only a like, *)
(* calls of the feed that overlap, or a new score of the row itself make a *)
(* row come twice or never (ListRanked, load).                             *)
PagesMakeTheFeed ==
    Settled /\ since.likes = "none" => \A i \in Items \ since.moved : ShownOnce(i)

(* The mark of a card is the stored reaction once its calls have ended: a  *)
(* mark is what post_reactions holds and a post with a stored dislike is   *)
(* not on the screen, unless one of its calls failed or overlapped another *)
(* (handleReact, load).  A cleared "like" may still be stored: there is no *)
(* call that removes a reaction.                                           *)
MarkIsStored ==
    \A k \in DOMAIN items :
        (items[k].id \in Posts \ muddled /\ ~Reacting(items[k].id)) =>
            IF items[k].reaction = "" THEN signal[items[k].id] # "dislike"
            ELSE signal[items[k].id] = items[k].reaction

(* "keyset pagination over two pages gives neither duplicates nor gaps"    *)
(* (SC-02 of FT-020): as PagesMakeTheFeed, when scores do not change and   *)
(* no like is stored between the pages, but some may have been before.     *)
PagesPartitionTheFeed ==
    Settled /\ since.moved = {} /\ since.likes # "since" => \A i \in Items : ShownOnce(i)
=============================================================================
