----------------------------- MODULE FeedProofs -----------------------------
(* Type correctness of Feed and its invariants, for every set of posts,    *)
(* digests and filters and every page size.                                *)
EXTENDS Feed, TLAPS

(* A page that was cut is not empty, and its token is its last row.        *)
LEMMA NextTokenType ==
    ASSUME TypeOK, NEW f \in Filters, NEW t \in Tokens, NEW s \in Pages(Rows(f, t))
    PROVE  /\ NextToken(s, Rows(f, t)) \in Tokens
           /\ NextToken(s, Rows(f, t)) # None =>
                /\ Len(s) \in 1..PageSize /\ s[Len(s)] \in Rows(f, t)
                /\ NextToken(s, Rows(f, t)) = [value |-> value[s[Len(s)]], id |-> s[Len(s)]]
<1> DEFINE R == Rows(f, t)
<1>1. PICK n \in 0..PageSize : s \in [1..n -> R]
  BY PageAssumption DEF Pages
<1>2. Len(s) = n /\ DOMAIN s = 1..n
  BY <1>1, PageAssumption
<1>3. CASE \A i \in R : \E a \in DOMAIN s : s[a] = i
  BY <1>3 DEF NextToken, Tokens
<1>4. CASE ~ \A i \in R : \E a \in DOMAIN s : s[a] = i
  <2>1. Len(s) = PageSize
    BY <1>4 DEF Pages, IsPage
  <2>2. Len(s) \in 1..PageSize /\ s[Len(s)] \in R
    BY <1>1, <1>2, <2>1, PageAssumption
  <2>3. NextToken(s, R) = [value |-> value[s[Len(s)]], id |-> s[Len(s)]]
    BY <1>4 DEF NextToken
  <2>4. s[Len(s)] \in Items /\ value[s[Len(s)]] \in Scores
    BY <2>2, FiltersAssumption DEF Rows, Selected, TypeOK, Items
  <2> QED
    BY <2>2, <2>3, <2>4 DEF Tokens
<1> QED
  BY <1>3, <1>4

LEMMA CardsType ==
    ASSUME TypeOK, NEW f \in Filters, NEW t \in Tokens, NEW s \in Pages(Rows(f, t))
    PROVE  Cards(s) \in Seq(Shown)
<1>1. PICK n \in 0..PageSize : s \in [1..n -> Rows(f, t)]
  BY PageAssumption DEF Pages
<1>2. \A i \in Rows(f, t) : i \in Items
  BY FiltersAssumption DEF Rows, Selected, Items
<1>3. \A i \in Items : Reaction(i) \in Signals \cup {""}
  BY DEF Reaction, TypeOK, Items
<1>4. Cards(s) \in [1..n -> Shown]
  BY <1>1, <1>2, <1>3 DEF Cards, Shown
<1> QED
  BY <1>4, PageAssumption

LEMMA SameShape ==
    ASSUME NEW S, NEW s \in Seq(S), NEW u, u = [k \in DOMAIN s |-> u[k]],
           \A k \in DOMAIN s : u[k] \in S
    PROVE  u \in Seq(S)
<1>1. s \in [1..Len(s) -> S] /\ Len(s) \in Nat
  OBVIOUS
<1>2. u \in [1..Len(s) -> S]
  BY <1>1
<1> QED
  BY <1>1, <1>2

(* Another mark on the cards of a post leaves a list of cards.             *)
LEMMA MarksType ==
    ASSUME TypeOK, NEW p, NEW s \in Signals
    PROVE  /\ items' = Marked(p, s) => items' \in Seq(Shown)
           /\ items' = Marked(p, "") => items' \in Seq(Shown)
<1>1. items \in Seq(Shown)
  BY DEF TypeOK
<1>2. \A k \in DOMAIN items : items[k] \in Shown
  BY <1>1
<1>3. ASSUME items' = Marked(p, s)
      PROVE  items' \in Seq(Shown)
  <2>1. items' = [k \in DOMAIN items |-> items'[k]]
    BY <1>3 DEF Marked
  <2>2. \A k \in DOMAIN items : items'[k] \in Shown
    BY <1>2, <1>3 DEF Marked, Shown
  <2> QED
    BY <1>1, <2>1, <2>2, SameShape
<1>4. ASSUME items' = Marked(p, "")
      PROVE  items' \in Seq(Shown)
  <2>1. items' = [k \in DOMAIN items |-> items'[k]]
    BY <1>4 DEF Marked
  <2>2. \A k \in DOMAIN items : items'[k] \in Shown
    BY <1>2, <1>4 DEF Marked, Shown
  <2> QED
    BY <1>1, <2>1, <2>2, SameShape
<1> QED
  BY <1>3, <1>4

-----------------------------------------------------------------------------
(* Type correctness.                                                       *)

(* The fields of a call in flight, and back.                               *)
LoadRecords == [state: {"waiting", "served"}, filter: Filters, token: Tokens,
                page: Seq(Shown), next: Tokens]
Bounds == [scorings: 0..MaxScorings, clicks: 0..MaxClicks, faults: 0..MaxFaults]

LEMMA LoadFields ==
    ASSUME TypeOK, NEW c \in LoadCalls, load[c].state # "idle"
    PROVE  /\ load[c] \in LoadRecords
           /\ load[c].state \in {"waiting", "served"} /\ load[c].filter \in Filters
           /\ load[c].token \in Tokens /\ load[c].page \in Seq(Shown)
           /\ load[c].next \in Tokens
<1> DEFINE Lists == Seq(Shown)
<1>1. load[c] \in {IdleCall} \cup LoadRecords
  BY DEF TypeOK, LoadStates, LoadRecords
<1>2. load[c] # IdleCall
  BY DEF IdleCall
<1>3. load[c] \in [state: {"waiting", "served"}, filter: Filters, token: Tokens,
                   page: Lists, next: Tokens]
  BY <1>1, <1>2 DEF LoadRecords
<1> HIDE DEF Lists
<1>4. load[c].state \in {"waiting", "served"} /\ load[c].filter \in Filters
      /\ load[c].token \in Tokens /\ load[c].page \in Lists /\ load[c].next \in Tokens
  BY <1>3
<1> QED
  BY <1>1, <1>2, <1>4 DEF Lists

LEMMA LoadUpdate ==
    ASSUME TypeOK, NEW c \in LoadCalls, NEW r \in LoadRecords \cup {IdleCall},
           load' = [load EXCEPT ![c] = r]
    PROVE  load' \in [LoadCalls -> LoadStates]
<1>1. r \in LoadStates
  BY DEF LoadStates, LoadRecords
<1>2. load \in [LoadCalls -> LoadStates]
  BY DEF TypeOK
<1> QED
  BY <1>1, <1>2

LEMMA ReactFields ==
    ASSUME TypeOK, NEW c \in ReactCalls, react[c].state # "idle"
    PROVE  /\ react[c] \in [state: {"waiting", "served"}, post: Posts, signal: Signals]
           /\ react[c].state \in {"waiting", "served"}
           /\ react[c].post \in Posts /\ react[c].signal \in Signals
<1>1. react[c] \in {IdleCall} \cup [state: {"waiting", "served"}, post: Posts, signal: Signals]
  BY DEF TypeOK, ReactStates
<1>2. react[c] # IdleCall
  BY DEF IdleCall
<1> QED
  BY <1>1, <1>2

LEMMA ReactUpdate ==
    ASSUME TypeOK, NEW c \in ReactCalls,
           NEW r \in [state: {"waiting", "served"}, post: Posts, signal: Signals] \cup {IdleCall},
           react' = [react EXCEPT ![c] = r]
    PROVE  react' \in [ReactCalls -> ReactStates]
<1>1. r \in ReactStates
  BY DEF ReactStates
<1>2. react \in [ReactCalls -> ReactStates]
  BY DEF TypeOK
<1> QED
  BY <1>1, <1>2

LEMMA TypeInit == Init => TypeOK
<1> SUFFICES ASSUME Init PROVE TypeOK
  OBVIOUS
<1>1. signal \in [Posts -> Signals \cup {""}] /\ token \in Tokens
  BY DEF Init, Tokens
<1>2. items \in Seq(Shown)
  <2>1. <<>> \in Seq(Shown)
    OBVIOUS
  <2> QED
    BY <2>1 DEF Init
<1>3. load \in [LoadCalls -> LoadStates] /\ react \in [ReactCalls -> ReactStates]
  BY DEF Init, LoadStates, ReactStates
<1>4. left \in Bounds
  <2>1. MaxScorings \in 0..MaxScorings /\ MaxClicks \in 0..MaxClicks /\ MaxFaults \in 0..MaxFaults
    BY BoundsAssumption
  <2> QED
    BY <2>1 DEF Init, Bounds
<1>5. since \in [alone: BOOLEAN, likes: {"none", "before", "since"}, moved: SUBSET Items]
  BY DEF Init
<1> QED
  BY <1>1, <1>2, <1>3, <1>4, <1>5 DEF Init, TypeOK, Bounds

LEMMA SpendType ==
    ASSUME TypeOK, NEW what \in {"scorings", "clicks", "faults"}, Spend(what)
    PROVE  left' \in Bounds
<1> DEFINE S == 0..MaxScorings
           C == 0..MaxClicks
           F == 0..MaxFaults
<1>1. left \in [scorings: S, clicks: C, faults: F]
  BY DEF TypeOK
<1>2. left.scorings \in S /\ left.clicks \in C /\ left.faults \in F
  BY <1>1
<1>3. /\ left.scorings > 0 => left.scorings - 1 \in S
      /\ left.clicks > 0 => left.clicks - 1 \in C
      /\ left.faults > 0 => left.faults - 1 \in F
  BY <1>2, BoundsAssumption
<1> HIDE DEF S, C, F
<1>4. left' \in [scorings: S, clicks: C, faults: F]
  BY <1>1, <1>2, <1>3 DEF Spend
<1> QED
  BY <1>4 DEF S, C, F, Bounds

LEMMA AskType ==
    ASSUME TypeOK, NEW c \in LoadCalls, NEW f \in Filters, NEW t \in Tokens, Ask(c, f, t)
    PROVE  TypeOK'
<1>1. load' \in [LoadCalls -> LoadStates]
  <2> DEFINE r == [state |-> "waiting", filter |-> f, token |-> t, page |-> <<>>, next |-> None]
  <2>1. None \in Tokens /\ <<>> \in Seq(Shown)
    BY DEF Tokens
  <2>2. r \in LoadRecords
    BY <2>1 DEF LoadRecords
  <2>3. load' = [load EXCEPT ![c] = r]
    BY DEF Ask
  <2> HIDE DEF r
  <2> QED
    BY <2>2, <2>3, LoadUpdate
<1>2. since' \in [alone: BOOLEAN, likes: {"none", "before", "since"}, moved: SUBSET Items]
  BY DEF Ask, TypeOK, NewSince
<1>3. muddled' \subseteq Posts
  <2>1. InFlight(react) \subseteq ReactCalls /\ \A r \in InFlight(react) : react[r].state # "idle"
    BY DEF InFlight, TypeOK
  <2>2. \A r \in InFlight(react) : react[r].post \in Posts
    BY <2>1, ReactFields
  <2>3. muddled' = muddled \cup {react[r].post : r \in InFlight(react)}
    BY DEF Ask
  <2>4. muddled \subseteq Posts
    BY DEF TypeOK
  <2> QED
    BY <2>2, <2>3, <2>4
<1> QED
  BY <1>1, <1>2, <1>3 DEF Ask, TypeOK, database, list

LEMMA AnswerType == ASSUME TypeOK, NEW c \in LoadCalls, Answer(c) PROVE TypeOK'
<1>1. load[c].page \in Seq(Shown) /\ load[c].next \in Tokens
  BY LoadFields DEF Answer
<1>2. items \in Seq(Shown)
  BY DEF TypeOK
<1>3. items \o load[c].page \in Seq(Shown)
  BY <1>1, <1>2
<1>4. items' \in Seq(Shown) /\ token' \in Tokens
  BY <1>1, <1>3 DEF Answer
<1>5. load' \in [LoadCalls -> LoadStates]
  BY LoadUpdate DEF Answer
<1> QED
  BY <1>4, <1>5 DEF Answer, TypeOK, database

LEMMA LoadFailsType == ASSUME TypeOK, NEW c \in LoadCalls, LoadFails(c) PROVE TypeOK'
<1>1. load' \in [LoadCalls -> LoadStates]
  BY LoadUpdate DEF LoadFails
<1>2. since' \in [alone: BOOLEAN, likes: {"none", "before", "since"}, moved: SUBSET Items]
  BY DEF LoadFails, TypeOK
<1>3. left' \in Bounds
  BY SpendType DEF LoadFails
<1> QED
  BY <1>1, <1>2, <1>3 DEF LoadFails, TypeOK, database, list, Bounds

LEMMA ReactType ==
    ASSUME TypeOK, NEW c \in ReactCalls, NEW p \in Posts, NEW s \in Signals, React(c, p, s)
    PROVE  TypeOK'
<1>1. items' \in Seq(Shown)
  BY MarksType DEF React
<1>2. react' \in [ReactCalls -> ReactStates]
  BY ReactUpdate DEF React
<1>3. muddled' \subseteq Posts
  BY DEF React, TypeOK
<1>4. left' \in Bounds
  BY SpendType DEF React
<1> QED
  BY <1>1, <1>2, <1>3, <1>4 DEF React, TypeOK, database, Bounds

LEMMA ReactEndsType ==
    ASSUME TypeOK, NEW c \in ReactCalls, ReactDone(c) \/ ReactFails(c) PROVE TypeOK'
<1>1. react' \in [ReactCalls -> ReactStates]
  BY ReactUpdate DEF ReactDone, ReactFails
<1>2. CASE ReactDone(c)
  BY <1>1, <1>2 DEF ReactDone, TypeOK, database, list
<1>3. CASE ReactFails(c)
  <2>1. items' \in Seq(Shown)
    BY <1>3, MarksType DEF ReactFails, Signals
  <2>2. muddled' \subseteq Posts
    BY <1>3, ReactFields DEF ReactFails, TypeOK
  <2>3. left' \in Bounds
    BY <1>3, SpendType DEF ReactFails
  <2> QED
    BY <1>1, <1>3, <2>1, <2>2, <2>3 DEF ReactFails, TypeOK, database, Bounds
<1> QED
  BY <1>2, <1>3

LEMMA ServedRecord ==
    ASSUME NEW old, NEW p, NEW n,
           old = [state |-> old.state, filter |-> old.filter, token |-> old.token,
                  page |-> old.page, next |-> old.next]
    PROVE  [[[old EXCEPT !.state = "served"] EXCEPT !.page = p] EXCEPT !.next = n] =
           [state |-> "served", filter |-> old.filter, token |-> old.token, page |-> p, next |-> n]
<1> DEFINE a == [old EXCEPT !.state = "served"]
           b == [a EXCEPT !.page = p]
<1>1. a = [state |-> "served", filter |-> old.filter, token |-> old.token,
           page |-> old.page, next |-> old.next]
  OBVIOUS
<1>2. b = [state |-> "served", filter |-> old.filter, token |-> old.token,
           page |-> p, next |-> old.next]
  <2> HIDE DEF a
  <2> QED
    BY <1>1
<1> HIDE DEF b
<1>3. [b EXCEPT !.next = n] = [state |-> "served", filter |-> old.filter, token |-> old.token,
                               page |-> p, next |-> n]
  BY <1>2
<1> QED
  BY <1>3 DEF b

(* A served call keeps what was asked and holds a page.                    *)
Served(c, s) ==
    [state |-> "served", filter |-> load[c].filter, token |-> load[c].token, page |-> Cards(s),
     next |-> NextToken(s, Rows(load[c].filter, load[c].token))]

LEMMA ServeLoadEffect ==
    ASSUME TypeOK, NEW c \in LoadCalls, ServeLoad(c)
    PROVE  \E s \in Pages(Rows(load[c].filter, load[c].token)) :
                load' = [load EXCEPT ![c] = Served(c, s)]
<1> DEFINE f == load[c].filter
           t == load[c].token
           old == load[c]
           Lists == Seq(Shown)
<1>1. PICK s \in Pages(Rows(f, t)) :
        load' = [load EXCEPT ![c].state = "served", ![c].page = Cards(s),
                             ![c].next = NextToken(s, Rows(f, t))]
  BY DEF ServeLoad
<1>2. old \in [state: {"waiting", "served"}, filter: Filters, token: Tokens,
               page: Lists, next: Tokens]
  BY LoadFields DEF ServeLoad, LoadRecords
<1>3. load \in [LoadCalls -> LoadStates]
  BY DEF TypeOK
<1>4. load' = [load EXCEPT ![c] = [[[old EXCEPT !.state = "served"]
                    EXCEPT !.page = Cards(s)] EXCEPT !.next = NextToken(s, Rows(f, t))]]
  BY <1>1, <1>3
<1>5. [[[old EXCEPT !.state = "served"] EXCEPT !.page = Cards(s)]
                    EXCEPT !.next = NextToken(s, Rows(f, t))] = Served(c, s)
  <2> HIDE DEF old, Lists
  <2>1. old = [state |-> old.state, filter |-> old.filter, token |-> old.token,
               page |-> old.page, next |-> old.next]
    BY <1>2
  <2>2. [[[old EXCEPT !.state = "served"] EXCEPT !.page = Cards(s)]
                    EXCEPT !.next = NextToken(s, Rows(f, t))] =
        [state |-> "served", filter |-> old.filter, token |-> old.token, page |-> Cards(s),
         next |-> NextToken(s, Rows(f, t))]
    BY <2>1, ServedRecord
  <2> QED
    BY <2>2 DEF old, Served
<1> QED
  BY <1>1, <1>4, <1>5

LEMMA ServeLoadType == ASSUME TypeOK, NEW c \in LoadCalls, ServeLoad(c) PROVE TypeOK'
<1>1. PICK s \in Pages(Rows(load[c].filter, load[c].token)) :
        load' = [load EXCEPT ![c] = Served(c, s)]
  BY ServeLoadEffect
<1>2. load[c].filter \in Filters /\ load[c].token \in Tokens
  BY LoadFields DEF ServeLoad
<1>3. Cards(s) \in Seq(Shown) /\ NextToken(s, Rows(load[c].filter, load[c].token)) \in Tokens
  BY <1>2, CardsType, NextTokenType
<1>4. Served(c, s) \in LoadRecords
  BY <1>2, <1>3 DEF Served, LoadRecords
<1>5. load' \in [LoadCalls -> LoadStates]
  BY <1>1, <1>4, LoadUpdate
<1> QED
  BY <1>5 DEF ServeLoad, TypeOK, database, list

LEMMA ServeReactType == ASSUME TypeOK, NEW c \in ReactCalls, ServeReact(c) PROVE TypeOK'
<1>1. react' \in [ReactCalls -> ReactStates]
  <2>1. [react[c] EXCEPT !.state = "served"] \in
            [state: {"waiting", "served"}, post: Posts, signal: Signals]
    BY ReactFields DEF ServeReact
  <2>2. react' = [react EXCEPT ![c] = [react[c] EXCEPT !.state = "served"]]
    BY DEF ServeReact
  <2> QED
    BY <2>1, <2>2, ReactUpdate
<1>2. signal' \in [Posts -> Signals \cup {""}]
  BY ReactFields DEF ServeReact, TypeOK
<1>3. since' \in [alone: BOOLEAN, likes: {"none", "before", "since"}, moved: SUBSET Items]
  BY DEF ServeReact, TypeOK
<1> QED
  BY <1>1, <1>2, <1>3 DEF ServeReact, TypeOK, list

LEMMA UpsertType ==
    ASSUME TypeOK, NEW i \in Items, NEW v \in Scores, Upsert(i, v) PROVE TypeOK'
<1>1. value' \in [Items -> Scores \cup {None}]
  BY DEF Upsert, TypeOK
<1>2. since' \in [alone: BOOLEAN, likes: {"none", "before", "since"}, moved: SUBSET Items]
  BY DEF Upsert, TypeOK
<1>3. left' \in Bounds
  BY SpendType DEF Upsert
<1> QED
  BY <1>1, <1>2, <1>3 DEF Upsert, TypeOK, list, Bounds

LEMMA TypeStep == ASSUME TypeOK, [Next]_vars PROVE TypeOK'
<1>1. ASSUME NEW c \in LoadCalls, Refresh(c) PROVE TypeOK'
  BY <1>1, AskType DEF Refresh, TypeOK, Tokens
<1>2. ASSUME NEW c \in LoadCalls, NEW f \in Filters, ChooseFilter(c, f) PROVE TypeOK'
  BY <1>2, AskType DEF ChooseFilter, Tokens
<1>3. ASSUME NEW c \in LoadCalls, LoadMore(c) PROVE TypeOK'
  BY <1>3, AskType DEF LoadMore, TypeOK
<1>4. CASE UNCHANGED vars
  BY <1>4 DEF TypeOK, vars, database, list
<1> QED
  BY <1>1, <1>2, <1>3, <1>4, AnswerType, LoadFailsType, ReactType, ReactEndsType,
     ServeLoadType, ServeReactType, UpsertType DEF Next

(* Every variable keeps the shape the code gives it.                       *)
THEOREM TypeCorrect == Spec => []TypeOK
<1>1. Init => TypeOK
  BY TypeInit
<1>2. TypeOK /\ [Next]_vars => TypeOK'
  BY TypeStep
<1> QED
  BY <1>1, <1>2, PTL DEF Spec

-----------------------------------------------------------------------------
(* The inductive invariants.                                               *)

(* What a card shows fits what is, or will be, stored.                     *)
Fits(mark, stored) == IF mark = "" THEN stored # "dislike" ELSE stored = mark

Pending(r, p) == react[r].state # "idle" /\ react[r].post = p

(* A post whose calls kept apart has one reaction in flight at most, and   *)
(* no call of the feed with it.  Its cards, shown or on their way, fit     *)
(* what is stored, or the signal that is being sent.                       *)
OneReaction(p) == \A q, r \in ReactCalls : Pending(q, p) /\ Pending(r, p) => q = r
NoLoads(p) == \A r \in ReactCalls, c \in LoadCalls : Pending(r, p) => load[c].state = "idle"
ServedIsStored(p) ==
    \A r \in ReactCalls :
        Pending(r, p) /\ react[r].state = "served" => signal[p] = react[r].signal
CardsFit(p) ==
    \A k \in DOMAIN items : items[k].id = p =>
        /\ (\A r \in ReactCalls : ~Pending(r, p)) => Fits(items[k].reaction, signal[p])
        /\ \A r \in ReactCalls : Pending(r, p) => Fits(items[k].reaction, react[r].signal)
PagesFit(p) ==
    \A c \in LoadCalls : load[c].state = "served" =>
        \A k \in DOMAIN load[c].page :
            load[c].page[k].id = p => load[c].page[k].reaction = signal[p]

KeptApart(p) ==
    OneReaction(p) /\ NoLoads(p) /\ ServedIsStored(p) /\ CardsFit(p) /\ PagesFit(p)

MarkInv == \A p \in Posts \ muddled : KeptApart(p)

(* A row of value v below the cursor t, and between two cursors.           *)
Past(t, v, i) == v < t.value \/ (v = t.value /\ i > t.id)
Within(v, i, t, next) == (t = None \/ Past(t, v, i)) /\ (next = None \/ ~Past(next, v, i))

(* A list of cards holds a row of value v at most once, holds it only if   *)
(* it belongs to the filter and between the cursors, and does hold it if   *)
(* it is selected and belongs there.                                       *)
Holds(cards, i, v, selected, f, t, next) ==
    /\ \A j, k \in DOMAIN cards : cards[j].id = i /\ cards[k].id = i => j = k
    /\ \A k \in DOMAIN cards : cards[k].id = i =>
        i \in f.period /\ v # None /\ v >= f.min /\ Within(v, i, t, next)
    /\ selected /\ Within(v, i, t, next) => \E k \in DOMAIN cards : cards[k].id = i

Quiet == since.alone /\ since.likes = "none"

(* While the list was asked for alone, one call of the feed is in flight   *)
(* at most, for the filter selected and the token shown; as long as no     *)
(* like is stored, the page on its way and the list hold what they should. *)
NoLikes == since.likes = "none" => ~Liked
OneLoad ==
    since.alone => \A c, d \in LoadCalls : load[c].state # "idle" =>
        /\ load[d].state # "idle" => c = d
        /\ load[c].filter = filter /\ load[c].token \in {None, token}
PageHolds ==
    Quiet => \A c \in LoadCalls : load[c].state = "served" =>
        \A i \in Items \ since.moved :
            Holds(load[c].page, i, value[i], i \in Selected(filter), filter,
                  load[c].token, load[c].next)
ListHolds ==
    Quiet /\ (\A c \in LoadCalls : load[c].state # "idle" => load[c].token # None) =>
        \A i \in Items \ since.moved :
            Holds(items, i, value[i], i \in Selected(filter), filter, None, token)

PageInv == NoLikes /\ OneLoad /\ PageHolds /\ ListHolds

-----------------------------------------------------------------------------
(* Cursors descend.                                                        *)

LEMMA Calls ==
    ASSUME TypeOK
    PROVE  /\ DOMAIN load = LoadCalls /\ DOMAIN react = ReactCalls
           /\ InFlight(load) = {c \in LoadCalls : load[c].state # "idle"}
           /\ InFlight(react) = {r \in ReactCalls : react[r].state # "idle"}
  BY DEF TypeOK, InFlight

(* What a step does to a call of the feed.                                 *)
LEMMA LoadStep ==
    ASSUME TypeOK, [Next]_vars, NEW d \in LoadCalls
    PROVE  \/ load'[d] = load[d]
           \/ load'[d].state = "idle"
           \/ load'[d].state = "waiting" /\ load'[d].next = None
           \/ \E s \in Pages(Rows(load[d].filter, load[d].token)) :
                load[d].state = "waiting" /\ load'[d] = Served(d, s)
<1> DEFINE Goal == \/ load'[d] = load[d]
                   \/ load'[d].state = "idle"
                   \/ load'[d].state = "waiting" /\ load'[d].next = None
                   \/ \E s \in Pages(Rows(load[d].filter, load[d].token)) :
                        load[d].state = "waiting" /\ load'[d] = Served(d, s)
<1>0. load \in [LoadCalls -> LoadStates]
  BY DEF TypeOK
<1>1. ASSUME NEW c \in LoadCalls,
             Refresh(c) \/ LoadMore(c) \/ \E f \in Filters : ChooseFilter(c, f)
      PROVE  Goal
  BY <1>0, <1>1 DEF Refresh, LoadMore, ChooseFilter, Ask
<1>2. ASSUME NEW c \in LoadCalls, Answer(c) \/ LoadFails(c) PROVE Goal
  BY <1>0, <1>2 DEF Answer, LoadFails, IdleCall
<1>3. ASSUME NEW c \in LoadCalls, ServeLoad(c) PROVE Goal
  <2>1. PICK s \in Pages(Rows(load[c].filter, load[c].token)) :
          load' = [load EXCEPT ![c] = Served(c, s)]
    BY <1>3, ServeLoadEffect
  <2>2. load[c].state = "waiting"
    BY <1>3 DEF ServeLoad
  <2> QED
    BY <1>0, <2>1, <2>2
<1>4. ASSUME NEW c \in ReactCalls,
             ServeReact(c) \/ ReactDone(c) \/ ReactFails(c) \/ \E p \in Posts, s \in Signals : React(c, p, s)
      PROVE  Goal
  BY <1>4 DEF ServeReact, ReactDone, ReactFails, React
<1>5. ASSUME NEW i \in Items, NEW v \in Scores, Upsert(i, v) PROVE Goal
  BY <1>5 DEF Upsert
<1>6. ASSUME UNCHANGED vars PROVE Goal
  BY <1>6 DEF vars
<1> HIDE DEF Goal
<1>7. Goal
  BY <1>1, <1>2, <1>3, <1>4, <1>5, <1>6 DEF Next
<1> QED
  BY <1>7 DEF Goal

LEMMA CursorStep ==
    ASSUME TypeOK, CursorDescends, [Next]_vars
    PROVE  CursorDescends'
<1>1. TypeOK'
  BY TypeStep
<1>2. InFlight(load') = {c \in LoadCalls : load'[c].state # "idle"}
  BY <1>1 DEF TypeOK, InFlight
<1> SUFFICES ASSUME NEW d \in LoadCalls, load'[d].state # "idle",
                    load'[d].token # None, load'[d].next # None
             PROVE  Below(load'[d].next, load'[d].token)
  BY <1>2 DEF CursorDescends, InFlight
<1>3. CASE load'[d] = load[d]
  BY <1>3, Calls DEF CursorDescends
<1>4. ASSUME NEW s \in Pages(Rows(load[d].filter, load[d].token)),
             load[d].state = "waiting", load'[d] = Served(d, s)
      PROVE  Below(load'[d].next, load'[d].token)
  <2> DEFINE f == load[d].filter
             t == load[d].token
             n == NextToken(s, Rows(f, t))
  <2>1. f \in Filters /\ t \in Tokens
    BY <1>4, LoadFields
  <2>2. load'[d].next = n /\ load'[d].token = t
    BY <1>4 DEF Served
  <2>3. s[Len(s)] \in Rows(f, t) /\ n = [value |-> value[s[Len(s)]], id |-> s[Len(s)]]
    BY <2>1, <2>2, NextTokenType
  <2>4. After(t, s[Len(s)])
    BY <2>2, <2>3 DEF Rows
  <2>5. n.value = value[s[Len(s)]] /\ n.id = s[Len(s)]
    BY <2>3
  <2>6. t \in [value: Scores, id: Items] /\ n \in [value: Scores, id: Items]
    BY <2>1, <2>2, NextTokenType DEF Tokens
  <2> QED
    BY <2>2, <2>4, <2>5 DEF After, Below
<1> QED
  BY <1>3, <1>4, LoadStep

(* Whatever happens between two pages, a page ends strictly below the      *)
(* cursor it was asked with.                                               *)
THEOREM CursorsDescend == Spec => []CursorDescends
<1>1. Init => CursorDescends
  <2> SUFFICES ASSUME Init PROVE CursorDescends
    OBVIOUS
  <2>1. \A c \in LoadCalls : load[c].state = "idle"
    BY DEF Init, IdleCall
  <2> QED
    BY <2>1, TypeInit, Calls DEF CursorDescends
<1>2. TypeOK /\ CursorDescends /\ [Next]_vars => CursorDescends'
  BY CursorStep
<1> QED
  BY <1>1, <1>2, TypeCorrect, PTL DEF Spec

-----------------------------------------------------------------------------
(* Marks are what is stored.                                               *)

LEMMA JoinedCards ==
    ASSUME NEW a \in Seq(Shown), NEW b \in Seq(Shown), NEW k \in DOMAIN (a \o b)
    PROVE  \/ k \in DOMAIN a /\ (a \o b)[k] = a[k]
           \/ k - Len(a) \in DOMAIN b /\ (a \o b)[k] = b[k - Len(a)]
  OBVIOUS

LEMMA CardsShown == ASSUME TypeOK PROVE \A k \in DOMAIN items : items[k] \in Shown
<1>1. items \in Seq(Shown)
  BY DEF TypeOK
<1> QED
  BY <1>1

LEMMA AskMarks ==
    ASSUME TypeOK, MarkInv, NEW c \in LoadCalls, NEW f, NEW t, Ask(c, f, t)
    PROVE  MarkInv'
<1> SUFFICES ASSUME NEW p \in Posts, p \notin muddled' PROVE KeptApart(p)'
  BY DEF MarkInv
<1>1. muddled' = muddled \cup {react[r].post : r \in InFlight(react)}
  BY DEF Ask
<1>2. \A r \in ReactCalls : ~Pending(r, p)
  BY <1>1, Calls DEF Pending
<1>3. KeptApart(p)
  BY <1>1 DEF MarkInv
<1>4. UNCHANGED <<react, items, signal>>
  BY DEF Ask, database, list
<1>5. \A r \in ReactCalls : ~Pending(r, p)'
  BY <1>2, <1>4 DEF Pending
<1>6. \A d \in LoadCalls : load'[d].state = "served" => load'[d] = load[d]
  BY DEF Ask, TypeOK
<1>7. OneReaction(p)' /\ NoLoads(p)' /\ ServedIsStored(p)'
  BY <1>5 DEF OneReaction, NoLoads, ServedIsStored
<1>8. CardsFit(p)'
  BY <1>2, <1>3, <1>4, <1>5 DEF KeptApart, CardsFit
<1>9. PagesFit(p)'
  BY <1>3, <1>4, <1>6 DEF KeptApart, PagesFit
<1> QED
  BY <1>7, <1>8, <1>9 DEF KeptApart

LEMMA AnswerMarks ==
    ASSUME TypeOK, MarkInv, NEW c \in LoadCalls, Answer(c)
    PROVE  MarkInv'
<1> SUFFICES ASSUME NEW p \in Posts, p \notin muddled' PROVE KeptApart(p)'
  BY DEF MarkInv
<1>1. KeptApart(p)
  BY DEF MarkInv, Answer
<1>2. load[c].state = "served" /\ UNCHANGED <<react, signal>>
  BY DEF Answer, database
<1>3. \A r \in ReactCalls : ~Pending(r, p)
  BY <1>1, <1>2 DEF KeptApart, NoLoads
<1>4. \A r \in ReactCalls : ~Pending(r, p)'
  BY <1>2, <1>3 DEF Pending
<1>5. \A d \in LoadCalls : load'[d].state = "served" => load'[d] = load[d]
  BY DEF Answer, TypeOK, IdleCall
<1>6. OneReaction(p)' /\ NoLoads(p)' /\ ServedIsStored(p)'
  BY <1>4 DEF OneReaction, NoLoads, ServedIsStored
<1>7. \A k \in DOMAIN items : items[k].id = p => Fits(items[k].reaction, signal[p])
  BY <1>1, <1>3 DEF KeptApart, CardsFit
<1>8. \A k \in DOMAIN load[c].page :
        load[c].page[k].id = p => Fits(load[c].page[k].reaction, signal[p])
  BY <1>1, <1>2 DEF KeptApart, PagesFit, Fits
<1>9. \A k \in DOMAIN items' : items'[k].id = p => Fits(items'[k].reaction, signal[p])
  <2>1. items \in Seq(Shown) /\ load[c].page \in Seq(Shown)
    BY <1>2, LoadFields DEF TypeOK
  <2>2. items' = load[c].page \/ items' = items \o load[c].page
    BY DEF Answer
  <2>3. CASE items' = load[c].page
    BY <1>8, <2>3
  <2>4. CASE items' = items \o load[c].page
    <3> DEFINE j(k) == k - Len(items)
    <3>1. \A k \in DOMAIN items' :
            \/ k \in DOMAIN items /\ items'[k] = items[k]
            \/ j(k) \in DOMAIN load[c].page /\ items'[k] = load[c].page[j(k)]
      BY <2>1, <2>4, JoinedCards
    <3> HIDE DEF j
    <3> QED
      BY <1>7, <1>8, <3>1
  <2> QED
    BY <2>2, <2>3, <2>4
<1>10. CardsFit(p)'
  BY <1>2, <1>4, <1>9 DEF CardsFit
<1>11. PagesFit(p)'
  BY <1>1, <1>2, <1>5 DEF KeptApart, PagesFit
<1> QED
  BY <1>6, <1>10, <1>11 DEF KeptApart

LEMMA LoadFailsMarks ==
    ASSUME TypeOK, MarkInv, NEW c \in LoadCalls, LoadFails(c)
    PROVE  MarkInv'
<1>1. \A d \in LoadCalls : load'[d] = load[d] \/ load'[d].state = "idle"
  BY DEF LoadFails, TypeOK, IdleCall
<1>2. UNCHANGED <<react, signal, items, muddled>>
  BY DEF LoadFails, database, list
<1> QED
  BY <1>1, <1>2 DEF MarkInv, KeptApart, OneReaction, NoLoads, ServedIsStored, CardsFit,
                    PagesFit, Pending

LEMMA ServeLoadMarks ==
    ASSUME TypeOK, MarkInv, NEW c \in LoadCalls, ServeLoad(c)
    PROVE  MarkInv'
<1> SUFFICES ASSUME NEW p \in Posts, p \notin muddled' PROVE KeptApart(p)'
  BY DEF MarkInv
<1>1. KeptApart(p)
  BY DEF MarkInv, ServeLoad
<1>2. load[c].state = "waiting" /\ UNCHANGED <<react, signal, items>>
  BY DEF ServeLoad, database, list
<1>3. \A r \in ReactCalls : ~Pending(r, p)
  BY <1>1, <1>2 DEF KeptApart, NoLoads
<1>4. \A r \in ReactCalls : ~Pending(r, p)'
  BY <1>2, <1>3 DEF Pending
<1>5. OneReaction(p)' /\ NoLoads(p)' /\ ServedIsStored(p)'
  BY <1>4 DEF OneReaction, NoLoads, ServedIsStored
<1>6. CardsFit(p)'
  BY <1>1, <1>2, <1>3, <1>4 DEF KeptApart, CardsFit
<1>7. PICK s \in Pages(Rows(load[c].filter, load[c].token)) :
        load' = [load EXCEPT ![c] = Served(c, s)]
  BY ServeLoadEffect
<1>8. load \in [LoadCalls -> LoadStates]
  BY DEF TypeOK
<1>9. \A d \in LoadCalls \ {c} : load'[d] = load[d]
  BY <1>7, <1>8
<1>10. load'[c].page = Cards(s)
  BY <1>7, <1>8 DEF Served
<1>11. \A k \in DOMAIN Cards(s) : Cards(s)[k].id = p => Cards(s)[k].reaction = signal[p]
  BY DEF Cards, Reaction
<1>12. PagesFit(p)'
  BY <1>1, <1>2, <1>9, <1>10, <1>11 DEF KeptApart, PagesFit
<1> QED
  BY <1>5, <1>6, <1>12 DEF KeptApart

LEMMA ReactMarks ==
    ASSUME TypeOK, MarkInv, NEW c \in ReactCalls, NEW q \in Posts, NEW s \in Signals,
           React(c, q, s)
    PROVE  MarkInv'
<1> SUFFICES ASSUME NEW p \in Posts, p \notin muddled' PROVE KeptApart(p)'
  BY DEF MarkInv
<1>1. KeptApart(p)
  BY DEF MarkInv, React
<1>2. /\ react[c].state = "idle" /\ UNCHANGED <<load, signal>>
      /\ \A r \in ReactCalls \ {c} : react'[r] = react[r]
      /\ react'[c] = [state |-> "waiting", post |-> q, signal |-> s]
  BY DEF React, TypeOK, database
<1>3. DOMAIN items' = DOMAIN items
  BY DEF React, Marked
<1>4. CASE p # q
  <2>1. \A r \in ReactCalls : /\ Pending(r, p)' <=> Pending(r, p)
                              /\ Pending(r, p) => react'[r] = react[r]
    BY <1>2, <1>4 DEF Pending
  <2>2. \A k \in DOMAIN items : items[k].id = p \/ items'[k].id = p => items'[k] = items[k]
    <3>1. \A k \in DOMAIN items : items[k].id # q => items'[k] = items[k]
      BY DEF React, Marked
    <3>2. \A k \in DOMAIN items : items[k].id = q => items'[k].id = q
      <4>1. \A k \in DOMAIN items : items[k] \in Shown
        BY CardsShown
      <4> QED
        BY <4>1 DEF React, Marked, Shown
    <3> QED
      BY <1>4, <3>1, <3>2
  <2>3. OneReaction(p)' /\ NoLoads(p)' /\ ServedIsStored(p)'
    BY <1>1, <1>2, <2>1 DEF KeptApart, OneReaction, NoLoads, ServedIsStored
  <2>4. CardsFit(p)'
    BY <1>1, <1>2, <1>3, <2>1, <2>2 DEF KeptApart, CardsFit
  <2>5. PagesFit(p)'
    BY <1>1, <1>2 DEF KeptApart, PagesFit
  <2> QED
    BY <2>3, <2>4, <2>5 DEF KeptApart
<1>5. CASE p = q
  <2>1. ~Reacting(p) /\ InFlight(load) = {}
    BY <1>5 DEF React
  <2>2. \A r \in ReactCalls : ~Pending(r, p)
    BY <2>1, Calls DEF Reacting, Pending
  <2>3. \A d \in LoadCalls : load'[d].state = "idle"
    BY <1>2, <2>1, Calls
  <2>4. \A r \in ReactCalls : Pending(r, p)' => r = c
    BY <1>2, <2>2 DEF Pending
  <2>5. Pending(c, p)' /\ react'[c].state = "waiting" /\ react'[c].signal = s
    BY <1>2, <1>5 DEF Pending
  <2>6. OneReaction(p)' /\ NoLoads(p)' /\ ServedIsStored(p)' /\ PagesFit(p)'
    BY <2>3, <2>4, <2>5 DEF OneReaction, NoLoads, ServedIsStored, PagesFit
  <2>7. \A k \in DOMAIN items : items[k].id = p => Fits(items[k].reaction, signal[p])
    BY <1>1, <2>2 DEF KeptApart, CardsFit
  <2>8. signal[p] # "dislike"
    BY <1>5, <2>7 DEF React, Fits, TypeOK, Signals
  <2>9. \A k \in DOMAIN items : items[k].id = p =>
            items'[k].reaction = IF items[k].reaction = s THEN "" ELSE s
    <3>1. \A k \in DOMAIN items : items[k] \in Shown
      BY CardsShown
    <3> QED
      BY <1>5, <3>1 DEF React, Marked, Shown
  <2>10. \A k \in DOMAIN items : items'[k].id = p => items[k].id = p
    <3>1. \A k \in DOMAIN items : items[k].id # q => items'[k] = items[k]
      BY DEF React, Marked
    <3> QED
      BY <1>5, <3>1
  <2>11. \A k \in DOMAIN items : items'[k].id = p => Fits(items'[k].reaction, s)
    BY <2>7, <2>8, <2>9, <2>10 DEF Fits, Signals
  <2>12. CardsFit(p)'
    BY <1>3, <2>4, <2>5, <2>11 DEF CardsFit
  <2> QED
    BY <2>6, <2>12 DEF KeptApart
<1> QED
  BY <1>4, <1>5

LEMMA ReactDoneMarks ==
    ASSUME TypeOK, MarkInv, NEW c \in ReactCalls, ReactDone(c)
    PROVE  MarkInv'
<1> SUFFICES ASSUME NEW p \in Posts, p \notin muddled' PROVE KeptApart(p)'
  BY DEF MarkInv
<1>1. KeptApart(p)
  BY DEF MarkInv, ReactDone
<1>2. /\ react[c].state = "served" /\ UNCHANGED <<load, signal, items>>
      /\ \A r \in ReactCalls \ {c} : react'[r] = react[r]
      /\ react'[c].state = "idle"
  BY DEF ReactDone, TypeOK, database, list, IdleCall
<1>3. \A r \in ReactCalls : Pending(r, p)' => Pending(r, p) /\ react'[r] = react[r] /\ r # c
  BY <1>2 DEF Pending
<1>4. OneReaction(p)' /\ NoLoads(p)' /\ ServedIsStored(p)'
  BY <1>1, <1>2, <1>3 DEF KeptApart, OneReaction, NoLoads, ServedIsStored
<1>5. CardsFit(p)'
  <2>1. CASE Pending(c, p)
    <3>1. \A r \in ReactCalls : ~Pending(r, p)'
      BY <1>1, <1>3, <2>1 DEF KeptApart, OneReaction
    <3>2. signal[p] = react[c].signal
      BY <1>1, <1>2, <2>1 DEF KeptApart, ServedIsStored
    <3> QED
      BY <1>1, <1>2, <2>1, <3>1, <3>2 DEF KeptApart, CardsFit
  <2>2. CASE ~Pending(c, p)
    <3>1. \A r \in ReactCalls : Pending(r, p)' <=> Pending(r, p)
      BY <1>2, <1>3, <2>2 DEF Pending
    <3> QED
      BY <1>1, <1>2, <1>3, <3>1 DEF KeptApart, CardsFit
  <2> QED
    BY <2>1, <2>2
<1>6. PagesFit(p)'
  BY <1>1, <1>2 DEF KeptApart, PagesFit
<1> QED
  BY <1>4, <1>5, <1>6 DEF KeptApart

LEMMA ReactFailsMarks ==
    ASSUME TypeOK, MarkInv, NEW c \in ReactCalls, ReactFails(c)
    PROVE  MarkInv'
<1> SUFFICES ASSUME NEW p \in Posts, p \notin muddled' PROVE KeptApart(p)'
  BY DEF MarkInv
<1>1. KeptApart(p) /\ react[c].post # p
  BY DEF MarkInv, ReactFails
<1>2. /\ UNCHANGED <<load, signal>>
      /\ \A r \in ReactCalls \ {c} : react'[r] = react[r]
      /\ react'[c].state = "idle"
  BY DEF ReactFails, TypeOK, database, IdleCall
<1>3. \A r \in ReactCalls : /\ Pending(r, p)' <=> Pending(r, p)
                            /\ Pending(r, p) => react'[r] = react[r]
  BY <1>1, <1>2 DEF Pending
<1>4. DOMAIN items' = DOMAIN items
  BY DEF ReactFails, Marked
<1>5. \A k \in DOMAIN items : items'[k].id = p => items'[k] = items[k]
  <2>1. \A k \in DOMAIN items : items[k] \in Shown
    BY CardsShown
  <2>2. \A k \in DOMAIN items : items[k].id # react[c].post => items'[k] = items[k]
    BY DEF ReactFails, Marked
  <2>3. \A k \in DOMAIN items : items[k].id = react[c].post => items'[k].id = react[c].post
    BY <2>1 DEF ReactFails, Marked, Shown
  <2> QED
    BY <1>1, <2>2, <2>3
<1>6. OneReaction(p)' /\ NoLoads(p)' /\ ServedIsStored(p)'
  BY <1>1, <1>2, <1>3 DEF KeptApart, OneReaction, NoLoads, ServedIsStored
<1>7. CardsFit(p)'
  BY <1>1, <1>2, <1>3, <1>4, <1>5 DEF KeptApart, CardsFit
<1>8. PagesFit(p)'
  BY <1>1, <1>2 DEF KeptApart, PagesFit
<1> QED
  BY <1>6, <1>7, <1>8 DEF KeptApart

LEMMA ServeReactMarks ==
    ASSUME TypeOK, MarkInv, NEW c \in ReactCalls, ServeReact(c)
    PROVE  MarkInv'
<1> SUFFICES ASSUME NEW p \in Posts, p \notin muddled' PROVE KeptApart(p)'
  BY DEF MarkInv
<1>1. KeptApart(p)
  BY DEF MarkInv, ServeReact
<1>2. /\ react[c].state = "waiting" /\ UNCHANGED <<load, items>>
      /\ \A r \in ReactCalls \ {c} : react'[r] = react[r]
      /\ react'[c] = [react[c] EXCEPT !.state = "served"]
      /\ signal'[p] = IF react[c].post = p THEN react[c].signal ELSE signal[p]
  BY DEF ServeReact, TypeOK, list
<1>3. /\ react'[c].state = "served" /\ react'[c].post = react[c].post
      /\ react'[c].signal = react[c].signal
  <2>1. react[c] \in [state: {"waiting", "served"}, post: Posts, signal: Signals]
    BY <1>2, ReactFields
  <2> QED
    BY <1>2, <2>1
<1>4. \A r \in ReactCalls : /\ Pending(r, p)' <=> Pending(r, p)
                            /\ react'[r].signal = react[r].signal
  BY <1>2, <1>3 DEF Pending
<1>5. OneReaction(p)' /\ NoLoads(p)'
  BY <1>1, <1>2, <1>4 DEF KeptApart, OneReaction, NoLoads
<1>6. ServedIsStored(p)'
  <2> SUFFICES ASSUME NEW r \in ReactCalls, Pending(r, p)', react'[r].state = "served"
               PROVE  signal'[p] = react'[r].signal
    BY DEF ServedIsStored
  <2>1. CASE r = c
    BY <1>2, <1>3, <1>4, <2>1 DEF Pending
  <2>2. CASE r # c
    <3>1. Pending(r, p) /\ react[r].state = "served" /\ ~Pending(c, p)
      BY <1>1, <1>2, <1>4, <2>2 DEF KeptApart, OneReaction
    <3>2. react[c].post # p
      BY <1>2, <3>1 DEF Pending
    <3> QED
      BY <1>1, <1>2, <1>4, <3>1, <3>2 DEF KeptApart, ServedIsStored
  <2> QED
    BY <2>1, <2>2
<1>7. CASE Pending(c, p)
  <2>1. CardsFit(p)'
    BY <1>1, <1>2, <1>4, <1>7 DEF KeptApart, CardsFit
  <2>2. PagesFit(p)'
    BY <1>1, <1>2, <1>7 DEF KeptApart, NoLoads, PagesFit
  <2> QED
    BY <1>5, <1>6, <2>1, <2>2 DEF KeptApart
<1>8. CASE ~Pending(c, p)
  <2>1. signal'[p] = signal[p]
    BY <1>2, <1>8 DEF Pending
  <2>2. CardsFit(p)' /\ PagesFit(p)'
    BY <1>1, <1>2, <1>4, <2>1 DEF KeptApart, CardsFit, PagesFit
  <2> QED
    BY <1>5, <1>6, <2>2 DEF KeptApart
<1> QED
  BY <1>7, <1>8

LEMMA MarkStep == ASSUME TypeOK, MarkInv, [Next]_vars PROVE MarkInv'
<1>1. ASSUME NEW c \in LoadCalls,
             Refresh(c) \/ LoadMore(c) \/ \E f \in Filters : ChooseFilter(c, f)
      PROVE  MarkInv'
  BY <1>1, AskMarks DEF Refresh, LoadMore, ChooseFilter
<1>2. ASSUME UNCHANGED <<signal, items, load, react, muddled>> PROVE MarkInv'
  BY <1>2 DEF MarkInv, KeptApart, OneReaction, NoLoads, ServedIsStored, CardsFit, PagesFit,
              Pending
<1>3. ASSUME NEW i \in Items, NEW v \in Scores, Upsert(i, v) PROVE MarkInv'
  BY <1>2, <1>3 DEF Upsert, list
<1>4. ASSUME UNCHANGED vars PROVE MarkInv'
  BY <1>2, <1>4 DEF vars
<1> QED
  BY <1>1, <1>3, <1>4, AnswerMarks, LoadFailsMarks, ServeLoadMarks, ReactMarks, ReactDoneMarks,
     ReactFailsMarks, ServeReactMarks DEF Next

(* A card shows what post_reactions holds once the calls of its post have  *)
(* ended, unless one failed or overlapped another.                         *)
THEOREM MarksAreStored == Spec => []MarkIsStored
<1>1. Init => MarkInv
  <2> SUFFICES ASSUME Init PROVE MarkInv
    OBVIOUS
  <2>1. /\ \A c \in LoadCalls : load[c].state = "idle"
        /\ \A r \in ReactCalls : react[r].state = "idle"
    BY DEF Init, IdleCall
  <2>2. DOMAIN items = {}
    <3>1. DOMAIN <<>> = {}
      OBVIOUS
    <3> QED
      BY <3>1 DEF Init
  <2> QED
    BY <2>1, <2>2 DEF MarkInv, KeptApart, OneReaction, NoLoads, ServedIsStored, CardsFit,
                      PagesFit, Pending
<1>2. TypeOK /\ MarkInv /\ [Next]_vars => MarkInv'
  BY MarkStep
<1>3. TypeOK /\ MarkInv => MarkIsStored
  <2> SUFFICES ASSUME TypeOK, MarkInv, NEW k \in DOMAIN items,
                      items[k].id \in Posts \ muddled, ~Reacting(items[k].id)
               PROVE  Fits(items[k].reaction, signal[items[k].id])
    BY DEF MarkIsStored, Fits
  <2>1. \A r \in ReactCalls : ~Pending(r, items[k].id)
    BY Calls DEF Reacting, Pending
  <2> QED
    BY <2>1 DEF MarkInv, KeptApart, CardsFit
<1> QED
  BY <1>1, <1>2, <1>3, TypeCorrect, PTL DEF Spec

-----------------------------------------------------------------------------
(* Pages make the feed.                                                    *)

(* The same rows, and no more of them selected.                            *)
LEMMA HoldsKept ==
    ASSUME NEW cards, NEW cards2, NEW i, NEW v, NEW f, NEW t, NEW next, NEW sel, NEW sel2,
           DOMAIN cards2 = DOMAIN cards, \A k \in DOMAIN cards : cards2[k].id = cards[k].id,
           sel2 => sel, Holds(cards, i, v, sel, f, t, next)
    PROVE  Holds(cards2, i, v, sel2, f, t, next)
  BY DEF Holds

(* A page appended to the list above its cursor.                           *)
LEMMA HoldsJoined ==
    ASSUME NEW a \in Seq(Shown), NEW b \in Seq(Shown), NEW i, NEW v \in Scores \cup {None},
           NEW sel, NEW f, NEW t \in [value: Scores, id: Items], NEW next \in Tokens,
           sel => v # None, i \in Items, next # None => Below(next, t),
           Holds(a, i, v, sel, f, None, t), Holds(b, i, v, sel, f, t, next)
    PROVE  Holds(a \o b, i, v, sel, f, None, next)
<1> DEFINE j(k) == k - Len(a)
           ab == a \o b
<1>1. t # None
  BY NoneAssumption, ScoresAssumption, IdsAssumption DEF Items
<1>2. v # None => (next = None \/ ~Past(next, v, i) \/ Past(t, v, i))
  <2> SUFFICES ASSUME v # None, next # None, Past(next, v, i) PROVE Past(t, v, i)
    OBVIOUS
  <2>1. next \in [value: Scores, id: Items]
    BY DEF Tokens
  <2>2. v \in Nat /\ i \in Nat /\ t.value \in Nat /\ t.id \in Nat /\ next.value \in Nat
        /\ next.id \in Nat
    BY <2>1, ScoresAssumption, IdsAssumption DEF Items
  <2>3. Below(next, t)
    OBVIOUS
  <2> QED
    BY <2>2, <2>3 DEF Past, Below
<1>3. \A k \in DOMAIN ab : \/ k \in DOMAIN a /\ ab[k] = a[k]
                           \/ j(k) \in DOMAIN b /\ ab[k] = b[j(k)]
  BY JoinedCards
<1>4. /\ \A k \in DOMAIN a : k \in DOMAIN ab /\ ab[k] = a[k]
      /\ \A k \in DOMAIN b : \E m \in DOMAIN ab : ab[m] = b[k]
  <2>1. Len(a) \in Nat /\ Len(b) \in Nat /\ DOMAIN a = 1..Len(a) /\ DOMAIN b = 1..Len(b)
        /\ DOMAIN ab = 1..(Len(a) + Len(b))
    OBVIOUS
  <2>2. \A k \in DOMAIN a : k \in DOMAIN ab /\ ab[k] = a[k]
    BY <2>1
  <2>3. \A k \in DOMAIN b : k + Len(a) \in DOMAIN ab /\ ab[k + Len(a)] = b[k]
    BY <2>1
  <2> QED
    BY <2>2, <2>3
<1>5. \A k, m \in DOMAIN ab : j(k) = j(m) => k = m
  <2>1. Len(a) \in Nat /\ DOMAIN ab \subseteq Int
    OBVIOUS
  <2> QED
    BY <2>1
<1>6. \A k \in DOMAIN a : a[k].id = i => v # None /\ ~Past(t, v, i)
  BY <1>1 DEF Holds, Within
<1>7. \A k \in DOMAIN b : b[k].id = i => Past(t, v, i)
  BY <1>1 DEF Holds, Within
<1> HIDE DEF j, ab
<1>8. \A k, m \in DOMAIN ab : ab[k].id = i /\ ab[m].id = i => k = m
  BY <1>3, <1>5, <1>6, <1>7 DEF Holds
<1>9. \A k \in DOMAIN ab : ab[k].id = i =>
        i \in f.period /\ v # None /\ v >= f.min /\ Within(v, i, None, next)
  BY <1>2, <1>3, <1>6 DEF Holds, Within
<1>10. sel /\ Within(v, i, None, next) => \E k \in DOMAIN ab : ab[k].id = i
  BY <1>1, <1>4 DEF Holds, Within
<1>11. Holds(ab, i, v, sel, f, None, next)
  BY <1>8, <1>9, <1>10 DEF Holds
<1> QED
  BY <1>11 DEF ab

(* A page holds what lies between the cursor asked with and its own.       *)
LEMMA ServedHolds ==
    ASSUME TypeOK, ~Liked, NEW f \in Filters, NEW t \in Tokens, NEW s \in Pages(Rows(f, t)),
           NEW i \in Items
    PROVE  Holds(Cards(s), i, value[i], i \in Selected(f), f, t, NextToken(s, Rows(f, t)))
<1> DEFINE R == Rows(f, t)
           next == NextToken(s, R)
           last == s[Len(s)]
<1>1. PICK n \in 0..PageSize : s \in [1..n -> R]
  BY PageAssumption DEF Pages
<1>2. n \in Nat /\ Len(s) = n /\ DOMAIN s = 1..n
  BY <1>1, PageAssumption
<1>3. IsPage(s, R)
  BY DEF Pages
<1>4. \A j \in R : j \in Items /\ j \in Nat /\ value[j] \in Nat /\ j \in f.period
                   /\ value[j] # None /\ value[j] >= f.min
  BY FiltersAssumption, ScoresAssumption, IdsAssumption DEF Rows, Selected, TypeOK, Items
<1>5. \A j \in R : EffectiveValue(j) = value[j]
  <2>1. \A j \in R : Reaction(j) # "like"
    BY <1>4 DEF Reaction, Liked
  <2> QED
    BY <1>4, <2>1 DEF EffectiveValue
<1>6. \A j, k \in R : Ahead(j, k) <=> (value[j] > value[k] \/ (value[j] = value[k] /\ j < k))
  <2> SUFFICES ASSUME NEW j \in R, NEW k \in R
               PROVE  Ahead(j, k) <=> (value[j] > value[k] \/ (value[j] = value[k] /\ j < k))
    OBVIOUS
  <2>1. EffectiveValue(j) = value[j] /\ EffectiveValue(k) = value[k]
    BY <1>5
  <2> HIDE DEF R
  <2> QED
    BY <2>1 DEF Ahead
<1>7. \A a, b \in 1..n : s[a] = s[b] => a = b
  <2> SUFFICES ASSUME NEW a \in 1..n, NEW b \in 1..n, s[a] = s[b], a < b PROVE FALSE
    BY <1>2
  <2>1. Ahead(s[a], s[b]) /\ s[a] \in R /\ s[b] \in R
    BY <1>1, <1>2, <1>3 DEF IsPage
  <2> QED
    BY <1>4, <1>6, <2>1
<1>8. next # None => /\ n = PageSize /\ n \in 1..n /\ last = s[n] /\ last \in R
                     /\ next.value = value[last] /\ next.id = last
                     /\ \A j \in R : (\E a \in 1..n : s[a] = j) \/ Ahead(last, j)
  <2> SUFFICES ASSUME next # None
               PROVE  /\ n = PageSize /\ n \in 1..n /\ last = s[n] /\ last \in R
                      /\ next.value = value[last] /\ next.id = last
                      /\ \A j \in R : (\E a \in 1..n : s[a] = j) \/ Ahead(last, j)
    OBVIOUS
  <2>1. Len(s) \in 1..PageSize /\ last \in R /\ next = [value |-> value[last], id |-> last]
    BY NextTokenType
  <2>2. ~ \A j \in R : \E a \in DOMAIN s : s[a] = j
    BY DEF NextToken
  <2>3. n = PageSize
    BY <1>2, <1>3, <2>2 DEF IsPage
  <2>4. n \in 1..n /\ last = s[n]
    BY <1>2, <2>1
  <2>5. \A j \in R : (\E a \in 1..n : s[a] = j) \/ Ahead(last, j)
    BY <1>2, <1>3, <2>4 DEF IsPage
  <2> QED
    BY <2>1, <2>3, <2>4, <2>5
<1>9. \A a \in 1..n : next # None => ~Past(next, value[s[a]], s[a])
  <2> SUFFICES ASSUME NEW a \in 1..n, next # None PROVE ~Past(next, value[s[a]], s[a])
    OBVIOUS
  <2>1. s[a] \in R /\ (s[a] = last \/ Ahead(s[a], last))
    BY <1>1, <1>2, <1>3, <1>8 DEF IsPage
  <2> HIDE DEF next, last
  <2> QED
    BY <1>4, <1>6, <1>8, <2>1 DEF Past
<1>10. \A j \in R : t # None => Past(t, value[j], j)
  BY DEF Rows, After, Past
<1>11. /\ DOMAIN Cards(s) = 1..n
       /\ \A k \in 1..n : Cards(s)[k].id = s[k]
  BY <1>2 DEF Cards
<1>12. i \in Selected(f) /\ Within(value[i], i, t, next) => \E k \in 1..n : s[k] = i
  <2> SUFFICES ASSUME i \in Selected(f), Within(value[i], i, t, next)
               PROVE  \E k \in 1..n : s[k] = i
    OBVIOUS
  <2>1. i \in R
    BY DEF Rows, Within, After, Past
  <2>2. CASE next = None
    <3>1. t \in Tokens
      OBVIOUS
    <3>2. CASE \A j \in R : \E a \in DOMAIN s : s[a] = j
      BY <1>2, <2>1, <3>2
    <3>3. CASE ~ \A j \in R : \E a \in DOMAIN s : s[a] = j
      <4>1. next = [value |-> value[last], id |-> last]
        BY <3>3 DEF NextToken
      <4>2. Len(s) = PageSize
        BY <1>3, <3>3 DEF IsPage
      <4>3. last \in R
        BY <1>1, <1>2, <4>2, PageAssumption
      <4>4. next \in [value: Nat, id: Nat]
        BY <1>4, <4>1, <4>3
      <4> QED
        BY <2>2, <4>4, NoneAssumption
    <3> QED
      BY <3>2, <3>3
  <2>3. CASE next # None
    <3>1. ~Past(next, value[i], i)
      BY <2>3 DEF Within
    <3> HIDE DEF next, last
    <3>2. ~Ahead(last, i)
      BY <1>4, <1>6, <1>8, <2>1, <2>3, <3>1 DEF Past
    <3> QED
      BY <1>8, <2>1, <2>3, <3>2
  <2> QED
    BY <2>2, <2>3
<1> HIDE DEF next, last
<1>13. \A k \in 1..n : s[k] \in R
  BY <1>1
<1>14. \A k \in 1..n : s[k] = i =>
        i \in f.period /\ value[i] # None /\ value[i] >= f.min /\ Within(value[i], i, t, next)
  BY <1>4, <1>9, <1>10, <1>13 DEF Within
<1>15. Holds(Cards(s), i, value[i], i \in Selected(f), f, t, next)
  BY <1>7, <1>11, <1>12, <1>14 DEF Holds
<1> QED
  BY <1>15 DEF next

SinceShape == [alone: BOOLEAN, likes: {"none", "before", "since"}, moved: SUBSET Items]

(* Nothing the invariant speaks of changes but the marks of the cards.     *)
LEMMA SamePages ==
    ASSUME PageInv, UNCHANGED <<value, signal, filter, token, load, since>>,
           DOMAIN items' = DOMAIN items, \A k \in DOMAIN items : items'[k].id = items[k].id
    PROVE  PageInv'
<1>1. Selected(filter)' = Selected(filter) /\ (Liked' <=> Liked)
  BY DEF Selected, Reaction, Liked
<1>2. NoLikes' /\ OneLoad'
  BY <1>1 DEF PageInv, NoLikes, OneLoad
<1>3. PageHolds'
  BY <1>1 DEF PageInv, PageHolds, Quiet
<1>4. ListHolds'
  BY <1>1, HoldsKept DEF PageInv, ListHolds, Quiet
<1> QED
  BY <1>2, <1>3, <1>4 DEF PageInv

(* Marking cards leaves the rows they stand for.                           *)
LEMMA MarkedIds ==
    ASSUME TypeOK, NEW c \in ReactCalls,
           ReactFails(c) \/ \E p \in Posts, s \in Signals : React(c, p, s)
    PROVE  DOMAIN items' = DOMAIN items /\ \A k \in DOMAIN items : items'[k].id = items[k].id
<1>1. \A k \in DOMAIN items : items[k] \in Shown
  BY CardsShown
<1>2. CASE ReactFails(c)
  <2>1. items' = [k \in DOMAIN items |->
            IF items[k].id = react[c].post THEN [items[k] EXCEPT !.reaction = ""] ELSE items[k]]
    BY <1>2 DEF ReactFails, Marked
  <2> QED
    BY <1>1, <2>1 DEF Shown
<1>3. ASSUME NEW p \in Posts, NEW s \in Signals, React(c, p, s)
      PROVE  DOMAIN items' = DOMAIN items /\ \A k \in DOMAIN items : items'[k].id = items[k].id
  <2>1. items' = [k \in DOMAIN items |->
            IF items[k].id = p
            THEN [items[k] EXCEPT !.reaction = IF items[k].reaction = s THEN "" ELSE s]
            ELSE items[k]]
    BY <1>3 DEF React, Marked
  <2> QED
    BY <1>1, <2>1 DEF Shown
<1> QED
  BY <1>2, <1>3

LEMMA AskPages ==
    ASSUME TypeOK, PageInv, NEW c \in LoadCalls, NEW f, NEW t, Ask(c, f, t),
           t = None \/ (t = token /\ f = filter)
    PROVE  PageInv'
<1>1. /\ load[c].state = "idle" /\ filter' = f /\ since' = NewSince(t)
      /\ UNCHANGED <<value, signal, items, token>>
      /\ \A d \in LoadCalls \ {c} : load'[d] = load[d]
      /\ load'[c] = [state |-> "waiting", filter |-> f, token |-> t, page |-> <<>>, next |-> None]
  BY DEF Ask, TypeOK, database, list
<1>2. since \in SinceShape /\ (Liked' <=> Liked)
  BY <1>1 DEF TypeOK, SinceShape, Liked
<1>3. CASE InFlight(load) # {}
  <2>1. since'.alone = FALSE /\ since'.likes = since.likes
    BY <1>1, <1>2, <1>3 DEF NewSince, SinceShape
  <2> QED
    BY <1>2, <2>1 DEF PageInv, NoLikes, OneLoad, PageHolds, ListHolds, Quiet
<1>4. CASE InFlight(load) = {}
  <2>1. \A d \in LoadCalls : load[d].state = "idle"
    BY <1>4, Calls
  <2>2. \A d \in LoadCalls : load'[d].state # "idle" => d = c
    BY <1>1, <2>1
  <2>3. load'[c].state = "waiting" /\ load'[c].filter = filter' /\ load'[c].token = t
    BY <1>1
  <2>4. OneLoad' /\ PageHolds'
    BY <1>1, <2>2, <2>3 DEF OneLoad, PageHolds
  <2>5. CASE t = None
    <3>1. NoLikes'
      BY <1>1, <1>2, <1>4, <2>5 DEF NewSince, NoLikes
    <3>2. ListHolds'
      BY <2>3, <2>5 DEF ListHolds
    <3> QED
      BY <2>4, <3>1, <3>2 DEF PageInv
  <2>6. CASE t # None
    <3>1. since' = since /\ filter' = filter
      BY <1>1, <1>4, <2>6 DEF NewSince
    <3>2. Selected(filter)' = Selected(filter)
      BY <1>1, <3>1 DEF Selected, Reaction
    <3>3. NoLikes'
      BY <1>2, <3>1 DEF PageInv, NoLikes
    <3>4. ListHolds'
      BY <1>1, <2>1, <3>1, <3>2 DEF PageInv, ListHolds, Quiet
    <3> QED
      BY <2>4, <3>3, <3>4 DEF PageInv
  <2> QED
    BY <2>5, <2>6
<1> QED
  BY <1>3, <1>4

LEMMA AnswerPages ==
    ASSUME TypeOK, CursorDescends, PageInv, NEW c \in LoadCalls, Answer(c)
    PROVE  PageInv'
<1> DEFINE l == load[c]
<1>1. /\ l.state = "served" /\ UNCHANGED <<value, signal, filter, since>> /\ token' = l.next
      /\ items' = (IF l.token = None THEN l.page ELSE items \o l.page)
      /\ \A d \in LoadCalls \ {c} : load'[d] = load[d]
      /\ load'[c].state = "idle"
  BY DEF Answer, TypeOK, database, IdleCall
<1>2. Selected(filter)' = Selected(filter) /\ (Liked' <=> Liked)
  BY <1>1 DEF Selected, Reaction, Liked
<1>3. NoLikes'
  BY <1>1, <1>2 DEF PageInv, NoLikes
<1>4. CASE ~since.alone
  BY <1>1, <1>3, <1>4 DEF PageInv, OneLoad, PageHolds, ListHolds, Quiet
<1>5. CASE since.alone
  <2>1. \A d \in LoadCalls : load'[d].state = "idle"
    BY <1>1, <1>5 DEF PageInv, OneLoad
  <2>2. OneLoad' /\ PageHolds'
    BY <2>1 DEF OneLoad, PageHolds
  <2>3. ASSUME Quiet, NEW i \in Items \ since.moved
        PROVE  Holds(items', i, value[i], i \in Selected(filter), filter, None, token')
    <3>1. Holds(l.page, i, value[i], i \in Selected(filter), filter, l.token, l.next)
      BY <1>1, <2>3 DEF PageInv, PageHolds
    <3>2. CASE l.token = None
      BY <1>1, <3>1, <3>2
    <3>3. CASE l.token # None
      <4>1. l.token = token
        BY <1>1, <1>5, <3>3 DEF PageInv, OneLoad
      <4>2. Holds(items, i, value[i], i \in Selected(filter), filter, None, token)
        <5>1. \A d \in LoadCalls : load[d].state # "idle" => load[d].token # None
          BY <1>1, <1>5, <3>3 DEF PageInv, OneLoad
        <5> QED
          BY <2>3, <5>1 DEF PageInv, ListHolds
      <4>3. items \in Seq(Shown) /\ l.page \in Seq(Shown) /\ l.next \in Tokens
        BY <1>1, LoadFields DEF TypeOK
      <4>4. token \in [value: Scores, id: Items]
        BY <3>3, <4>1 DEF TypeOK, Tokens
      <4>5. l.next # None => Below(l.next, token)
        BY <1>1, <3>3, <4>1, Calls DEF CursorDescends
      <4>6. value[i] \in Scores \cup {None} /\ (i \in Selected(filter) => value[i] # None)
        BY DEF TypeOK, Selected
      <4> HIDE DEF l
      <4>7. Holds(items \o l.page, i, value[i], i \in Selected(filter), filter, None, l.next)
        BY <3>1, <4>1, <4>2, <4>3, <4>4, <4>5, <4>6, HoldsJoined
      <4> QED
        BY <1>1, <3>3, <4>7
    <3> QED
      BY <3>2, <3>3
  <2>4. ListHolds'
    BY <1>1, <1>2, <2>3 DEF ListHolds, Quiet
  <2> QED
    BY <1>3, <2>2, <2>4 DEF PageInv
<1> QED
  BY <1>4, <1>5

LEMMA LoadFailsPages ==
    ASSUME TypeOK, PageInv, NEW c \in LoadCalls, LoadFails(c)
    PROVE  PageInv'
<1>1. /\ load[c].state # "idle" /\ UNCHANGED <<value, signal, filter, items, token>>
      /\ since' = (IF load[c].token = None THEN [since EXCEPT !.alone = FALSE] ELSE since)
      /\ \A d \in LoadCalls \ {c} : load'[d] = load[d]
      /\ load'[c].state = "idle"
  BY DEF LoadFails, TypeOK, database, list, IdleCall
<1>2. Selected(filter)' = Selected(filter) /\ (Liked' <=> Liked)
  BY <1>1 DEF Selected, Reaction, Liked
<1>3. since \in SinceShape
  BY DEF TypeOK, SinceShape
<1>4. since'.likes = since.likes /\ (since'.alone => since' = since)
  BY <1>1, <1>3 DEF SinceShape
<1>5. NoLikes'
  BY <1>2, <1>4 DEF PageInv, NoLikes
<1>6. CASE ~since'.alone
  BY <1>5, <1>6 DEF PageInv, OneLoad, PageHolds, ListHolds, Quiet
<1>7. CASE since'.alone
  <2>1. since' = since /\ since.alone /\ load[c].token # None
    BY <1>1, <1>3, <1>4, <1>7 DEF SinceShape
  <2>2. \A d \in LoadCalls : load'[d].state = "idle" /\ (load[d].state # "idle" => d = c)
    BY <1>1, <2>1 DEF PageInv, OneLoad
  <2>3. OneLoad' /\ PageHolds'
    BY <2>2 DEF OneLoad, PageHolds
  <2>4. ListHolds'
    BY <1>1, <1>2, <2>1, <2>2 DEF PageInv, ListHolds, Quiet
  <2> QED
    BY <1>5, <2>3, <2>4 DEF PageInv
<1> QED
  BY <1>6, <1>7

LEMMA ServeLoadPages ==
    ASSUME TypeOK, PageInv, NEW c \in LoadCalls, ServeLoad(c)
    PROVE  PageInv'
<1>1. load[c].state = "waiting" /\ UNCHANGED <<value, signal, filter, items, token, since>>
  BY DEF ServeLoad, database, list
<1>2. PICK s \in Pages(Rows(load[c].filter, load[c].token)) :
        load' = [load EXCEPT ![c] = Served(c, s)]
  BY ServeLoadEffect
<1>3. /\ \A d \in LoadCalls \ {c} : load'[d] = load[d]
      /\ load'[c] = Served(c, s)
  BY <1>2 DEF TypeOK
<1>4. /\ load'[c].state = "served" /\ load'[c].filter = load[c].filter
      /\ load'[c].token = load[c].token /\ load'[c].page = Cards(s)
      /\ load'[c].next = NextToken(s, Rows(load[c].filter, load[c].token))
  BY <1>3 DEF Served
<1>5. Selected(filter)' = Selected(filter) /\ (Liked' <=> Liked)
  BY <1>1 DEF Selected, Reaction, Liked
<1>6. NoLikes' /\ OneLoad'
  BY <1>1, <1>3, <1>4, <1>5 DEF PageInv, NoLikes, OneLoad
<1>7. PageHolds'
  <2> SUFFICES ASSUME Quiet, NEW d \in LoadCalls, load'[d].state = "served",
                      NEW i \in Items \ since.moved
               PROVE  Holds(load'[d].page, i, value[i], i \in Selected(filter), filter,
                            load'[d].token, load'[d].next)
    BY <1>1, <1>5 DEF PageHolds, Quiet
  <2>1. d = c /\ load[c].filter = filter /\ ~Liked
    BY <1>1, <1>3 DEF PageInv, OneLoad, NoLikes, Quiet
  <2>2. load[c].filter \in Filters /\ load[c].token \in Tokens
    BY <1>1, LoadFields
  <2>3. Holds(Cards(s), i, value[i], i \in Selected(load[c].filter), load[c].filter,
              load[c].token, NextToken(s, Rows(load[c].filter, load[c].token)))
    BY <2>1, <2>2, ServedHolds
  <2> QED
    BY <1>4, <2>1, <2>3
<1>8. ListHolds'
  <2>1. \A d \in LoadCalls : load'[d].token = load[d].token
                             /\ (load[d].state # "idle" => load'[d].state # "idle")
    BY <1>3, <1>4
  <2> QED
    BY <1>1, <1>5, <2>1 DEF PageInv, ListHolds, Quiet
<1> QED
  BY <1>6, <1>7, <1>8 DEF PageInv

LEMMA ServeReactPages ==
    ASSUME TypeOK, PageInv, NEW c \in ReactCalls, ServeReact(c)
    PROVE  PageInv'
<1>1. /\ react[c].post \in Posts /\ react[c].signal \in Signals
      /\ signal' = [signal EXCEPT ![react[c].post] = react[c].signal]
      /\ since' = [since EXCEPT !.likes = IF react[c].signal = "like" THEN "since" ELSE @]
      /\ UNCHANGED <<value, filter, items, token, load>>
  BY ReactFields DEF ServeReact, list
<1>2. since \in SinceShape /\ signal \in [Posts -> Signals \cup {""}]
  BY DEF TypeOK, SinceShape
<1>3. CASE react[c].signal = "like"
  <2>1. since'.likes = "since" /\ since'.alone = since.alone
    BY <1>1, <1>2, <1>3 DEF SinceShape
  <2> QED
    BY <1>1, <2>1 DEF PageInv, NoLikes, OneLoad, PageHolds, ListHolds, Quiet
<1>4. CASE react[c].signal = "dislike"
  <2>1. since' = since
    BY <1>1, <1>2, <1>4 DEF SinceShape
  <2>2. \A p \in Posts : signal'[p] = signal[p] \/ signal'[p] = "dislike"
    BY <1>1, <1>2, <1>4
  <2>3. (Liked' => Liked) /\ (\A i \in Items : i \in Selected(filter)' => i \in Selected(filter))
    BY <1>1, <2>2 DEF Liked, Selected, Reaction
  <2>4. NoLikes' /\ OneLoad'
    BY <1>1, <2>1, <2>3 DEF PageInv, NoLikes, OneLoad
  <2>5. PageHolds'
    BY <1>1, <2>1, <2>3, HoldsKept DEF PageInv, PageHolds, Quiet
  <2>6. ListHolds'
    BY <1>1, <2>1, <2>3, HoldsKept DEF PageInv, ListHolds, Quiet
  <2> QED
    BY <2>4, <2>5, <2>6 DEF PageInv
<1> QED
  BY <1>1, <1>3, <1>4 DEF Signals

LEMMA UpsertPages ==
    ASSUME TypeOK, PageInv, NEW i \in Items, NEW v \in Scores, Upsert(i, v)
    PROVE  PageInv'
<1>1. /\ UNCHANGED <<signal, filter, items, token, load>>
      /\ value' = [value EXCEPT ![i] = v] /\ since' = [since EXCEPT !.moved = @ \cup {i}]
  BY DEF Upsert, list
<1>2. since \in SinceShape /\ value \in [Items -> Scores \cup {None}]
  BY DEF TypeOK, SinceShape
<1>3. /\ since'.alone = since.alone /\ since'.likes = since.likes
      /\ since'.moved = since.moved \cup {i}
  BY <1>1, <1>2 DEF SinceShape
<1>4. \A j \in Items \ since'.moved :
        /\ value'[j] = value[j] /\ j \in Items \ since.moved
        /\ (j \in Selected(filter)' <=> j \in Selected(filter))
  BY <1>1, <1>2, <1>3 DEF Selected, Reaction
<1>5. NoLikes' /\ OneLoad'
  BY <1>1, <1>3 DEF PageInv, NoLikes, OneLoad, Liked
<1>6. PageHolds'
  BY <1>1, <1>3, <1>4, HoldsKept DEF PageInv, PageHolds, Quiet
<1>7. ListHolds'
  BY <1>1, <1>3, <1>4, HoldsKept DEF PageInv, ListHolds, Quiet
<1> QED
  BY <1>5, <1>6, <1>7 DEF PageInv

LEMMA PageStep ==
    ASSUME TypeOK, CursorDescends, PageInv, [Next]_vars PROVE PageInv'
<1>1. ASSUME NEW c \in LoadCalls,
             Refresh(c) \/ LoadMore(c) \/ \E f \in Filters : ChooseFilter(c, f)
      PROVE  PageInv'
  BY <1>1, AskPages DEF Refresh, LoadMore, ChooseFilter
<1>2. ASSUME NEW c \in ReactCalls, NEW p \in Posts, NEW s \in Signals, React(c, p, s)
      PROVE  PageInv'
  BY <1>2, SamePages, MarkedIds DEF React, database
<1>3. ASSUME NEW c \in ReactCalls, ReactFails(c) PROVE PageInv'
  BY <1>3, SamePages, MarkedIds DEF ReactFails, database
<1>4. ASSUME NEW c \in ReactCalls, ReactDone(c) PROVE PageInv'
  BY <1>4, SamePages DEF ReactDone, database, list
<1>5. ASSUME UNCHANGED vars PROVE PageInv'
  BY <1>5, SamePages DEF vars
<1> QED
  BY <1>1, <1>2, <1>3, <1>4, <1>5, AnswerPages, LoadFailsPages, ServeLoadPages,
     ServeReactPages, UpsertPages DEF Next

(* The pages put one after the other are the feed, while no like is stored *)
(* and the calls of the feed do not overlap.                               *)
THEOREM PagesAreTheFeed == Spec => []PagesMakeTheFeed
<1>1. Init => PageInv
  <2> SUFFICES ASSUME Init PROVE PageInv
    OBVIOUS
  <2>1. since.alone = FALSE /\ ~Liked
    BY DEF Init, Liked
  <2> QED
    BY <2>1 DEF PageInv, NoLikes, OneLoad, PageHolds, ListHolds, Quiet
<1>2. TypeOK /\ CursorDescends /\ PageInv /\ [Next]_vars => PageInv'
  BY PageStep
<1>3. TypeOK /\ PageInv => PagesMakeTheFeed
  <2> SUFFICES ASSUME TypeOK, PageInv, Settled, since.likes = "none", NEW i \in Items \ since.moved
               PROVE  ShownOnce(i)
    BY DEF PagesMakeTheFeed
  <2>1. Quiet /\ \A c \in LoadCalls : load[c].state # "idle" => load[c].token # None
    BY Calls DEF Settled, Quiet
  <2>2. Holds(items, i, value[i], i \in Selected(filter), filter, None, token)
    BY <2>1 DEF PageInv, ListHolds
  <2> QED
    BY <2>2 DEF Holds, Within, ShownOnce, Copies, After, Past
<1> QED
  BY <1>1, <1>2, <1>3, TypeCorrect, CursorsDescend, PTL DEF Spec
=============================================================================
