---------------------------- MODULE IngestProofs ----------------------------
(* OneEventPerPost and TypeOK of Ingest for every set of sources, items    *)
(* and processes and every number of faults.                               *)
EXTENDS Ingest, SequenceTheorems, FiniteSetTheorems, TLAPS

(* The part of TypeOK the counters need; what the processes carry does not *)
(* matter to them.                                                         *)
Counters ==
    /\ announced \in [Items -> Nat] /\ written \in [Items -> Nat]
    /\ left \in [faults: Int, edits: Int]

IInv == Counters /\ OneEventPerPost

LEMMA SpendLeaves ==
    ASSUME Counters, NEW what \in {"faults", "edits"}, Spend(what)
    PROVE  /\ left' \in [faults: Int, edits: Int]
           /\ left'.edits = left.edits - (IF what = "edits" THEN 1 ELSE 0)
<1>1. left \in [faults: Int, edits: Int] /\ left' = [left EXCEPT ![what] = @ - 1]
  BY DEF Counters, Spend
<1>2. CASE what = "edits"
  BY <1>1, <1>2
<1>3. CASE what = "faults"
  BY <1>1, <1>3
<1> QED
  BY <1>2, <1>3

(* A step that writes no table and allows no more edits than before.       *)
LEMMA Untouched ==
    ASSUME IInv, UNCHANGED <<post, announced, written>>,
           left' \in [faults: Int, edits: Int], left'.edits <= left.edits
    PROVE  IInv'
<1>1. Counters'
  BY DEF IInv, Counters
<1>2. ASSUME NEW i \in Items
      PROVE  written[i] <= (IF i \in post THEN 1 ELSE 0) + (MaxEdits - left'.edits)
  <2> DEFINE stored == IF i \in post THEN 1 ELSE 0
  <2>1. written[i] <= stored + (MaxEdits - left.edits)
    BY DEF IInv, OneEventPerPost
  <2>2. written[i] \in Int /\ left.edits \in Int /\ left'.edits \in Int /\ stored \in Int
    BY DEF IInv, Counters
  <2> HIDE DEF stored
  <2>3. written[i] <= stored + (MaxEdits - left'.edits)
    BY <2>1, <2>2, BoundsAssumption
  <2> QED
    BY <2>3 DEF stored
<1>3. OneEventPerPost'
  BY <1>2 DEF IInv, OneEventPerPost
<1> QED
  BY <1>1, <1>3 DEF IInv

(* The transaction of Create: the row, the event and the counter go        *)
(* together.                                                               *)
LEMMA SavePostInvariant == ASSUME IInv, NEW p \in Procs, SavePost(p) PROVE IInv'
<1> DEFINE i == Head(run[p].items)
<1>1. /\ post' = post \cup {i} /\ left' = left
      /\ written' = [written EXCEPT ![i] = IF i \notin post THEN @ + 1 ELSE @]
      /\ announced' = [announced EXCEPT ![i] =
            IF SelfContained(Home[i]) /\ i \notin post THEN @ + 1 ELSE @]
  BY DEF SavePost, Insert
<1> HIDE DEF i
<1>2. Counters'
  <2>1. announced \in [Items -> Nat] /\ written \in [Items -> Nat]
        /\ left \in [faults: Int, edits: Int]
    BY DEF IInv, Counters
  <2>2. \A k \in Items : written[k] + 1 \in Nat /\ announced[k] + 1 \in Nat
    BY <2>1
  <2>3. written' \in [Items -> Nat]
    BY <1>1, <2>1, <2>2
  <2>4. announced' \in [Items -> Nat]
    BY <1>1, <2>1, <2>2
  <2> QED
    BY <1>1, <2>1, <2>3, <2>4 DEF Counters
<1> SUFFICES ASSUME NEW j \in Items
             PROVE  /\ announced'[j] = IF SelfContained(Home[j]) THEN written'[j] ELSE 0
                    /\ written'[j] <= (IF j \in post' THEN 1 ELSE 0) + (MaxEdits - left'.edits)
  BY <1>2 DEF IInv, OneEventPerPost
<1>3. /\ announced[j] = IF SelfContained(Home[j]) THEN written[j] ELSE 0
      /\ written[j] <= (IF j \in post THEN 1 ELSE 0) + (MaxEdits - left.edits)
      /\ announced[j] \in Nat /\ written[j] \in Nat
      /\ left.edits \in Int
  BY DEF IInv, OneEventPerPost, Counters
<1>4. CASE j = i /\ i \notin post
  <2>1. written'[j] = written[j] + 1 /\ j \in post'
    BY <1>1, <1>4 DEF IInv, Counters
  <2>2. announced'[j] = IF SelfContained(Home[j]) THEN announced[j] + 1 ELSE announced[j]
    BY <1>1, <1>4 DEF IInv, Counters
  <2> QED
    BY <1>1, <1>3, <1>4, <2>1, <2>2, BoundsAssumption
<1>5. CASE j # i \/ i \in post
  <2>1. written'[j] = written[j] /\ announced'[j] = announced[j] /\ (j \in post' <=> j \in post)
    BY <1>1, <1>5 DEF IInv, Counters
  <2> QED
    BY <1>1, <1>3, <2>1
<1> QED
  BY <1>4, <1>5

(* A deleted row is paid for with an edit: the next insertion is one more. *)
LEMMA DeletePostInvariant == ASSUME IInv, NEW i \in Items, DeletePost(i) PROVE IInv'
<1>1. /\ post' = post \ {i} /\ UNCHANGED <<announced, written>>
      /\ Spend("edits")
  BY DEF DeletePost
<1>2. left' \in [faults: Int, edits: Int] /\ left'.edits = left.edits - 1
  BY <1>1, SpendLeaves DEF IInv
<1>3. Counters'
  BY <1>1, <1>2 DEF IInv, Counters
<1>4. ASSUME NEW j \in Items
      PROVE  written[j] <= (IF j \in post' THEN 1 ELSE 0) + (MaxEdits - left'.edits)
  <2>1. written[j] <= (IF j \in post THEN 1 ELSE 0) + (MaxEdits - left.edits)
        /\ written[j] \in Nat /\ left.edits \in Int
    BY DEF IInv, OneEventPerPost, Counters
  <2> QED
    BY <1>1, <1>2, <2>1, BoundsAssumption
<1>5. OneEventPerPost'
  BY <1>1, <1>4 DEF IInv, OneEventPerPost
<1> QED
  BY <1>3, <1>5 DEF IInv

LEMMA Step == ASSUME IInv, [Next]_vars PROVE IInv'
<1>0. left \in [faults: Int, edits: Int] /\ left.edits \in Int /\ left.edits <= left.edits
  BY DEF IInv, Counters
<1>1. ASSUME UNCHANGED <<post, announced, written, left>> PROVE IInv'
  BY <1>0, <1>1, Untouched
<1>2. ASSUME UNCHANGED <<post, announced, written>>, NEW what \in {"faults", "edits"}, Spend(what)
      PROVE  IInv'
  <2>1. left' \in [faults: Int, edits: Int]
        /\ left'.edits = left.edits - (IF what = "edits" THEN 1 ELSE 0)
    BY <1>2, SpendLeaves DEF IInv
  <2>2. left'.edits <= left.edits
    BY <1>0, <2>1
  <2> QED
    BY <1>2, <2>1, <2>2, Untouched
<1>3. ASSUME NEW p \in Procs, Create(p) PROVE IInv'
  <2>1. CASE SavePost(p)
    BY <2>1, SavePostInvariant
  <2>2. CASE GetSource(p) \/ Reread(p) \/ SaveOrphan(p) \/ SaveRefused(p)
    BY <1>1, <2>2 DEF GetSource, Reread, SaveOrphan, SaveRefused, tables
  <2> QED
    BY <1>3, <2>1, <2>2 DEF Create
<1>4. ASSUME NEW c \in Collectors, Collect(c) \/ ListFails(c) \/ FetchFails(c) PROVE IInv'
  <2>1. CASE Tick(c) \/ ListSources(c) \/ Fetch(c) \/ FetchBroken(c)
    BY <1>1, <2>1 DEF Tick, ListSources, Fetch, FetchBroken, tables
  <2>2. CASE ListFails(c) \/ FetchFails(c)
    BY <1>2, <2>2 DEF ListFails, FetchFails, tables
  <2> QED
    BY <1>3, <1>4, <2>1, <2>2 DEF Collect, Procs
<1>5. ASSUME NEW h \in Handlers, Handle(h) PROVE IInv'
  <2>1. CASE Resolve(h) \/ \E i \in inbox : Take(h, i)
    BY <1>1, <2>1 DEF Resolve, Take, tables
  <2> QED
    BY <1>3, <1>5, <2>1 DEF Handle, Procs
<1>6. ASSUME NEW c \in Clients, NEW i \in Items, CreatePost(c, i) PROVE IInv'
  BY <1>1, <1>6 DEF CreatePost, tables
<1>7. ASSUME NEW p \in Procs, CreateFails(p) PROVE IInv'
  BY <1>2, <1>7 DEF CreateFails, tables
<1>8. ASSUME NEW i \in Items, Publish(i) PROVE IInv'
  BY <1>1, <1>8 DEF Publish, tables
<1>9. ASSUME NEW s \in Sources, AddSource(s) \/ DeleteSource(s) PROVE IInv'
  BY <1>2, <1>9 DEF AddSource, DeleteSource
<1>10. ASSUME SessionEnds \/ Restart PROVE IInv'
  BY <1>2, <1>10 DEF SessionEnds, Restart, tables
<1>11. ASSUME UNCHANGED vars PROVE IInv'
  BY <1>1, <1>11 DEF vars, tables
<1>12. \A c \in Clients : c \in Procs
  BY DEF Procs
<1> QED
  BY <1>3, <1>4, <1>5, <1>6, <1>7, <1>8, <1>9, <1>10, <1>11, <1>12, DeletePostInvariant DEF Next

(* However often an item is collected, by whom and with whichever failures *)
(* and restarts, the outbox holds one event per row a self-contained       *)
(* source ever had, and none for a cumulative one.                         *)
THEOREM OneEventPerInsertedPost == Spec => []OneEventPerPost
<1>1. Init => IInv
  <2> SUFFICES ASSUME Init PROVE IInv
    OBVIOUS
  <2>1. MaxFaults \in Int /\ MaxEdits \in Int /\ MaxEdits - MaxEdits = 0 /\ 0 \in Nat
    BY BoundsAssumption
  <2>2. left = [faults |-> MaxFaults, edits |-> MaxEdits] /\ post = {}
        /\ announced = [i \in Items |-> 0] /\ written = [i \in Items |-> 0]
    BY DEF Init
  <2>3. left.edits = MaxEdits /\ left \in [faults: Int, edits: Int]
    BY <2>1, <2>2
  <2>4. Counters
    BY <2>1, <2>2, <2>3 DEF Counters
  <2>5. OneEventPerPost
    BY <2>1, <2>2, <2>3 DEF OneEventPerPost
  <2> QED
    BY <2>4, <2>5 DEF IInv
<1>2. IInv /\ [Next]_vars => IInv'
  BY Step
<1>3. IInv => OneEventPerPost
  BY DEF IInv
<1> QED
  BY <1>1, <1>2, <1>3, PTL DEF Spec

------------------------------------------------------------------------------
(* The types                                                               *)

(* The least member of a set of naturals, and the greatest of a finite one.*)
Below == { ss \in Nat \X Nat : ss[1] < ss[2] }

LEMMA LeastOf == ASSUME NEW S, S \subseteq Nat, S # {} PROVE \E s \in S : \A t \in S : s <= t
<1>1. IsWellFoundedOn(Below, Nat)
  <2>1. IsWellFoundedOn(OpToRel(<, Nat), Nat)
    BY NatLessThanWellFounded
  <2> QED
    BY <2>1 DEF OpToRel, Below
<1>2. PICK s \in S : \A t \in S : <<t, s>> \notin Below
  BY <1>1, WFMin
<1>3. ASSUME NEW t \in S PROVE s <= t
  <2>1. t \in Nat /\ s \in Nat /\ ~(t < s)
    BY <1>2 DEF Below
  <2> QED
    BY <2>1
<1> QED
  BY <1>3

LEMMA GreatestOf ==
    ASSUME NEW S, S \subseteq Nat, S # {}, IsFiniteSet(S)
    PROVE  \E s \in S : \A t \in S : t <= s
<1> DEFINE above(s) == { t \in S : s < t }
<1>1. \A s \in S : IsFiniteSet(above(s)) /\ Cardinality(above(s)) \in Nat
  BY FS_Subset, FS_CardinalityType
<1> DEFINE sizes == { Cardinality(above(s)) : s \in S }
<1>2. sizes \subseteq Nat /\ sizes # {}
  BY <1>1
<1>3. PICK n \in sizes : \A k \in sizes : n <= k
  BY <1>2, LeastOf
<1>4. PICK s \in S : n = Cardinality(above(s))
  BY <1>3
<1> SUFFICES ASSUME NEW t \in S, s < t PROVE FALSE
  <2>1. ASSUME NEW t \in S, ~(s < t) PROVE t <= s
    <3>1. s \in Nat /\ t \in Nat
      OBVIOUS
    <3> QED
      BY <2>1, <3>1
  <2> QED
    BY <2>1
<1>5. above(t) \subseteq above(s) /\ t \in above(s) /\ t \notin above(t)
  <2>1. s \in Nat /\ t \in Nat /\ \A u \in S : u \in Nat
    OBVIOUS
  <2>2. s < t /\ ~(t < t) /\ \A u \in S : t < u => s < u
    BY <2>1
  <2> QED
    BY <2>2, Zenon
<1>6. IsFiniteSet(above(s)) /\ Cardinality(above(t)) \in Nat /\ Cardinality(above(s)) \in Nat
  BY <1>1
<1>7. Cardinality(above(t)) \in sizes
  OBVIOUS
<1> HIDE DEF above, sizes
<1>8. Cardinality(above(t)) < Cardinality(above(s))
  BY <1>5, <1>6, FS_Subset
<1> QED
  BY <1>3, <1>4, <1>6, <1>7, <1>8

(* Induction over the naturals, for a set.                                 *)
LEMMA Induct ==
    ASSUME NEW S, 0 \in S, \A n \in Nat : n \in S => n + 1 \in S
    PROVE  Nat \subseteq S
<1> SUFFICES ASSUME Nat \ S # {} PROVE FALSE
  OBVIOUS
<1>1. PICK n \in Nat \ S : \A k \in Nat \ S : n <= k
  BY LeastOf
<1>2. n - 1 \in Nat /\ n - 1 \in S
  BY <1>1
<1> QED
  BY <1>2

(* What FilterTextItems has after the first k items, for k up to n.        *)
Keep(texts, i) == IF HasText(i) THEN Append(texts, i) ELSE texts
None == <<>>
Filtered(items, n, g) ==
    g = [k \in 0..n |-> IF k = 0 THEN None ELSE Keep(g[k - 1], items[k])]

LEMMA FilteredExists == ASSUME NEW items, NEW n \in Nat PROVE \E g : Filtered(items, n, g)
<1> DEFINE S == { m \in Nat : \E g : Filtered(items, m, g) }
<1>1. 0 \in S
  <2> DEFINE g == [k \in 0 .. 0 |-> None]
  <2>1. Filtered(items, 0, g)
    BY DEF Filtered
  <2> QED
    BY <2>1
<1>2. ASSUME NEW m \in Nat, m \in S PROVE m + 1 \in S
  <2>1. PICK g : Filtered(items, m, g)
    BY <1>2
  <2> DEFINE h == [k \in 0 .. m + 1 |->
                     IF k = m + 1 THEN Keep(g[m], items[m + 1]) ELSE g[k]]
  <2>2. Filtered(items, m + 1, h)
    BY <2>1 DEF Filtered
  <2> HIDE DEF h
  <2> QED
    BY <2>2
<1> HIDE DEF S
<1>3. Nat \subseteq S
  BY <1>1, <1>2, Induct
<1> QED
  BY <1>3 DEF S

(* Items of one source.                                                    *)
OfSource(items, s) == \A k \in DOMAIN items : Home[items[k]] = s
WithText(items) == \A k \in DOMAIN items : HasText(items[k])

(* FilterTextItems keeps items that are there and have text.               *)
LEMMA FilterKeeps ==
    ASSUME NEW s, NEW items \in Seq(Items), OfSource(items, s)
    PROVE  LET texts == FilterTextItems(items)
           IN texts \in Seq(Items) /\ OfSource(texts, s) /\ WithText(texts)
<1> DEFINE out[k \in 0..Len(items)] ==
              IF k = 0 THEN <<>>
              ELSE IF HasText(items[k]) THEN Append(out[k - 1], items[k])
              ELSE out[k - 1]
<1>1. FilterTextItems(items) = out[Len(items)]
  BY DEF FilterTextItems
<1>2. out = CHOOSE g : Filtered(items, Len(items), g)
  BY DEF Filtered, Keep, None
<1> HIDE DEF out
<1>3. Len(items) \in Nat
  OBVIOUS
<1>4. Filtered(items, Len(items), out)
  BY <1>2, <1>3, FilteredExists
<1> DEFINE Good(texts) == texts \in Seq(Items) /\ OfSource(texts, s) /\ WithText(texts)
           T == { k \in Nat : k <= Len(items) => Good(out[k]) }
<1>5. 0 \in T
  <2>1. out[0] = <<>>
    BY <1>3, <1>4 DEF Filtered, None
  <2>2. <<>> \in Seq(Items) /\ OfSource(<<>>, s) /\ WithText(<<>>)
    BY DEF OfSource, WithText
  <2> QED
    BY <2>1, <2>2
<1>6. ASSUME NEW k \in Nat, k \in T PROVE k + 1 \in T
  <2> SUFFICES ASSUME k + 1 <= Len(items) PROVE Good(out[k + 1])
    OBVIOUS
  <2>1. out[k + 1] = Keep(out[k], items[k + 1])
    BY <1>3, <1>4 DEF Filtered
  <2>2. Good(out[k]) /\ k + 1 \in DOMAIN items
    BY <1>3, <1>6
  <2>3. items[k + 1] \in Items /\ Home[items[k + 1]] = s
    BY <2>2 DEF OfSource
  <2>4. CASE HasText(items[k + 1])
    <3> DEFINE t == out[k]
               u == Append(t, items[k + 1])
    <3>1. t \in Seq(Items) /\ u \in Seq(Items)
      BY <2>2, <2>3
    <3>2. ASSUME NEW j \in DOMAIN u PROVE u[j] = items[k + 1] \/ (j \in DOMAIN t /\ u[j] = t[j])
      BY <3>1
    <3>3. OfSource(t, s) /\ WithText(t)
      BY <2>2
    <3> HIDE DEF t, u
    <3>4. OfSource(u, s) /\ WithText(u)
      BY <2>3, <2>4, <3>2, <3>3 DEF OfSource, WithText
    <3> QED
      BY <2>1, <2>4, <3>1, <3>4 DEF t, u, Keep
  <2>5. CASE ~HasText(items[k + 1])
    BY <2>1, <2>2, <2>5 DEF Keep
  <2> QED
    BY <2>4, <2>5
<1> HIDE DEF T
<1>7. Nat \subseteq T
  BY <1>5, <1>6, Induct
<1>8. Good(out[Len(items)])
  BY <1>3, <1>7 DEF T
<1> QED
  BY <1>1, <1>8

(* What a process does is well-formed: it fetches a source there is, looks *)
(* up the chat of one message, or writes items with text of its source.    *)
Sound(p, r) ==
    /\ r \in Runs
    /\ r.pc = "fetch" => r.source \in Sources
    /\ r.pc = "resolve" => p \in Handlers /\ Len(r.items) = 1
    /\ r.pc \in {"get", "save", "reread"} =>
        /\ r.items # <<>> /\ r.source \in Sources
        /\ OfSource(r.items, r.source) /\ WithText(r.items)

TableTypes ==
    /\ source \in [Sources -> {"absent", "present", "deleted"}]
    /\ post \subseteq Items
    /\ announced \in [Items -> Nat] /\ written \in [Items -> Nat]
MessageTypes ==
    /\ published \subseteq Items
    /\ inbox \subseteq Telegram /\ excused \subseteq Telegram
    /\ session \in BOOLEAN
Offers ==
    /\ offer \in [Sources -> Seq(Items)]
    /\ \A s \in Sources : OfSource(offer[s], s)
RunsSound == run = [p \in Procs |-> run[p]] /\ \A p \in Procs : Sound(p, run[p])
LeftTypes == left \in [faults: 0..MaxFaults, edits: 0..MaxEdits]

(* A feed offers items of its source, and what a process carries is sound. *)
TypeInv == TableTypes /\ MessageTypes /\ Offers /\ RunsSound /\ LeftTypes

LEMMA TypeInvImplies == TypeInv => TypeOK
<1> SUFFICES ASSUME TypeInv PROVE TypeOK
  OBVIOUS
<1>1. run \in [Procs -> Runs]
  BY DEF TypeInv, RunsSound, Sound
<1>2. ASSUME NEW p \in Procs, run[p].pc \in {"get", "save", "reread"}
      PROVE  /\ run[p].items # <<>> /\ run[p].source \in Sources
             /\ \A k \in DOMAIN run[p].items :
                  HasText(run[p].items[k]) /\ Home[run[p].items[k]] = run[p].source
  BY <1>2 DEF TypeInv, RunsSound, Sound, OfSource, WithText
<1> QED
  BY <1>1, <1>2 DEF TypeOK, TypeInv, TableTypes, MessageTypes, Offers, LeftTypes

LEMMA RestSound ==
    /\ Rest \in Runs /\ Rest.pc = "rest"
    /\ \A p : Sound(p, Rest)
<1>1. <<>> \in Seq(Items)
  OBVIOUS
<1>2. Rest \in Runs /\ Rest.pc = "rest"
  BY <1>1 DEF Rest, Runs
<1> QED
  BY <1>2 DEF Sound

LEMMA ListSound == ASSUME NEW p PROVE Sound(p, [Rest EXCEPT !.pc = "list"])
<1> DEFINE r == [Rest EXCEPT !.pc = "list"]
<1>1. r \in Runs /\ r.pc = "list"
  BY RestSound DEF Rest, Runs
<1> QED
  BY <1>1 DEF Sound

(* The next source of the page, the next page or rest.                     *)
LEMMA ProceedSound == ASSUME NEW p, NEW r \in Runs PROVE Sound(p, Proceed(r))
<1>1. CASE r.todo # {}
  <2>1. r.todo \subseteq Nat /\ r.todo \subseteq Sources
    BY SourcesAssumption DEF Runs
  <2>2. Oldest(r.todo) \in r.todo
    BY <1>1, <2>1, LeastOf DEF Oldest
  <2> DEFINE q == [r EXCEPT !.pc = "fetch", !.source = Oldest(r.todo),
                            !.todo = @ \ {Oldest(@)}, !.items = <<>>, !.retried = FALSE]
  <2>3. Proceed(r) = q
    BY <1>1 DEF Proceed
  <2>4. <<>> \in Seq(Items)
    OBVIOUS
  <2>5. q.pc = "fetch" /\ q.source \in Sources /\ q \in Runs
    BY <2>1, <2>2, <2>4 DEF Runs
  <2> HIDE DEF q
  <2> QED
    BY <2>3, <2>5 DEF Sound
<1>2. CASE r.todo = {} /\ r.token # 0
  <2> DEFINE q == [Rest EXCEPT !.pc = "list", !.token = r.token]
  <2>1. Proceed(r) = q
    BY <1>2 DEF Proceed
  <2>2. q \in Runs /\ q.pc = "list"
    BY RestSound DEF Rest, Runs
  <2> HIDE DEF q
  <2> QED
    BY <2>1, <2>2 DEF Sound
<1>3. CASE r.todo = {} /\ r.token = 0
  BY <1>3, RestSound DEF Proceed
<1> QED
  BY <1>1, <1>2, <1>3

LEMMA AbortSound ==
    ASSUME RunsSound, NEW p \in Procs,
           run[p].pc \in {"fetch", "resolve", "get", "save", "reread"}
    PROVE  Sound(p, Abort(p))
<1>1. Sound(p, run[p]) /\ run[p] \in Runs
  BY DEF RunsSound, Sound
<1>2. CASE p \notin Collectors
  BY <1>2, RestSound DEF Abort
<1>3. CASE p = "html" /\ ~run[p].retried
  <2> DEFINE q == [run[p] EXCEPT !.pc = "fetch", !.items = <<>>, !.retried = TRUE]
  <2>1. Abort(p) = q /\ p \notin Handlers
    BY <1>3, ProcsAssumption DEF Abort, Collectors
  <2>2. run[p].source \in Sources
    BY <1>1, <2>1 DEF Sound
  <2>3. <<>> \in Seq(Items)
    OBVIOUS
  <2>4. q.pc = "fetch" /\ q.source \in Sources /\ q \in Runs
    BY <1>1, <2>2, <2>3 DEF Runs
  <2> HIDE DEF q
  <2> QED
    BY <2>1, <2>4 DEF Sound
<1>4. CASE p \in Collectors /\ ~(p = "html" /\ ~run[p].retried)
  BY <1>1, <1>4, ProceedSound DEF Abort
<1> QED
  BY <1>2, <1>3, <1>4

LEMMA ContinueSound ==
    ASSUME RunsSound, NEW p \in Procs, run[p].pc \in {"save", "reread"}
    PROVE  Sound(p, Continue(p))
<1>1. Sound(p, run[p]) /\ run[p] \in Runs
  BY DEF RunsSound, Sound
<1>2. CASE Len(run[p].items) > 1
  <2> DEFINE items == run[p].items
             q == [run[p] EXCEPT !.pc = "get", !.items = Tail(@)]
  <2>1. items \in Seq(Items) /\ run[p].source \in Sources
        /\ OfSource(items, run[p].source) /\ WithText(items)
    BY <1>1 DEF Sound, Runs
  <2>2. /\ Tail(items) \in Seq(Items) /\ Tail(items) # <<>>
        /\ \A k \in DOMAIN Tail(items) : k + 1 \in DOMAIN items /\ Tail(items)[k] = items[k + 1]
    <3>1. items # <<>> /\ Len(items) > 1 /\ Len(items) \in Nat
      BY <1>2, <2>1
    <3>2. /\ Tail(items) \in Seq(Items) /\ Len(Tail(items)) = Len(items) - 1
          /\ \A k \in 1 .. Len(items) - 1 : Tail(items)[k] = items[k + 1]
      BY <2>1, <3>1, HeadTailProperties
    <3> HIDE DEF items
    <3>3. DOMAIN Tail(items) = 1 .. Len(items) - 1 /\ DOMAIN items = 1 .. Len(items)
      BY <2>1, <3>2
    <3>4. 1 \in DOMAIN Tail(items) /\ 1 \notin DOMAIN <<>>
      BY <3>1, <3>3
    <3>5. Tail(items) # <<>>
      BY <3>4, Zenon
    <3> QED
      BY <3>1, <3>2, <3>3, <3>5
  <2>3. OfSource(Tail(items), run[p].source) /\ WithText(Tail(items))
    BY <2>1, <2>2 DEF OfSource, WithText
  <2>4. q \in Runs /\ q.pc = "get" /\ q.items = Tail(items) /\ q.source = run[p].source
    BY <1>1, <2>2 DEF Runs
  <2>5. Continue(p) = q
    BY <1>2 DEF Continue
  <2> HIDE DEF q, items
  <2> QED
    BY <2>1, <2>2, <2>3, <2>4, <2>5 DEF Sound
<1>3. CASE ~(Len(run[p].items) > 1) /\ p \in Collectors
  BY <1>1, <1>3, ProceedSound DEF Continue
<1>4. CASE ~(Len(run[p].items) > 1) /\ p \notin Collectors
  BY <1>4, RestSound DEF Continue
<1> QED
  BY <1>2, <1>3, <1>4

LEMMA SetSound ==
    ASSUME RunsSound, NEW p \in Procs, NEW r, Sound(p, r), Set(p, r)
    PROVE  RunsSound'
<1>1. run' = [run EXCEPT ![p] = r]
  BY DEF Set
<1>2. run' = [q \in Procs |-> IF q = p THEN r ELSE run[q]]
  BY <1>1 DEF RunsSound
<1>3. \A q \in Procs : Sound(q, run'[q])
  BY <1>2 DEF RunsSound
<1> QED
  BY <1>2, <1>3 DEF RunsSound

(* A step of the process p alone that writes nothing.                      *)
LEMMA RunStep ==
    ASSUME TypeInv, NEW p \in Procs, NEW r, Sound(p, r), Set(p, r),
           UNCHANGED <<tables, world>>, LeftTypes'
    PROVE  TypeInv'
<1>1. RunsSound'
  BY SetSound DEF TypeInv
<1>2. TableTypes' /\ MessageTypes' /\ Offers'
  BY DEF TypeInv, TableTypes, MessageTypes, Offers, tables, world
<1> QED
  BY <1>1, <1>2 DEF TypeInv

LEMMA LeftStays == ASSUME TypeInv, left' = left PROVE LeftTypes'
  BY DEF TypeInv, LeftTypes

LEMMA SpendTypes ==
    ASSUME TypeInv, NEW what \in {"faults", "edits"}, Spend(what) PROVE LeftTypes'
<1>1. left \in [faults: 0..MaxFaults, edits: 0..MaxEdits] /\ left[what] > 0
      /\ left' = [left EXCEPT ![what] = @ - 1] /\ MaxFaults \in Nat /\ MaxEdits \in Nat
  BY BoundsAssumption DEF Spend, TypeInv, LeftTypes
<1>2. CASE what = "edits"
  BY <1>1, <1>2 DEF LeftTypes
<1>3. CASE what = "faults"
  BY <1>1, <1>3 DEF LeftTypes
<1> QED
  BY <1>2, <1>3

(* The page that is not the whole listing has a last source: a listing     *)
(* that is not empty has a first one, and the page is finite.              *)
LEMMA NextToken ==
    ASSUME NEW c, NEW token, Page(c, token) # Listed(c, token)
    PROVE  Newest(Page(c, token)) \in Sources
<1> DEFINE L == Listed(c, token)
           P == Page(c, token)
           before(s) == { t \in L : t < s }
<1>1. L \subseteq Sources /\ P = { s \in L : Cardinality(before(s)) < PageSize }
  BY DEF Listed, Page
<1>2. IsFiniteSet(Sources) /\ Sources \subseteq Nat /\ 0 < PageSize
  BY SourcesAssumption, BoundsAssumption
<1>3. P # L
  OBVIOUS
<1> HIDE DEF P, L
<1>4. L # {} /\ L \subseteq Nat
  BY <1>1, <1>2, <1>3
<1>5. PICK s \in L : \A t \in L : s <= t
  BY <1>4, LeastOf
<1>6. before(s) = {}
  <2>1. ASSUME NEW t \in L PROVE ~(t < s)
    <3>1. s \in Nat /\ t \in Nat /\ s <= t
      BY <1>4, <1>5
    <3> QED
      BY <3>1
  <2> QED
    BY <2>1
<1>7. s \in P
  <2> HIDE DEF before
  <2>1. Cardinality(before(s)) = 0
    BY <1>6, FS_EmptySet
  <2> QED
    BY <1>1, <1>2, <2>1
<1>8. P \subseteq Nat /\ IsFiniteSet(P) /\ P \subseteq Sources /\ P # {}
  <2>1. P \subseteq Sources
    BY <1>1
  <2> QED
    BY <1>2, <1>7, <2>1, FS_Subset
<1>9. PICK n \in P : \A t \in P : t <= n
  BY <1>8, GreatestOf
<1>10. Newest(P) \in P
  BY <1>9 DEF Newest
<1> QED
  BY <1>8, <1>10 DEF P

LEMMA ListSourcesTypes ==
    ASSUME TypeInv, NEW c \in Collectors, ListSources(c) PROVE TypeInv'
<1> DEFINE page == Page(c, run[c].token)
           token == IF page # Listed(c, run[c].token) THEN Newest(page) ELSE 0
           r == [Rest EXCEPT !.todo = page, !.token = token]
<1>1. Set(c, Proceed(r)) /\ UNCHANGED <<tables, world, left>>
  BY DEF ListSources
<1>2. page \subseteq Sources
  BY DEF Page, Listed
<1>3. token \in Sources \cup {0}
  BY NextToken
<1> HIDE DEF page, token
<1>4. r \in Runs
  BY <1>2, <1>3, RestSound DEF Rest, Runs
<1> HIDE DEF r
<1> QED
  BY <1>1, <1>4, ProceedSound, LeftStays, RunStep DEF Procs

LEMMA FetchTypes ==
    ASSUME TypeInv, NEW c \in Collectors, Fetch(c) PROVE TypeInv'
<1> DEFINE texts == FilterTextItems(offer[run[c].source])
           q == [run[c] EXCEPT !.pc = "get", !.items = texts]
           r == IF texts # <<>> THEN q
                ELSE IF c = "html" THEN Abort(c) ELSE Proceed(run[c])
<1>1. Set(c, r) /\ run[c].pc = "fetch" /\ UNCHANGED <<tables, world, left>>
  BY DEF Fetch
<1>2. c \in Procs /\ RunsSound /\ Offers
  BY DEF Procs, TypeInv
<1>3. Sound(c, run[c]) /\ run[c] \in Runs /\ run[c].source \in Sources
  BY <1>1, <1>2 DEF RunsSound, Sound
<1>4. texts \in Seq(Items) /\ OfSource(texts, run[c].source) /\ WithText(texts)
  <2>1. offer[run[c].source] \in Seq(Items) /\ OfSource(offer[run[c].source], run[c].source)
    BY <1>2, <1>3 DEF Offers
  <2> QED
    BY <2>1, FilterKeeps
<1> HIDE DEF texts
<1>5. ASSUME texts # <<>> PROVE Sound(c, q)
  <2>1. q \in Runs /\ q.pc = "get" /\ q.items = texts /\ q.source = run[c].source
    BY <1>3, <1>4 DEF Runs
  <2> HIDE DEF q
  <2> QED
    BY <1>3, <1>4, <1>5, <2>1 DEF Sound
<1> HIDE DEF q
<1>6. Sound(c, r)
  BY <1>1, <1>2, <1>3, <1>5, AbortSound, ProceedSound
<1> HIDE DEF r
<1> QED
  BY <1>1, <1>2, <1>6, LeftStays, RunStep

LEMMA CollectorTypes ==
    ASSUME TypeInv, NEW c \in Collectors,
           \/ Tick(c) \/ ListSources(c) \/ ListFails(c)
           \/ Fetch(c) \/ FetchBroken(c) \/ FetchFails(c)
    PROVE  TypeInv'
<1>1. c \in Procs /\ RunsSound
  BY DEF Procs, TypeInv
<1>2. CASE Tick(c)
  BY <1>1, <1>2, ListSound, LeftStays, RunStep DEF Tick
<1>3. CASE ListSources(c)
  BY <1>3, ListSourcesTypes
<1>4. CASE ListFails(c)
  BY <1>1, <1>4, RestSound, SpendTypes, RunStep DEF ListFails
<1>5. CASE Fetch(c)
  BY <1>5, FetchTypes
<1>6. CASE FetchBroken(c)
  <2>1. Sound(c, Abort(c))
    BY <1>1, <1>6, AbortSound DEF FetchBroken
  <2> QED
    BY <1>1, <1>6, <2>1, LeftStays, RunStep DEF FetchBroken
<1>7. CASE FetchFails(c)
  <2>1. Sound(c, Abort(c))
    BY <1>1, <1>7, AbortSound DEF FetchFails
  <2> QED
    BY <1>1, <1>7, <2>1, SpendTypes, RunStep DEF FetchFails
<1> QED
  BY <1>2, <1>3, <1>4, <1>5, <1>6, <1>7

(* A message or the text of a client: a batch of one.                      *)
LEMMA BatchOfOne ==
    ASSUME NEW i \in Items
    PROVE  /\ <<i>> \in Seq(Items) /\ <<i>> # <<>> /\ Len(<<i>>) = 1
           /\ Home[i] \in Sources /\ OfSource(<<i>>, Home[i])
           /\ HasText(i) => WithText(<<i>>)
<1>1. <<i>> \in Seq(Items) /\ Len(<<i>>) = 1 /\ DOMAIN <<i>> = {1} /\ <<i>>[1] = i
  OBVIOUS
<1>2. Home[i] \in Sources
  BY ItemsAssumption
<1>3. OfSource(<<i>>, Home[i]) /\ (HasText(i) => WithText(<<i>>))
  BY <1>1 DEF OfSource, WithText
<1>4. <<i>> # <<>>
  OBVIOUS
<1> QED
  BY <1>1, <1>2, <1>3, <1>4

LEMMA TakeTypes ==
    ASSUME TypeInv, NEW h \in Handlers, NEW i \in inbox, Take(h, i) PROVE TypeInv'
<1> DEFINE r == [Rest EXCEPT !.pc = "resolve", !.items = <<i>>]
<1>1. /\ inbox' = inbox \ {i} /\ Set(h, r)
      /\ UNCHANGED <<tables, published, offer, session, excused, left>>
  BY DEF Take
<1>2. h \in Procs /\ i \in Items
  BY DEF Procs, TypeInv, MessageTypes, Telegram
<1>3. r \in Runs /\ r.pc = "resolve" /\ Len(r.items) = 1
  BY <1>2, BatchOfOne, RestSound DEF Rest, Runs
<1> HIDE DEF r
<1>4. Sound(h, r)
  BY <1>3 DEF Sound
<1>5. RunsSound'
  BY <1>1, <1>2, <1>4, SetSound DEF TypeInv
<1>6. TableTypes' /\ MessageTypes' /\ Offers' /\ LeftTypes'
  BY <1>1 DEF TypeInv, TableTypes, MessageTypes, Offers, LeftTypes, tables
<1> QED
  BY <1>5, <1>6 DEF TypeInv

LEMMA ResolveTypes ==
    ASSUME TypeInv, NEW h \in Handlers, Resolve(h) PROVE TypeInv'
<1> DEFINE i == Head(run[h].items)
           q == [run[h] EXCEPT !.pc = "get", !.source = Home[i]]
           r == IF Present(Home[i]) /\ HasText(i) THEN q ELSE Rest
<1>1. run[h].pc = "resolve" /\ Set(h, r) /\ UNCHANGED <<tables, world, left>>
  BY DEF Resolve
<1>2. h \in Procs /\ Sound(h, run[h]) /\ run[h] \in Runs
  BY DEF Procs, TypeInv, RunsSound, Sound
<1>3. run[h].items \in Seq(Items) /\ Len(run[h].items) = 1
  BY <1>1, <1>2 DEF Sound, Runs
<1>4. i \in Items /\ run[h].items = <<i>>
  BY <1>3
<1> HIDE DEF i
<1>5. ASSUME HasText(i) PROVE Sound(h, q)
  <2>1. q \in Runs /\ q.pc = "get" /\ q.items = <<i>> /\ q.source = Home[i]
    BY <1>2, <1>4, BatchOfOne DEF Runs
  <2> HIDE DEF q
  <2> QED
    BY <1>4, <1>5, <2>1, BatchOfOne DEF Sound
<1> HIDE DEF q
<1>6. Sound(h, r)
  BY <1>5, RestSound
<1> HIDE DEF r
<1> QED
  BY <1>1, <1>2, <1>6, LeftStays, RunStep

LEMMA CreatePostTypes ==
    ASSUME TypeInv, NEW c \in Clients, NEW i \in Items, CreatePost(c, i) PROVE TypeInv'
<1> DEFINE r == [Rest EXCEPT !.pc = "get", !.source = Home[i], !.items = <<i>>]
<1>1. Set(c, r) /\ HasText(i) /\ UNCHANGED <<tables, world, left>> /\ c \in Procs
  BY DEF CreatePost, Procs
<1>2. r \in Runs /\ r.pc = "get" /\ r.items = <<i>> /\ r.source = Home[i]
  BY BatchOfOne, RestSound DEF Rest, Runs
<1> HIDE DEF r
<1>3. Sound(c, r)
  BY <1>1, <1>2, BatchOfOne DEF Sound
<1> QED
  BY <1>1, <1>3, LeftStays, RunStep

LEMMA SavePostTypes ==
    ASSUME TypeInv, NEW p \in Procs, SavePost(p) PROVE TypeInv'
<1> DEFINE i == Head(run[p].items)
           q == [run[p] EXCEPT !.pc = "reread"]
           r == IF i \in post THEN q ELSE Continue(p)
<1>1. /\ run[p].pc = "save" /\ Set(p, r) /\ UNCHANGED <<source, world, left>>
      /\ post' = post \cup {i}
      /\ written' = [written EXCEPT ![i] = IF i \notin post THEN @ + 1 ELSE @]
      /\ announced' = [announced EXCEPT ![i] =
            IF SelfContained(Home[i]) /\ i \notin post THEN @ + 1 ELSE @]
  BY DEF SavePost, Insert
<1>2. i \in Items
  <2>1. run[p].items \in Seq(Items) /\ run[p].items # <<>>
    BY <1>1 DEF TypeInv, RunsSound, Sound, Runs
  <2> QED
    BY <2>1
<1>3. RunsSound'
  <2>1. RunsSound /\ Sound(p, run[p]) /\ run[p] \in Runs
    BY DEF TypeInv, RunsSound, Sound
  <2>2. q \in Runs /\ q.pc = "reread" /\ q.items = run[p].items /\ q.source = run[p].source
    BY <2>1 DEF Runs
  <2> HIDE DEF q
  <2>3. Sound(p, q)
    BY <1>1, <2>1, <2>2 DEF Sound
  <2>4. Sound(p, r)
    BY <1>1, <2>1, <2>3, ContinueSound
  <2> HIDE DEF r
  <2> QED
    BY <1>1, <2>1, <2>4, SetSound
<1> HIDE DEF i, q, r
<1>4. TableTypes'
  <2>1. announced \in [Items -> Nat] /\ written \in [Items -> Nat] /\ post \subseteq Items
        /\ source \in [Sources -> {"absent", "present", "deleted"}]
    BY DEF TypeInv, TableTypes
  <2>2. \A k \in Items : written[k] + 1 \in Nat /\ announced[k] + 1 \in Nat
    BY <2>1
  <2>3. written' \in [Items -> Nat]
    BY <1>1, <2>1, <2>2
  <2>4. announced' \in [Items -> Nat]
    BY <1>1, <2>1, <2>2
  <2>5. post' \subseteq Items
    BY <1>1, <1>2, <2>1
  <2>6. source' = source
    BY <1>1
  <2> QED
    BY <2>1, <2>3, <2>4, <2>5, <2>6 DEF TableTypes
<1>5. MessageTypes' /\ Offers' /\ LeftTypes'
  BY <1>1 DEF TypeInv, MessageTypes, Offers, LeftTypes, world
<1> QED
  BY <1>3, <1>4, <1>5 DEF TypeInv

LEMMA CreateTypes == ASSUME TypeInv, NEW p \in Procs, Create(p) PROVE TypeInv'
<1>0. RunsSound /\ Sound(p, run[p]) /\ run[p] \in Runs
  BY DEF TypeInv, RunsSound, Sound
<1>1. CASE GetSource(p)
  <2> DEFINE q == [run[p] EXCEPT !.pc = "save"]
             r == IF Present(run[p].source) THEN q ELSE Abort(p)
  <2>1. run[p].pc = "get" /\ Set(p, r) /\ UNCHANGED <<tables, world, left>>
    BY <1>1 DEF GetSource
  <2>2. q \in Runs /\ q.pc = "save" /\ q.items = run[p].items /\ q.source = run[p].source
    BY <1>0 DEF Runs
  <2> HIDE DEF q
  <2>3. Sound(p, q)
    BY <1>0, <2>1, <2>2 DEF Sound
  <2>4. Sound(p, r)
    BY <1>0, <2>1, <2>3, AbortSound
  <2> HIDE DEF r
  <2> QED
    BY <2>1, <2>4, LeftStays, RunStep
<1>2. CASE SavePost(p)
  BY <1>2, SavePostTypes
<1>3. CASE SaveOrphan(p)
  <2>1. Sound(p, Continue(p))
    BY <1>0, <1>3, ContinueSound DEF SaveOrphan
  <2> QED
    BY <1>3, <2>1, LeftStays, RunStep DEF SaveOrphan
<1>4. CASE SaveRefused(p)
  <2>1. Sound(p, Abort(p))
    BY <1>0, <1>4, AbortSound DEF SaveRefused
  <2> QED
    BY <1>4, <2>1, LeftStays, RunStep DEF SaveRefused
<1>5. CASE Reread(p)
  <2> DEFINE r == IF Head(run[p].items) \in post THEN Continue(p) ELSE Abort(p)
  <2>1. run[p].pc = "reread" /\ Set(p, r) /\ UNCHANGED <<tables, world, left>>
    BY <1>5 DEF Reread
  <2>2. Sound(p, r)
    BY <1>0, <2>1, ContinueSound, AbortSound
  <2> HIDE DEF r
  <2> QED
    BY <2>1, <2>2, LeftStays, RunStep
<1> QED
  BY <1>1, <1>2, <1>3, <1>4, <1>5 DEF Create

LEMMA CreateFailsTypes == ASSUME TypeInv, NEW p \in Procs, CreateFails(p) PROVE TypeInv'
<1>1. /\ run[p].pc \in {"resolve", "get", "save", "reread"}
      /\ Spend("faults") /\ Set(p, Abort(p))
      /\ excused' = excused \cup IF p \in Handlers THEN Held(p) ELSE {}
      /\ UNCHANGED <<tables, published, offer, session, inbox>>
  BY DEF CreateFails
<1>2. RunsSound'
  <2>1. Sound(p, Abort(p))
    BY <1>1, AbortSound DEF TypeInv
  <2> QED
    BY <1>1, <2>1, SetSound DEF TypeInv
<1>3. LeftTypes'
  BY <1>1, SpendTypes
<1>4. MessageTypes'
  <2>1. Held(p) \subseteq Telegram
    BY DEF Held
  <2> QED
    BY <1>1, <2>1 DEF TypeInv, MessageTypes
<1>5. TableTypes' /\ Offers'
  BY <1>1 DEF TypeInv, TableTypes, Offers, tables
<1> QED
  BY <1>2, <1>3, <1>4, <1>5 DEF TypeInv

(* The first n entries of a feed that has got a new one.                   *)
LEMMA OfferKept ==
    ASSUME NEW s, NEW i \in Items, Home[i] = s,
           NEW o \in Seq(Items), OfSource(o, s), NEW n \in 0 .. Len(o) + 1
    PROVE  SubSeq(<<i>> \o o, 1, n) \in Seq(Items) /\ OfSource(SubSeq(<<i>> \o o, 1, n), s)
<1> DEFINE t == <<i>> \o o
           u == SubSeq(t, 1, n)
<1>1. /\ <<i>> \in Seq(Items) /\ Len(<<i>>) = 1 /\ <<i>>[1] = i /\ Len(o) \in Nat
      /\ DOMAIN o = 1 .. Len(o) /\ n \in Nat
  OBVIOUS
<1>2. /\ t \in Seq(Items) /\ Len(t) = Len(o) + 1
      /\ \A k \in 1 .. Len(t) : t[k] = IF k <= 1 THEN <<i>>[k] ELSE o[k - 1]
  BY <1>1, ConcatProperties
<1>3. \A k \in 1 .. Len(o) + 1 : Home[t[k]] = s
  <2> SUFFICES ASSUME NEW k \in 1 .. Len(o) + 1 PROVE Home[t[k]] = s
    OBVIOUS
  <2>1. CASE k = 1
    BY <1>1, <1>2, <2>1
  <2>2. CASE k # 1
    <3>1. t[k] = o[k - 1] /\ k - 1 \in DOMAIN o
      BY <1>1, <1>2, <2>2
    <3> QED
      BY <3>1 DEF OfSource
  <2> QED
    BY <2>1, <2>2
<1> HIDE DEF t
<1>4. /\ u \in Seq(Items) /\ DOMAIN u = 1 .. n
      /\ \A k \in 1 .. n : u[k] = t[k]
  BY <1>1, <1>2
<1>5. \A k \in 1 .. n : k \in 1 .. Len(o) + 1
  BY <1>1
<1> HIDE DEF u
<1>6. OfSource(u, s)
  BY <1>3, <1>4, <1>5 DEF OfSource
<1> QED
  BY <1>4, <1>6 DEF t, u

LEMMA PublishTypes == ASSUME TypeInv, NEW i \in Items, Publish(i) PROVE TypeInv'
<1>1. published' = published \cup {i} /\ UNCHANGED <<tables, session, run, left>>
  BY DEF Publish
<1>2. TableTypes' /\ RunsSound' /\ LeftTypes'
  BY <1>1 DEF TypeInv, TableTypes, RunsSound, LeftTypes, tables
<1>3. CASE i \in Telegram
  <2>1. /\ inbox' = IF session THEN inbox \cup {i} ELSE inbox
        /\ excused' = IF session /\ Present(Home[i]) THEN excused ELSE excused \cup {i}
        /\ offer' = offer
    BY <1>3 DEF Publish
  <2>2. MessageTypes'
    BY <1>1, <1>3, <2>1 DEF TypeInv, MessageTypes
  <2>3. Offers'
    BY <2>1 DEF TypeInv, Offers
  <2> QED
    BY <1>2, <2>2, <2>3 DEF TypeInv
<1>4. CASE i \notin Telegram
  <2> DEFINE s == Home[i]
             o == offer[s]
             n == IF Len(o) < FeedSize THEN Len(o) + 1 ELSE FeedSize
             u == SubSeq(<<i>> \o o, 1, n)
  <2>1. offer' = [offer EXCEPT ![s] = u] /\ UNCHANGED <<inbox, excused>>
    BY <1>4 DEF Publish
  <2>2. s \in Sources /\ o \in Seq(Items) /\ OfSource(o, s)
        /\ offer \in [Sources -> Seq(Items)] /\ \A t \in Sources : OfSource(offer[t], t)
    BY ItemsAssumption DEF TypeInv, Offers
  <2>3. n \in 0 .. Len(o) + 1
    BY <2>2, BoundsAssumption
  <2> HIDE DEF n, o
  <2>4. u \in Seq(Items) /\ OfSource(u, s)
    BY <2>2, <2>3, OfferKept
  <2> HIDE DEF u, s
  <2>5. Offers'
    BY <2>1, <2>2, <2>4 DEF Offers
  <2>6. MessageTypes'
    BY <1>1, <2>1 DEF TypeInv, MessageTypes
  <2> QED
    BY <1>2, <2>5, <2>6 DEF TypeInv
<1> QED
  BY <1>3, <1>4

LEMMA WorldTypes ==
    ASSUME TypeInv,
           \/ \E i \in Items : Publish(i) \/ DeletePost(i)
           \/ \E s \in Sources : AddSource(s) \/ DeleteSource(s)
           \/ SessionEnds \/ Restart
    PROVE  TypeInv'
<1>1. ASSUME NEW i \in Items, DeletePost(i) PROVE TypeInv'
  <2>1. post' = post \ {i} /\ Spend("edits")
        /\ UNCHANGED <<source, announced, written, world, run>>
    BY <1>1 DEF DeletePost
  <2>2. TableTypes' /\ MessageTypes' /\ Offers' /\ RunsSound'
    BY <2>1 DEF TypeInv, TableTypes, MessageTypes, Offers, RunsSound, world
  <2> QED
    BY <2>1, <2>2, SpendTypes DEF TypeInv
<1>2. ASSUME NEW s \in Sources, AddSource(s) \/ DeleteSource(s) PROVE TypeInv'
  <2>1. /\ source' = [source EXCEPT ![s] = "present"] \/ source' = [source EXCEPT ![s] = "deleted"]
        /\ Spend("edits") /\ UNCHANGED <<post, announced, written, world, run>>
    BY <1>2 DEF AddSource, DeleteSource
  <2>2. TableTypes'
    BY <2>1 DEF TypeInv, TableTypes
  <2>3. MessageTypes' /\ Offers' /\ RunsSound'
    BY <2>1 DEF TypeInv, MessageTypes, Offers, RunsSound, world
  <2> QED
    BY <2>1, <2>2, <2>3, SpendTypes DEF TypeInv
<1>3. CASE SessionEnds
  <2>1. /\ Spend("faults") /\ session' = FALSE /\ inbox' = {} /\ excused' = excused \cup inbox
        /\ UNCHANGED <<tables, published, offer, run>>
    BY <1>3 DEF SessionEnds
  <2>2. TableTypes' /\ MessageTypes' /\ Offers' /\ RunsSound'
    BY <2>1 DEF TypeInv, TableTypes, MessageTypes, Offers, RunsSound, tables
  <2> QED
    BY <2>1, <2>2, SpendTypes DEF TypeInv
<1>4. CASE Restart
  <2>1. /\ Spend("faults") /\ run' = [p \in Procs |-> Rest]
        /\ session' = TRUE /\ inbox' = {}
        /\ excused' = excused \cup inbox \cup UNION {Held(p) : p \in Handlers}
        /\ UNCHANGED <<tables, published, offer>>
    BY <1>4 DEF Restart
  <2>2. \A p \in Handlers : Held(p) \subseteq Telegram
    BY DEF Held
  <2>3. MessageTypes'
    BY <2>1, <2>2 DEF TypeInv, MessageTypes
  <2>4. RunsSound'
    BY <2>1, RestSound DEF RunsSound
  <2>5. TableTypes' /\ Offers'
    BY <2>1 DEF TypeInv, TableTypes, Offers, tables
  <2> QED
    BY <2>1, <2>3, <2>4, <2>5, SpendTypes DEF TypeInv
<1> QED
  BY <1>1, <1>2, <1>3, <1>4, PublishTypes

LEMMA TypeInit == Init => TypeInv
<1> SUFFICES ASSUME Init PROVE TypeInv
  OBVIOUS
<1>1. TableTypes
  BY DEF Init, TableTypes
<1>2. MessageTypes
  BY DEF Init, MessageTypes
<1>3. Offers
  <2>1. offer = [s \in Sources |-> <<>>]
    BY DEF Init
  <2>2. <<>> \in Seq(Items) /\ \A s \in Sources : OfSource(<<>>, s)
    BY DEF OfSource
  <2> QED
    BY <2>1, <2>2 DEF Offers
<1>4. RunsSound
  BY RestSound DEF Init, RunsSound
<1>5. LeftTypes
  BY BoundsAssumption DEF Init, LeftTypes
<1> QED
  BY <1>1, <1>2, <1>3, <1>4, <1>5 DEF TypeInv

LEMMA TypeStep == ASSUME TypeInv, [Next]_vars PROVE TypeInv'
<1>1. ASSUME NEW p \in Procs, Create(p) \/ CreateFails(p) PROVE TypeInv'
  BY <1>1, CreateTypes, CreateFailsTypes
<1>2. ASSUME NEW c \in Collectors, Collect(c) \/ ListFails(c) \/ FetchFails(c) PROVE TypeInv'
  BY <1>1, <1>2, CollectorTypes DEF Collect, Procs
<1>3. ASSUME NEW h \in Handlers, Handle(h) PROVE TypeInv'
  BY <1>1, <1>3, TakeTypes, ResolveTypes DEF Handle, Procs
<1>4. ASSUME NEW c \in Clients, Create(c) \/ \E i \in Items : CreatePost(c, i) PROVE TypeInv'
  BY <1>1, <1>4, CreatePostTypes DEF Procs
<1>5. CASE UNCHANGED vars
  BY <1>5 DEF TypeInv, TableTypes, MessageTypes, Offers, RunsSound, LeftTypes, vars, tables, world
<1>6. CASE Next
  BY <1>1, <1>2, <1>3, <1>4, <1>6, WorldTypes DEF Next
<1> QED
  BY <1>5, <1>6

(* Whoever collects and whatever fails or is deleted between: a process    *)
(* that reads the source of a post or writes one (Create) has items, all   *)
(* with text and all of the source it works on.                            *)
THEOREM WritersHoldTheirItems == Spec => []TypeOK
<1>1. TypeInv /\ [Next]_vars => TypeInv'
  BY TypeStep
<1> QED
  BY TypeInit, TypeInvImplies, <1>1, PTL DEF Spec

=============================================================================
