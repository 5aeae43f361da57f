-------------------------- MODULE DigestWindowProofs --------------------------
(***************************************************************************)
(* Theorems about the windows of SourceDigest: which posts a digest holds  *)
(* and which it loses, for every number of sources, posts and workers and  *)
(* every value of the intervals; and the shape of all its variables.       *)
(***************************************************************************)
EXTENDS SourceDigestProofs

Postings == [state : {"unborn", "stamped", "committed"}, at : 0 .. MaxTime]

RunStates == [pc : {"idle", "window", "collect", "generate", "save", "saved",
                    "empty", "failed"},
              source : Sources \cup {None}, from : Int, to : 0 .. MaxTime,
              posts : SUBSET Posts, left : SUBSET Posts]

Writing == {"generate", "save"}
Reading == {"collect"} \cup Writing

Born(p) == post[p].state # "unborn"
In(p, from, to) == from <= post[p].at /\ post[p].at < to

(* The variables the windows are about have their shape.                   *)
PoolShape ==
    /\ now \in 0 .. MaxTime
    /\ post \in [Posts -> Postings]
    /\ digests \in [Sources -> SUBSET Digest]
    /\ run \in [Workers -> RunStates]
    /\ overlapped \subseteq Sources
    /\ \A w \in Workers : IF run[w].pc = "idle" THEN run[w].source = None
                          ELSE run[w].source \in Sources

(* A digest is stored after its window has ended, and holds posts from     *)
(* before that end; one of the digests of a source is the last.            *)
DigestsInOrder ==
    \A s \in Sources :
        /\ \A d \in digests[s] :
             /\ d.to <= d.at /\ d.at <= now
             /\ \A p \in d.posts : Born(p) /\ post[p].at < d.to
        /\ digests[s] # {} => \E d \in digests[s] : \A x \in digests[s] : x.at <= d.at

(* A window ended when the run began it and starts at a digest, or where   *)
(* max_window cuts it, or at the beginning.                                *)
WindowIsKnown(w) ==
    /\ run[w].to <= now
    /\ run[w].pc \in Reading =>
         \/ run[w].from <= 0
         \/ run[w].from = run[w].to - MaxWindow
         \/ \E d \in digests[run[w].source] : run[w].from <= d.at

(* What a run has collected is its window: the posts it took, and those it *)
(* left out, with the ones that were not committed then.                   *)
WindowIsCollected(w) ==
    run[w].pc \in Writing =>
        /\ \A p \in run[w].posts : Born(p) /\ In(p, run[w].from, run[w].to)
        /\ \A p \in Posts :
             SourceOf[p] = run[w].source /\ Born(p) /\ In(p, run[w].from, run[w].to)
               => p \in run[w].posts \cup run[w].left

(* A source that never overlapped has one run, and the window of that run  *)
(* starts at or after the last digest.                                     *)
WindowFollows(w) ==
    run[w].source \in Sources \ overlapped =>
        /\ \A v \in Workers : run[v].source = run[w].source => v = w
        /\ run[w].pc \in Reading =>
             \A d \in digests[run[w].source] : d.at <= run[w].from

(* The first digest after a post holds it, left it out, ended before it or *)
(* started too late for it.                                                *)
Later(s, p) == { d \in digests[s] : post[p].at < d.at }

Accounted(s, p) ==
    \E d \in Later(s, p) :
        /\ \A x \in Later(s, p) : d.at <= x.at
        /\ \/ p \in d.posts \cup d.left
           \/ d.to <= post[p].at
           \/ post[p].at < d.to - MaxWindow

GapsAreKnown ==
    \A s \in Sources, p \in Posts :
        SourceOf[p] = s /\ Born(p) /\ Later(s, p) # {} => Accounted(s, p)

RunsInOrder ==
    \A w \in Workers : WindowIsKnown(w) /\ WindowIsCollected(w) /\ WindowFollows(w)

PoolInv == /\ PoolShape
           /\ DigestsInOrder
           /\ RunsInOrder
           /\ DigestsDisjoint
           /\ GapsAreKnown

------------------------------------------------------------------------------
(* There is nothing in the pool at first.                                  *)
LEMMA InitPool == Init => PoolInv
<1> USE DigestAssumption
<1> SUFFICES ASSUME Init PROVE PoolInv
  OBVIOUS
<1>1. PoolShape
  BY DEF Init, PoolShape, Postings, RunStates, NoRun, Digest
<1>2. DigestsInOrder /\ DigestsDisjoint /\ GapsAreKnown
  BY DEF Init, DigestsInOrder, DigestsDisjoint, GapsAreKnown, Later
<1>3. RunsInOrder
  BY DEF Init, RunsInOrder, WindowIsKnown, WindowIsCollected, WindowFollows,
     NoRun, Reading, Writing
<1> QED
  BY <1>1, <1>2, <1>3 DEF PoolInv

(* The variables of the pool.                                              *)
pool == <<now, post, digests, run, overlapped>>

(* Steps of the schedulers, the requests, the leases and the reaper leave  *)
(* them alone.                                                             *)
LEMMA PoolUnchanged == PoolInv /\ UNCHANGED pool => PoolInv'
<1> SUFFICES ASSUME PoolInv, UNCHANGED pool PROVE PoolInv'
  OBVIOUS
<1> USE DEF pool, PoolInv
<1>1. PoolShape'
  BY DEF PoolShape
<1>2. DigestsInOrder' /\ DigestsDisjoint'
  BY DEF DigestsInOrder, DigestsDisjoint, Born
<1>3. GapsAreKnown'
  BY DEF GapsAreKnown, Accounted, Later, Born
<1>4. RunsInOrder'
  BY DEF RunsInOrder, WindowIsKnown, WindowIsCollected, WindowFollows, Born, In
<1> QED
  BY <1>1, <1>2, <1>3, <1>4

(* Time passes.                                                            *)
LEMMA TickPool == PoolInv /\ Tick => PoolInv'
<1> SUFFICES ASSUME PoolInv, Tick PROVE PoolInv'
  OBVIOUS
<1> USE DigestAssumption DEF PoolInv, Tick, tables, processes
<1>1. PoolShape'
  BY DEF PoolShape
<1>2. DigestsInOrder' /\ DigestsDisjoint'
  <2>1. \A s \in Sources : \A d \in digests[s] : d.at \in Int
    BY DEF PoolShape, Digest
  <2> QED
    BY <2>1 DEF DigestsInOrder, DigestsDisjoint, Born, PoolShape
<1>3. GapsAreKnown'
  BY DEF GapsAreKnown, Accounted, Later, Born
<1>4. RunsInOrder'
  <2>1. \A w \in Workers : run[w].to \in Int
    BY DEF PoolShape, RunStates
  <2> QED
    BY <2>1 DEF RunsInOrder, WindowIsKnown, WindowIsCollected, WindowFollows,
       Born, In, PoolShape
<1> QED
  BY <1>1, <1>2, <1>3, <1>4

------------------------------------------------------------------------------

(* A post is stamped with the time it is, or committed with the stamp it   *)
(* has.                                                                    *)
LEMMA PostStep ==
    ASSUME PoolInv, UNCHANGED <<now, digests, run, overlapped>>,
           post' \in [Posts -> Postings], NEW p \in Posts,
           \A r \in Posts \ {p} : post'[r] = post[r],
           Born(p)', post'[p].at = IF Born(p) THEN post[p].at ELSE now
    PROVE  PoolInv'
<1> USE DEF PoolInv
<1>0. /\ \A s \in Sources : \A d \in digests[s] :
           /\ d.at \in Int /\ d.to \in Int /\ d.posts \subseteq Posts
      /\ now \in Int /\ \A r \in Posts : post[r].at \in Int
      /\ \A w \in Workers : run[w].to \in Int /\ run[w].posts \subseteq Posts
  BY DEF PoolShape, Digest, Postings, RunStates
<1>1. PoolShape'
  BY DEF PoolShape
<1>2. \A r \in Posts : Born(r) => Born(r)' /\ post'[r] .at = post[r].at
  BY DEF Born
<1>3. DigestsInOrder'
  BY <1>0, <1>2 DEF DigestsInOrder
<1>4. DigestsDisjoint'
  BY DEF DigestsDisjoint
<1>5. ASSUME NEW s \in Sources, NEW r \in Posts,
             SourceOf[r] = s, Born(r)', Later(s, r)' # {}
      PROVE  Accounted(s, r)'
  <2>1. CASE Born(r)
    <3>1. Later(s, r)' = Later(s, r)
      BY <1>2, <2>1 DEF Later
    <3>2. Accounted(s, r)
      BY <1>5, <2>1, <3>1 DEF GapsAreKnown
    <3> QED
      BY <1>2, <2>1, <3>1, <3>2 DEF Accounted
  <2>2. CASE ~Born(r)
    <3>1. r = p /\ post'[r].at = now
      BY <1>5, <2>2 DEF Born
    <3> QED
      BY <1>0, <1>5, <3>1 DEF Later, DigestsInOrder
  <2> QED
    BY <2>1, <2>2
<1>6. GapsAreKnown'
  BY <1>5 DEF GapsAreKnown
<1>7. ASSUME NEW w \in Workers PROVE WindowIsCollected(w)'
  <2>1. ASSUME NEW r \in Posts, Born(r)', In(r, run[w].from, run[w].to)'
        PROVE  Born(r) /\ In(r, run[w].from, run[w].to)
    <3>1. CASE ~Born(r)
      <4>1. r = p /\ post'[r].at = now
        BY <2>1, <3>1 DEF Born
      <4> QED
        BY <1>0, <2>1, <4>1 DEF In, RunsInOrder, WindowIsKnown
    <3>2. CASE Born(r)
      BY <1>2, <2>1, <3>2 DEF In
    <3> QED
      BY <3>1, <3>2
  <2>2. \A r \in run[w].posts : Born(r) /\ In(r, run[w].from, run[w].to) =>
                                Born(r)' /\ In(r, run[w].from, run[w].to)'
    BY <1>0, <1>2 DEF In
  <2> QED
    BY <2>1, <2>2 DEF RunsInOrder, WindowIsCollected
<1>8. RunsInOrder'
  BY <1>7 DEF RunsInOrder, WindowIsKnown, WindowFollows
<1> QED
  BY <1>1, <1>3, <1>4, <1>6, <1>8

(* The steps of PostUsecase.Create are of that kind.                       *)
LEMMA PostPool ==
    ASSUME PoolInv, NEW p \in Posts, StampPost(p) \/ CommitPost(p)
    PROVE  PoolInv'
<1>1. post[p] \in Postings /\ now \in 0 .. MaxTime /\ post \in [Posts -> Postings]
  BY DEF PoolInv, PoolShape
<1>2. CASE StampPost(p)
  <2>1. post' = [post EXCEPT ![p] = [state |-> "stamped", at |-> now]]
    BY <1>2 DEF StampPost
  <2>2. post' \in [Posts -> Postings]
    BY <1>1, <2>1 DEF Postings
  <2>3. Born(p)' /\ ~Born(p) /\ post'[p].at = now
    BY <1>1, <1>2, <2>1 DEF StampPost, Born
  <2> QED
    BY <1>1, <1>2, <2>1, <2>2, <2>3, PostStep DEF StampPost, processes, tables
<1>3. CASE CommitPost(p)
  <2>1. post' = [post EXCEPT ![p] = [post[p] EXCEPT !.state = "committed"]]
    BY <1>3 DEF CommitPost
  <2>2. post' \in [Posts -> Postings]
    BY <1>1, <2>1 DEF Postings
  <2>3. Born(p)' /\ Born(p) /\ post'[p].at = post[p].at
    BY <1>1, <1>3, <2>1 DEF CommitPost, Born, Postings
  <2> QED
    BY <1>1, <1>3, <2>1, <2>2, <2>3, PostStep DEF CommitPost, processes, tables
<1> QED
  BY <1>2, <1>3

------------------------------------------------------------------------------
(* The runs.                                                               *)

(* A run goes on, or ends.                                                 *)
LEMMA RunStep ==
    ASSUME PoolInv, UNCHANGED <<now, post, digests, overlapped>>,
           NEW w \in Workers, NEW r \in RunStates,
           run' = [run EXCEPT ![w] = r],
           r.source \in {run[w].source, None},
           IF r.pc = "idle" THEN r.source = None ELSE r.source \in Sources,
           WindowIsKnown(w)', WindowIsCollected(w)',
           r.pc \in Reading /\ r.source \notin overlapped =>
             \A d \in digests[r.source] : d.at <= r.from
    PROVE  PoolInv'
<1> USE DEF PoolInv
<1>0. run'[w] = r /\ \A v \in Workers \ {w} : run'[v] = run[v]
  BY DEF PoolShape
<1>1. PoolShape'
  BY <1>0 DEF PoolShape
<1>2. DigestsInOrder' /\ DigestsDisjoint' /\ GapsAreKnown'
  <2>1. DigestsInOrder' /\ DigestsDisjoint'
    BY DEF DigestsInOrder, DigestsDisjoint, Born
  <2>2. GapsAreKnown'
    BY DEF GapsAreKnown, Accounted, Later, Born
  <2> QED
    BY <2>1, <2>2
<1>3. ASSUME NEW v \in Workers PROVE WindowIsKnown(v)' /\ WindowIsCollected(v)'
  BY <1>0 DEF RunsInOrder, WindowIsKnown, WindowIsCollected, Born, In
<1>4. ASSUME NEW v \in Workers PROVE WindowFollows(v)'
  <2>1. ASSUME NEW u \in Workers, run'[u].source = run'[v].source,
               run'[v].source \in Sources \ overlapped
        PROVE  u = v
    <3>1. run[u].source = run'[u].source /\ run[v].source = run'[v].source
      BY <1>0, <2>1, DigestAssumption
    <3> QED
      BY <2>1, <3>1 DEF RunsInOrder, WindowFollows
  <2>2. ASSUME run'[v].source \in Sources \ overlapped, run'[v].pc \in Reading
        PROVE  \A d \in digests[run'[v].source] : d.at <= run'[v].from
    BY <1>0, <2>2 DEF RunsInOrder, WindowFollows
  <2> QED
    BY <2>1, <2>2 DEF WindowFollows
<1> QED
  BY <1>1, <1>2, <1>3, <1>4 DEF RunsInOrder

(* The end of a run.                                                       *)
LEMMA ReleasePool ==
    ASSUME PoolInv, UNCHANGED <<now, post, digests, overlapped>>,
           NEW w \in Workers, run' = [run EXCEPT ![w] = NoRun]
    PROVE  PoolInv'
<1>1. NoRun \in RunStates /\ NoRun.source = None /\ NoRun.pc = "idle" /\ NoRun.to = 0
  BY DigestAssumption DEF NoRun, RunStates
<1>2. run'[w] = NoRun /\ now \in Nat
  BY DEF PoolInv, PoolShape
<1>3. WindowIsKnown(w)' /\ WindowIsCollected(w)'
  BY <1>1, <1>2 DEF WindowIsKnown, WindowIsCollected, Reading, Writing
<1> HIDE DEF NoRun
<1> QED
  BY <1>1, <1>3, RunStep DEF Reading, Writing

(* The last digest, when there is one, is what LastAt finds.               *)
LEMMA LastIsLast ==
    ASSUME PoolInv, NEW s \in Sources
    PROVE  /\ LastAt(s) \in Int
           /\ \A d \in digests[s] : d.at <= LastAt(s)
           /\ LastAt(s) = 0 \/ \E d \in digests[s] : LastAt(s) = d.at
<1>1. CASE digests[s] = {}
  BY <1>1 DEF LastAt
<1>2. CASE digests[s] # {}
  <2> DEFINE last == CHOOSE d \in digests[s] : \A x \in digests[s] : x.at <= d.at
  <2>1. last \in digests[s] /\ \A x \in digests[s] : x.at <= last.at
    BY <1>2 DEF PoolInv, DigestsInOrder
  <2>2. LastAt(s) = last.at
    BY <1>2 DEF LastAt
  <2>3. last.at \in Int
    BY <2>1 DEF PoolInv, PoolShape, Digest
  <2> QED
    BY <2>1, <2>2, <2>3
<1> QED
  BY <1>1, <1>2

(* The window ends now and starts at or after the last digest.             *)
LEMMA BeginPool == ASSUME PoolInv, NEW w \in Workers, Begin(w) PROVE PoolInv'
<1> DEFINE s == run[w].source
           r == [run[w] EXCEPT !.pc = "collect", !.from = WindowStart(s), !.to = now]
<1>1. s \in Sources /\ run[w] \in RunStates /\ now \in 0 .. MaxTime
  BY DEF Begin, PoolInv, PoolShape
<1>2. WindowStart(s) \in Int /\ LastAt(s) <= WindowStart(s)
  BY <1>1, LastIsLast, DigestAssumption DEF WindowStart
<1>3. /\ r \in RunStates /\ r.pc = "collect" /\ r.source = s
      /\ r.from = WindowStart(s) /\ r.to = now
  BY <1>1, <1>2 DEF RunStates
<1>4. run' = [run EXCEPT ![w] = r] /\ UNCHANGED <<now, post, digests, overlapped>>
  BY DEF Begin, tables
<1> HIDE DEF r
<1>5. run'[w] = r
  BY <1>4 DEF PoolInv, PoolShape
<1>6. WindowStart(s) = LastAt(s) \/ WindowStart(s) = now - MaxWindow
  BY DEF WindowStart
<1>7. WindowIsKnown(w)'
  <2>1. \/ r.from <= 0 \/ r.from = r.to - MaxWindow
        \/ \E d \in digests[s] : r.from <= d.at
    BY <1>1, <1>2, <1>3, <1>6, LastIsLast
  <2> QED
    BY <1>1, <1>3, <1>4, <1>5, <2>1 DEF WindowIsKnown
<1>8. WindowIsCollected(w)'
  BY <1>3, <1>5 DEF WindowIsCollected, Writing
<1>9. \A d \in digests[s] : d.at <= r.from
  <2>1. \A d \in digests[s] : d.at \in Int
    BY <1>1 DEF PoolInv, PoolShape, Digest
  <2> QED
    BY <1>1, <1>2, <1>3, <2>1, LastIsLast
<1> HIDE DEF s
<1> QED
  BY <1>1, <1>3, <1>4, <1>7, <1>8, <1>9, RunStep DEF s

(* collectWindowPosts finds an empty window, or takes its newest posts.    *)
LEMMA CollectPool == ASSUME PoolInv, NEW w \in Workers, Collect(w) PROVE PoolInv'
<1> DEFINE s == run[w].source
           from == run[w].from
           to == run[w].to
           window == Committed(s, from, to)
<1>1. /\ s \in Sources /\ run[w] \in RunStates /\ run[w].pc = "collect"
      /\ post \in [Posts -> Postings]
      /\ WindowIsKnown(w) /\ WindowFollows(w)
  BY DEF Collect, PoolInv, PoolShape, RunsInOrder
<1>2. UNCHANGED <<now, post, digests, overlapped>>
  BY DEF Collect, tables
<1>3. CASE run' = [run EXCEPT ![w].pc = "empty"]
  <2> DEFINE r == [run[w] EXCEPT !.pc = "empty"]
  <2>1. r \in RunStates /\ r.pc = "empty" /\ r.source = s /\ r.to = to
    BY <1>1 DEF RunStates
  <2>2. run' = [run EXCEPT ![w] = r]
    BY <1>3
  <2> HIDE DEF r
  <2>3. run'[w] = r
    BY <2>2 DEF PoolInv, PoolShape
  <2>4. WindowIsKnown(w)' /\ WindowIsCollected(w)'
    BY <1>1, <1>2, <2>1, <2>3 DEF WindowIsKnown, WindowIsCollected, Reading, Writing
  <2> QED
    BY <1>1, <1>2, <2>1, <2>2, <2>4, RunStep DEF Reading, Writing
<1>4. ASSUME NEW kept \in SUBSET window,
             run' = [run EXCEPT ![w] = [run[w] EXCEPT
                !.pc = "generate", !.posts = kept,
                !.left = (window \ kept) \cup Uncommitted(s, from, to)]]
      PROVE  PoolInv'
  <2> DEFINE left == (window \ kept) \cup Uncommitted(s, from, to)
             r == [run[w] EXCEPT !.pc = "generate", !.posts = kept, !.left = left]
  <2>1. kept \subseteq Posts /\ left \subseteq Posts
    BY DEF Committed, Uncommitted
  <2>2. \A p \in kept : Born(p) /\ In(p, from, to)
    BY DEF Committed, Born, In
  <2>3. \A p \in Posts : SourceOf[p] = s /\ Born(p) /\ In(p, from, to) =>
                         p \in kept \cup left
    BY <1>1 DEF Committed, Uncommitted, Born, In, Postings
  <2> HIDE DEF left
  <2>4. /\ r \in RunStates /\ r.pc = "generate" /\ r.source = s
        /\ r.from = from /\ r.to = to /\ r.posts = kept /\ r.left = left
    BY <1>1, <2>1 DEF RunStates
  <2>5. run' = [run EXCEPT ![w] = r]
    BY <1>4 DEF left
  <2> HIDE DEF r
  <2>6. run'[w] = r
    BY <2>5 DEF PoolInv, PoolShape
  <2>7. WindowIsKnown(w)'
    BY <1>1, <1>2, <2>4, <2>6 DEF WindowIsKnown, Reading, Writing
  <2>8. WindowIsCollected(w)'
    BY <1>2, <2>2, <2>3, <2>4, <2>6 DEF WindowIsCollected, Born, In
  <2>9. s \notin overlapped => \A d \in digests[s] : d.at <= from
    BY <1>1 DEF WindowFollows, Reading
  <2> QED
    BY <1>1, <1>2, <2>4, <2>5, <2>7, <2>8, <2>9, RunStep
<1> QED
  BY <1>3, <1>4 DEF Collect

(* The LLM answers, or the run fails.                                      *)
LEMMA GeneratePool == ASSUME PoolInv, NEW w \in Workers, Generate(w) PROVE PoolInv'
<1> DEFINE s == run[w].source
<1>1. /\ s \in Sources /\ run[w] \in RunStates /\ run[w].pc = "generate"
      /\ WindowIsKnown(w) /\ WindowIsCollected(w) /\ WindowFollows(w)
  BY DEF Generate, PoolInv, PoolShape, RunsInOrder
<1>2. UNCHANGED <<now, post, digests, overlapped>>
  BY DEF Generate, tables
<1>3. PICK pc \in {"save", "failed"} : run' = [run EXCEPT ![w].pc = pc]
  BY DEF Generate
<1> DEFINE r == [run[w] EXCEPT !.pc = pc]
<1>4. /\ r \in RunStates /\ r.pc = pc /\ r.source = s /\ r.from = run[w].from
      /\ r.to = run[w].to /\ r.posts = run[w].posts /\ r.left = run[w].left
  BY <1>1 DEF RunStates
<1>5. run' = [run EXCEPT ![w] = r]
  BY <1>3
<1> HIDE DEF r
<1>6. run'[w] = r
  BY <1>5 DEF PoolInv, PoolShape
<1>7. WindowIsKnown(w)'
  BY <1>1, <1>2, <1>4, <1>6 DEF WindowIsKnown, Reading, Writing
<1>8. WindowIsCollected(w)'
  BY <1>1, <1>2, <1>4, <1>6 DEF WindowIsCollected, Born, In, Writing
<1>9. s \notin overlapped => \A d \in digests[s] : d.at <= r.from
  BY <1>1, <1>4 DEF WindowFollows, Reading, Writing
<1> QED
  BY <1>1, <1>2, <1>4, <1>5, <1>7, <1>8, <1>9, RunStep

(* A worker claims an event: the run of the source is its only one, or the *)
(* source has overlapped.                                                  *)
LEMMA ClaimPool == ASSUME PoolInv, NEW w \in Workers, Claim(w) PROVE PoolInv'
<1> USE DEF PoolInv
<1> DEFINE busy(s) == \E v \in Workers : run[v].source = s
<1>1. PICK s \in Sources :
        /\ run' = [run EXCEPT ![w] = [NoRun EXCEPT !.pc = "window", !.source = s]]
        /\ overlapped' = IF busy(s) THEN overlapped \cup {s} ELSE overlapped
  BY DEF Claim
<1>2. UNCHANGED <<now, post, digests>> /\ run[w].pc = "idle" /\ run[w].source = None
  BY DEF Claim, PoolShape
<1> DEFINE r == [NoRun EXCEPT !.pc = "window", !.source = s]
<1>3. r \in RunStates /\ r.pc = "window" /\ r.source = s /\ r.to = 0
  <2> DEFINE a == [NoRun EXCEPT !.pc = "window"]
  <2>1. a \in RunStates /\ a.pc = "window" /\ a.to = 0
    BY DigestAssumption DEF NoRun, RunStates
  <2>2. r = [a EXCEPT !.source = s]
    OBVIOUS
  <2> HIDE DEF a, r
  <2> QED
    BY <2>1, <2>2 DEF RunStates
<1>4. run' = [run EXCEPT ![w] = r]
  BY <1>1
<1> HIDE DEF r
<1>5. run'[w] = r /\ \A v \in Workers \ {w} : run'[v] = run[v]
  BY <1>4 DEF PoolShape
<1>6. PoolShape'
  <2>1. overlapped' \subseteq Sources
    BY <1>1 DEF PoolShape
  <2> QED
    BY <1>2, <1>3, <1>4, <1>5, <2>1 DEF PoolShape
<1>7. DigestsInOrder' /\ DigestsDisjoint'
  BY <1>1, <1>2 DEF DigestsInOrder, DigestsDisjoint, Born
<1>8. GapsAreKnown'
  BY <1>2 DEF GapsAreKnown, Accounted, Later, Born
<1>9. ASSUME NEW v \in Workers PROVE WindowIsKnown(v)' /\ WindowIsCollected(v)'
  BY <1>2, <1>3, <1>5 DEF RunsInOrder, WindowIsKnown, WindowIsCollected, Born,
     In, Reading, Writing, PoolShape
<1>10. ASSUME NEW v \in Workers, run'[v].source \in Sources \ overlapped'
       PROVE  WindowFollows(v)'
  <2>1. CASE v = w
    <3>1. ~busy(s)
      BY <1>1, <1>3, <1>5, <1>10, <2>1
    <3> QED
      BY <1>3, <1>5, <2>1, <3>1 DEF WindowFollows, Reading, Writing
  <2>2. CASE v # w
    <3>1. run'[v] = run[v] /\ WindowFollows(v) /\ run[v].source \in Sources \ overlapped
      BY <1>1, <1>5, <1>10, <2>2 DEF RunsInOrder
    <3>2. run[v].source # s
      BY <1>1, <1>10, <3>1
    <3> QED
      BY <1>2, <1>3, <1>5, <3>1, <3>2 DEF WindowFollows
  <2> QED
    BY <2>1, <2>2
<1>11. RunsInOrder'
  BY <1>9, <1>10 DEF RunsInOrder, WindowFollows
<1> QED
  BY <1>6, <1>7, <1>8, <1>11

(* The digest that Save stores.                                            *)
Stored(w) == [at |-> now, to |-> run[w].to, posts |-> run[w].posts,
              left |-> run[w].left]

(* What a run of a source that never overlapped stores is disjoint from    *)
(* what is there: its window starts at or after the last digest.           *)
LEMMA StoredIsDisjoint ==
    ASSUME PoolInv, NEW w \in Workers, run[w].pc = "save",
           NEW s \in Sources \ overlapped, s = run[w].source,
           NEW d \in digests[s]
    PROVE  run[w].posts \cap d.posts = {}
<1>1. \A p \in run[w].posts : run[w].from <= post[p].at
  BY DEF PoolInv, RunsInOrder, WindowIsCollected, Writing, In
<1>2. d.at <= run[w].from
  BY DEF PoolInv, RunsInOrder, WindowFollows, Reading, Writing
<1>3. d.to <= d.at /\ \A p \in d.posts : post[p].at < d.to
  BY DEF PoolInv, DigestsInOrder
<1>4. /\ d.to \in Int /\ d.at \in Int /\ run[w].from \in Int
      /\ d.posts \subseteq Posts /\ \A p \in Posts : post[p].at \in Int
  BY DEF PoolInv, PoolShape, Digest, RunStates, Postings
<1>5. ASSUME NEW p \in Posts, p \in run[w].posts, p \in d.posts PROVE FALSE
  BY <1>1, <1>2, <1>3, <1>4, <1>5
<1> QED
  BY <1>4, <1>5

(* What a run stores accounts for every post before it that no digest is   *)
(* later than.                                                             *)
LEMMA StoredAccounts ==
    ASSUME PoolInv, NEW w \in Workers, run[w].pc = "save",
           NEW s \in Sources, s = run[w].source,
           NEW p \in Posts, SourceOf[p] = s, Born(p), Later(s, p) = {}
    PROVE  \/ p \in run[w].posts \cup run[w].left
           \/ run[w].to <= post[p].at
           \/ post[p].at < run[w].to - MaxWindow
<1> DEFINE from == run[w].from
           to == run[w].to
<1>1. /\ from \in Int /\ to \in Int /\ post[p].at \in Int /\ 0 <= post[p].at
      /\ \A d \in digests[s] : d.at \in Int
  BY DEF PoolInv, PoolShape, RunStates, Postings, Digest
<1>2. \/ from <= 0 \/ from = to - MaxWindow
      \/ \E d \in digests[s] : from <= d.at
  BY DEF PoolInv, RunsInOrder, WindowIsKnown, Reading, Writing
<1>3. In(p, from, to) => p \in run[w].posts \cup run[w].left
  BY DEF PoolInv, RunsInOrder, WindowIsCollected, Writing
<1>4. \A d \in digests[s] : d.at <= post[p].at
  BY <1>1 DEF Later
<1> QED
  BY <1>1, <1>2, <1>3, <1>4, DigestAssumption DEF In

(* The digest is saved, and the run has only its event left to end.        *)
LEMMA SavePool == ASSUME PoolInv, NEW w \in Workers, Save(w) PROVE PoolInv'
<1> USE DEF PoolInv
<1> DEFINE s == run[w].source
           n == Stored(w)
<1>1. PICK pc \in {"saved", "failed"} :
        run' = [run EXCEPT ![w] = [NoRun EXCEPT !.pc = pc, !.source = s]]
  BY DEF Save
<1>2. /\ UNCHANGED <<now, post, overlapped>> /\ run[w].pc = "save"
      /\ digests' = [digests EXCEPT ![s] = @ \cup {n}]
  BY DEF Save, Stored
<1>3. /\ s \in Sources /\ run[w] \in RunStates /\ now \in 0 .. MaxTime
      /\ WindowIsKnown(w) /\ WindowIsCollected(w) /\ WindowFollows(w)
  BY <1>2 DEF PoolShape, RunsInOrder
<1>4. /\ n \in Digest /\ n.at = now /\ n.to = run[w].to
      /\ n.posts = run[w].posts /\ n.left = run[w].left
  BY <1>3 DEF Stored, Digest, RunStates
<1> DEFINE r == [NoRun EXCEPT !.pc = pc, !.source = s]
<1>5. r \in RunStates /\ r.pc = pc /\ r.source = s /\ r.to = 0
  <2> DEFINE a == [NoRun EXCEPT !.pc = pc]
  <2>1. a \in RunStates /\ a.pc = pc /\ a.to = 0
    BY DigestAssumption DEF NoRun, RunStates
  <2>2. r = [a EXCEPT !.source = s]
    OBVIOUS
  <2> HIDE DEF a, r
  <2> QED
    BY <1>3, <2>1, <2>2 DEF RunStates
<1>6. run' = [run EXCEPT ![w] = r]
  BY <1>1
<1> HIDE DEF r, n
<1>7. run'[w] = r /\ \A v \in Workers \ {w} : run'[v] = run[v]
  BY <1>6 DEF PoolShape
<1>8. /\ digests'[s] = digests[s] \cup {n}
      /\ \A t \in Sources \ {s} : digests'[t] = digests[t]
      /\ \A t \in Sources : \A d \in digests[t] : d \in Digest /\ d.at <= now
  BY <1>2, <1>3 DEF PoolShape, DigestsInOrder
<1>9. PoolShape'
  BY <1>2, <1>3, <1>4, <1>5, <1>6, <1>7 DEF PoolShape
<1>10. DigestsInOrder'
  <2>1. n.to <= n.at /\ n.at <= now /\ \A p \in n.posts : Born(p) /\ post[p].at < n.to
    BY <1>2, <1>3, <1>4 DEF WindowIsKnown, WindowIsCollected, Writing, In
  <2>2. \A x \in digests'[s] : x.at <= n.at
    BY <1>3, <1>4, <1>8
  <2> HIDE DEF s
  <2>3. ASSUME NEW t \in Sources, digests'[t] # {}
        PROVE  \E d \in digests'[t] : \A x \in digests'[t] : x.at <= d.at
    BY <1>8, <2>2, <2>3 DEF DigestsInOrder
  <2>4. ASSUME NEW t \in Sources, NEW d \in digests'[t]
        PROVE  /\ d.to <= d.at /\ d.at <= now
               /\ \A p \in d.posts : Born(p) /\ post[p].at < d.to
    BY <1>8, <2>1, <2>4 DEF DigestsInOrder
  <2> QED
    BY <1>2, <2>3, <2>4 DEF DigestsInOrder, Born
<1>11. DigestsDisjoint'
  <2>1. s \notin overlapped => \A d \in digests[s] : n.posts \cap d.posts = {}
    BY <1>2, <1>3, <1>4, StoredIsDisjoint
  <2> HIDE DEF s
  <2> QED
    BY <1>2, <1>8, <2>1 DEF DigestsDisjoint
<1>12. ASSUME NEW t \in Sources, NEW p \in Posts,
              SourceOf[p] = t, Born(p), Later(t, p)' # {}
       PROVE  Accounted(t, p)'
  <2>1. CASE Later(t, p) # {}
    <3>1. PICK d \in Later(t, p) :
            /\ \A x \in Later(t, p) : d.at <= x.at
            /\ \/ p \in d.posts \cup d.left
               \/ d.to <= post[p].at
               \/ post[p].at < d.to - MaxWindow
      BY <1>12, <2>1 DEF GapsAreKnown, Accounted
    <3>2. d \in Later(t, p)' /\ \A x \in Later(t, p)' : x \in Later(t, p) \/ x = n
      BY <1>2, <1>8 DEF Later
    <3>3. d.at <= n.at
      BY <1>4, <1>8 DEF Later
    <3> QED
      BY <1>2, <3>1, <3>2, <3>3 DEF Accounted
  <2>2. CASE Later(t, p) = {}
    <3>1. t = s /\ Later(t, p)' = {n}
      BY <1>2, <1>8, <1>12, <2>2 DEF Later
    <3>2. \/ p \in n.posts \cup n.left
          \/ n.to <= post[p].at
          \/ post[p].at < n.to - MaxWindow
      BY <1>2, <1>3, <1>4, <1>12, <2>2, <3>1, StoredAccounts
    <3>3. n.at <= n.at
      BY <1>3, <1>4
    <3> QED
      BY <1>2, <3>1, <3>2, <3>3 DEF Accounted
  <2> QED
    BY <2>1, <2>2
<1>13. GapsAreKnown'
  BY <1>2, <1>12 DEF GapsAreKnown, Born
<1>14. ASSUME NEW v \in Workers
       PROVE  WindowIsKnown(v)' /\ WindowIsCollected(v)' /\ WindowFollows(v)'
  <2>1. CASE v = w
    <3>1. WindowIsKnown(v)' /\ WindowIsCollected(v)'
      BY <1>2, <1>3, <1>5, <1>7, <2>1 DEF WindowIsKnown, WindowIsCollected,
         Reading, Writing
    <3>2. WindowFollows(v)'
      BY <1>2, <1>3, <1>5, <1>7, <2>1 DEF WindowFollows, Reading, Writing
    <3> QED
      BY <3>1, <3>2
  <2>2. CASE v # w
    <3>1. run'[v] = run[v]
      BY <1>7, <2>2
    <3>2. WindowIsKnown(v) /\ WindowIsCollected(v) /\ WindowFollows(v)
      BY DEF RunsInOrder
    <3>3. WindowIsKnown(v)'
      <4>1. run[v].pc \in Reading => run[v].source \in Sources
        BY DEF PoolShape, Reading, Writing
      <4> QED
        BY <1>2, <1>8, <3>1, <3>2, <4>1 DEF WindowIsKnown
    <3>4. WindowIsCollected(v)'
      BY <1>2, <3>1, <3>2 DEF WindowIsCollected, Born, In
    <3>5. WindowFollows(v)'
      <4>1. run[v].source \in Sources \ overlapped => run[v].source # s
        BY <2>2, <3>2 DEF WindowFollows
      <4> QED
        BY <1>2, <1>5, <1>7, <1>8, <3>1, <3>2, <4>1 DEF WindowFollows
    <3> QED
      BY <3>3, <3>4, <3>5
  <2> QED
    BY <2>1, <2>2
<1> QED
  BY <1>9, <1>10, <1>11, <1>13, <1>14 DEF RunsInOrder

------------------------------------------------------------------------------
(* Every step keeps the windows in order.                                  *)
LEMMA NextPool == PoolInv /\ [Next]_vars => PoolInv'
<1> SUFFICES ASSUME PoolInv, [Next]_vars PROVE PoolInv'
  OBVIOUS
<1>1. CASE UNCHANGED vars
  BY <1>1, PoolUnchanged DEF vars, pool
<1>2. CASE Tick
  BY <1>2, TickPool
<1>3. ASSUME NEW p \in Posts, StampPost(p) \/ CommitPost(p) PROVE PoolInv'
  BY <1>3, PostPool
<1>4. ASSUME NEW p \in Schedulers, Scheduler(p) \/ ScheduleFails(p) PROVE PoolInv'
  BY <1>4, PoolUnchanged DEF Scheduler, ScheduleFails, ClaimDueCumulative,
     Decide, EnqueueDue, tables, pool
<1>5. ASSUME NEW q \in Triggers, Trigger(q) PROVE PoolInv'
  BY <1>5, PoolUnchanged DEF Trigger, Ask, TriggerInsert, TriggerLock,
     TriggerCommit, TriggerFails, tables, pool
<1>6. ASSUME NEW p \in Schedulers, NEW q \in Triggers, Deadlock(p, q) PROVE PoolInv'
  BY <1>6, PoolUnchanged DEF Deadlock, tables, pool
<1>7. ASSUME NEW s \in Sources, LeaseRunsOut(s) \/ Reap(s) PROVE PoolInv'
  BY <1>7, PoolUnchanged DEF LeaseRunsOut, Reap, processes, pool
<1>8. ASSUME NEW w \in Workers, Claim(w) \/ ProcessSourceEvent(w) PROVE PoolInv'
  BY <1>8, ClaimPool, BeginPool, CollectPool, GeneratePool, SavePool
     DEF ProcessSourceEvent
<1>9. ASSUME NEW w \in Workers, Finalize(w) \/ Expire(w) \/ Abandon(w)
      PROVE  PoolInv'
  BY <1>9, ReleasePool DEF Finalize, Expire, Abandon, tables
<1> QED
  BY <1>1, <1>2, <1>3, <1>4, <1>5, <1>6, <1>7, <1>8, <1>9 DEF Next

(* The windows are in order in every reachable state.                      *)
LEMMA PoolInvariance == Spec => []PoolInv
BY InitPool, NextPool, PTL DEF Spec

------------------------------------------------------------------------------
(* An enqueueing happens before the clock of the model stops.              *)
Enqueuing == [manual : BOOLEAN, asked : 0 .. MaxTime, at : 0 .. MaxTime]

(* What the transaction x enqueues now.                                     *)
EnqueuesNow(x, manual) == {[manual |-> manual, asked |-> x.asked, at |-> now]}

(* Nothing is enqueued further ahead than one interval of the scheduler.    *)
Bounded ==
    /\ \A s \in Sources : nextAt[s] \in Times /\ enqueued[s] \subseteq Enqueuing
    /\ \A p \in Schedulers : sched[p].asked \in 0 .. MaxTime
    /\ \A q \in Triggers : trig[q].asked \in 0 .. MaxTime

(* A transaction plans one interval ahead, and writes what it enqueued.     *)
LEMMA NextBounded ==
    ASSUME IInv, PoolInv, Bounded, [Next]_vars
    PROVE  Bounded'
<1>1. /\ 0 \in 0 .. MaxTime /\ now \in 0 .. MaxTime
      /\ \A t \in 0 .. MaxTime : t + CronInterval \in Times
      /\ \A p \in Schedulers : EnqueuesNow(sched[p], FALSE) \subseteq Enqueuing
      /\ \A q \in Triggers : EnqueuesNow(trig[q], TRUE) \subseteq Enqueuing
  BY DigestAssumption DEF Times, PoolInv, PoolShape, Enqueuing, EnqueuesNow, Bounded
<1>2. /\ nextAt \in [Sources -> Int] /\ enqueued \in [Sources -> Enqueuings]
      /\ sched \in [Schedulers -> ScheduleStates]
      /\ trig \in [Triggers -> RequestStates]
  BY DEF IInv, Shape
<1> USE DEF Bounded
<1>3. ASSUME UNCHANGED <<nextAt, enqueued, sched, trig>> PROVE Bounded'
  BY <1>3
<1>4. ASSUME NEW p \in Schedulers, UNCHANGED trig,
             \A r \in Schedulers \ {p} : sched'[r] = sched[r],
             sched'[p].asked \in {0, now, sched[p].asked},
             \A s \in Sources : /\ nextAt'[s] \in {nextAt[s], NextAt(sched[p])}
                                /\ enqueued'[s] \in {enqueued[s], EnqueuesNow(sched[p], FALSE)}
      PROVE  Bounded'
  BY <1>1, <1>4 DEF NextAt
<1>5. ASSUME NEW q \in Triggers, UNCHANGED sched,
             \A r \in Triggers \ {q} : trig'[r] = trig[r],
             trig'[q].asked \in {0, now, trig[q].asked},
             \A s \in Sources : /\ nextAt'[s] \in {nextAt[s], NextAt(trig[q])}
                                /\ enqueued'[s] \in {enqueued[s], EnqueuesNow(trig[q], TRUE)}
      PROVE  Bounded'
  BY <1>1, <1>5 DEF NextAt
<1> HIDE DEF Bounded
<1>6. ASSUME NEW p \in Schedulers, Scheduler(p) \/ ScheduleFails(p) PROVE Bounded'
  <2>1. CASE ClaimDueCumulative(p)
    BY <1>2, <1>4, <2>1 DEF ClaimDueCumulative, tables
  <2>2. CASE Decide(p)
    <3>1. sched'[p].asked \in {0, sched[p].asked}
      BY <1>2, <2>2 DEF Decide, NoTx, ScheduleStates
    <3>2. \A r \in Schedulers \ {p} : sched'[r] = sched[r]
      BY <1>2, <2>2 DEF Decide
    <3>3. \A s \in Sources : nextAt'[s] \in {nextAt[s], NextAt(sched[p])}
      BY <1>2, <2>2 DEF Decide
    <3> QED
      BY <1>4, <2>2, <3>1, <3>2, <3>3 DEF Decide
  <2>3. CASE EnqueueDue(p)
    <3>1. sched'[p].asked = 0 /\ \A r \in Schedulers \ {p} : sched'[r] = sched[r]
      BY <1>2, <2>3 DEF EnqueueDue, NoTx
    <3>2. \A s \in Sources : /\ nextAt'[s] \in {nextAt[s], NextAt(sched[p])}
                             /\ enqueued'[s] \in {enqueued[s], EnqueuesNow(sched[p], FALSE)}
      BY <1>2, <2>3 DEF EnqueueDue, Enqueue, EnqueuesNow
    <3> QED
      BY <1>4, <2>3, <3>1, <3>2 DEF EnqueueDue
  <2>4. CASE ScheduleFails(p)
    BY <1>2, <1>4, <2>4 DEF ScheduleFails, NoTx, tables
  <2> QED
    BY <1>6, <2>1, <2>2, <2>3, <2>4 DEF Scheduler
<1>7. ASSUME NEW q \in Triggers, UNCHANGED sched,
             Answer(q, "event") \/ Answer(q, "refused") \/ Answer(q, "failed"),
             \A s \in Sources : /\ nextAt'[s] \in {nextAt[s], NextAt(trig[q])}
                                /\ enqueued'[s] \in {enqueued[s], EnqueuesNow(trig[q], TRUE)}
      PROVE  Bounded'
  <2>1. trig'[q].asked = 0 /\ \A r \in Triggers \ {q} : trig'[r] = trig[r]
    BY <1>2, <1>7 DEF Answer, NoRequest
  <2> QED
    BY <1>5, <1>7, <2>1
<1>8. ASSUME NEW q \in Triggers, Trigger(q) PROVE Bounded'
  <2>1. CASE Ask(q)
    <3>1. /\ trig'[q].asked \in {0, now}
          /\ \A r \in Triggers \ {q} : trig'[r] = trig[r]
      BY <1>2, <2>1 DEF Ask, NoRequest
    <3> QED
      BY <1>5, <2>1, <3>1 DEF Ask, tables
  <2>2. CASE TriggerInsert(q)
    <3>1. CASE Answer(q, "refused")
      BY <1>7, <2>2, <3>1 DEF TriggerInsert, tables
    <3>2. CASE trig' = [trig EXCEPT ![q].pc = "lock"]
      <4>1. /\ trig'[q].asked = trig[q].asked
            /\ \A r \in Triggers \ {q} : trig'[r] = trig[r]
        BY <1>2, <3>2 DEF RequestStates
      <4> QED
        BY <1>5, <2>2, <4>1 DEF TriggerInsert, tables
    <3> QED
      BY <2>2, <3>1, <3>2 DEF TriggerInsert
  <2>3. CASE TriggerLock(q)
    <3>1. /\ trig'[q].asked = trig[q].asked
          /\ \A r \in Triggers \ {q} : trig'[r] = trig[r]
      BY <1>2, <2>3 DEF TriggerLock, RequestStates
    <3> QED
      BY <1>5, <2>3, <3>1 DEF TriggerLock, tables
  <2>4. CASE TriggerCommit(q)
    <3>1. \A s \in Sources : /\ nextAt'[s] \in {nextAt[s], NextAt(trig[q])}
                             /\ enqueued'[s] \in {enqueued[s], EnqueuesNow(trig[q], TRUE)}
      BY <1>2, <2>4 DEF TriggerCommit, Enqueue, EnqueuesNow
    <3> QED
      BY <1>7, <2>4, <3>1 DEF TriggerCommit
  <2>5. CASE TriggerFails(q)
    BY <1>7, <2>5 DEF TriggerFails, tables
  <2> QED
    BY <1>8, <2>1, <2>2, <2>3, <2>4, <2>5 DEF Trigger
<1>9. ASSUME NEW p \in Schedulers, NEW q \in Triggers, Deadlock(p, q)
      PROVE  Bounded'
  <2>1. CASE sched' = [sched EXCEPT ![p] = NoTx] /\ UNCHANGED trig
    BY <1>2, <1>4, <1>9, <2>1 DEF Deadlock, NoTx, tables
  <2>2. CASE Answer(q, "refused") /\ UNCHANGED sched
    BY <1>7, <1>9, <2>2 DEF Deadlock, tables
  <2> QED
    BY <1>9, <2>1, <2>2 DEF Deadlock
<1>10. CASE Tick \/ UNCHANGED vars
  BY <1>3, <1>10 DEF Tick, tables, processes, vars
<1>11. ASSUME NEW p \in Posts, StampPost(p) \/ CommitPost(p) PROVE Bounded'
  BY <1>3, <1>11 DEF StampPost, CommitPost, tables, processes
<1>12. ASSUME NEW s \in Sources, LeaseRunsOut(s) \/ Reap(s) PROVE Bounded'
  BY <1>3, <1>12 DEF LeaseRunsOut, Reap, processes
<1>13. ASSUME NEW w \in Workers,
              \/ Claim(w) \/ ProcessSourceEvent(w)
              \/ Finalize(w) \/ Expire(w) \/ Abandon(w)
       PROVE  Bounded'
  BY <1>3, <1>13 DEF Claim, ProcessSourceEvent, Begin, Collect, Generate, Save,
     Finalize, Expire, Abandon, tables
<1> QED
  BY <1>6, <1>8, <1>9, <1>10, <1>11, <1>12, <1>13 DEF Next

------------------------------------------------------------------------------
(* Every variable keeps its shape, for every number of sources, posts and  *)
(* processes: the columns of sources, summary_events, posts and summaries, *)
(* and what the scheduler, the trigger and the handler carry.              *)
THEOREM TypeCorrect == Spec => []TypeOK
<1>1. Init => Bounded
  BY DigestAssumption DEF Init, Bounded, Times, NoTx, NoRequest
<1>2. IInv /\ PoolInv /\ Bounded /\ [Next]_vars => Bounded'
  BY NextBounded
<1>3. IInv /\ PoolInv /\ Bounded => TypeOK
  <2> SUFFICES ASSUME IInv, PoolInv, Bounded PROVE TypeOK
    OBVIOUS
  <2>1. nextAt \in [Sources -> Times] /\ enqueued \in [Sources -> SUBSET Enqueuing]
    BY DEF IInv, Shape, Bounded
  <2>2. /\ sched \in [Schedulers -> [pc : {"idle", "decide", "insert"},
                                     source : Sources \cup {None},
                                     asked : 0 .. MaxTime]]
        /\ trig \in [Triggers ->
             [pc : {"idle", "insert", "lock", "commit"},
              source : Sources \cup {None}, asked : 0 .. MaxTime,
              answer : {"none", "event", "refused", "failed"}]]
    BY DEF IInv, Shape, Bounded, ScheduleStates, RequestStates
  <2> QED
    BY <2>1, <2>2 DEF IInv, Shape, PoolInv, PoolShape, TypeOK, Enqueuing, Events,
       Postings,
       RunStates
<1> QED
  BY <1>1, <1>2, <1>3, Invariance, PoolInvariance, PTL DEF Spec

(* A post is in one digest at most as long as no run of its source         *)
(* overlapped another, whatever failed, was retried or triggered by hand:  *)
(* ProcessSourceEvent starts its window at or after the last digest.       *)
THEOREM WindowsDisjoint == Spec => []DigestsDisjoint
<1>1. PoolInv => DigestsDisjoint
  BY DEF PoolInv
<1> QED
  BY <1>1, PoolInvariance, PTL

(* A committed post that is older than some digest and in none was created *)
(* while the first of them was being written, was not committed or did not *)
(* fit when ProcessSourceEvent collected it, or was older than max_window. *)
THEOREM GapsExplained == Spec => []OnlyGapsLosePosts
<1>1. ASSUME PoolInv PROVE OnlyGapsLosePosts
  <2> SUFFICES ASSUME NEW s \in Sources, NEW p \in Posts,
                      SourceOf[p] = s, post[p].state = "committed",
                      Later(s, p) # {}, \A d \in digests[s] : p \notin d.posts
               PROVE  \E d \in { d \in Later(s, p) : \A e \in Later(s, p) : d.at <= e.at } :
                        \/ d.to <= post[p].at
                        \/ p \in d.left
                        \/ post[p].at < d.to - MaxWindow
    BY DEF OnlyGapsLosePosts, Later
  <2>1. Accounted(s, p)
    BY <1>1 DEF PoolInv, GapsAreKnown, Born
  <2>2. \A d \in Later(s, p) : p \notin d.posts
    BY DEF Later
  <2> QED
    BY <2>1, <2>2 DEF Accounted
<1> QED
  BY <1>1, PoolInvariance, PTL

===============================================================================
