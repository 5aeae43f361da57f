---------------------------- MODULE CollectWindow ----------------------------
(* collectWindowPosts: the input of a digest, read page by page from the   *)
(* newest post of the window on, until the limit on its bytes is reached.  *)
(* Posts are inserted, changed and deleted between two pages.  A text is   *)
(* the sequence of the widths of its runes, in bytes.                      *)
EXTENDS Integers, Sequences, FiniteSets

CONSTANTS
    Posts,     \* ids of posts, ordered as uuids are
    Times,     \* created_at of a post
    From, To,  \* the window: start inclusive, end exclusive
    Texts,     \* the texts there are
    Limits,    \* the values of max_input_chars
    PageSize,  \* defaultListPageSize
    MaxEdits   \* bound: the changes to the posts while the window is read

ASSUME PostsAssumption ==
    Posts \subseteq Nat \ {0} /\ IsFiniteSet(Posts) /\ Times \subseteq Nat /\ Texts \subseteq Seq(1..4)
ASSUME LimitsAssumption == Limits \subseteq Nat /\ PageSize \in Nat \ {0} /\ MaxEdits \in Nat

VARIABLES
    created,  \* created_at of every post
    text,     \* its text
    rows,     \* the posts that have a row
    limit,    \* maxChars
    cursor,   \* the post the page token was cut from, 0 before the first page
    parts,    \* newestFirst: [id, text, whole], whole with the separator
    reading,  \* the loop goes on
    stable,   \* history: the rows nobody has changed since the first page
    edits     \* what MaxEdits still allows

wvars == <<created, text, rows, limit, cursor, parts, reading, stable, edits>>

Separator == 2  \* bytes of "\n\n"

Bytes(t) ==
    LET sum[k \in 0..Len(t)] == IF k = 0 THEN 0 ELSE sum[k - 1] + t[k]
    IN sum[Len(t)]

PartBytes(part) == Bytes(part.text) + IF part.whole THEN Separator ELSE 0

Total(s) == Bytes([k \in DOMAIN s |-> PartBytes(s[k])])

(* truncateUTF8: back from byte n to the first byte of a rune.             *)
TruncateUTF8(t, n) ==
    LET starts == {Bytes(SubSeq(t, 1, k)) : k \in 0..Len(t)}
        back[m \in 0..n] == IF m = 0 \/ m \in starts THEN m ELSE back[m - 1]
    IN IF Bytes(t) <= n THEN t
       ELSE SubSeq(t, 1, CHOOSE k \in 0..Len(t) : Bytes(SubSeq(t, 1, k)) = back[n])

-----------------------------------------------------------------------------
(* List: a page of the window, ordered by (created_at, id) descending      *)

Newer(p, q) == created[p] > created[q] \/ (created[p] = created[q] /\ p > q)

(* Mutant: the cursor compares created_at alone.                           *)
RestByTime ==
    {p \in rows : /\ From <= created[p] /\ created[p] < To
                  /\ cursor # 0 => created[p] < created[cursor]}

(* The rows of the window that are strictly behind the cursor.             *)
Behind ==
    {p \in rows : /\ From <= created[p] /\ created[p] < To
                  /\ cursor # 0 => Newer(cursor, p)}

(* The members of S, newest first.                                         *)
NewestFirst(S) ==
    [k \in 1..Cardinality(S) |->
        CHOOSE p \in S : Cardinality({q \in S : Newer(q, p)}) = k - 1]

(* Mutant: the separator is not counted.                                   *)
FitsBare(got, piece) == Total(got) + Bytes(piece.text) <= limit

Fits(got, piece) == Total(got) + PartBytes(piece) <= limit

(* Mutant: whichever post does not fit is cut.                             *)
CutLast(got, p) ==
    Append(got, [id |-> p, text |-> TruncateUTF8(text[p], limit - Total(got)), whole |-> FALSE])

(* A post that does not fit is left out, or cut if it is the very first.   *)
Overflow(got, p) ==
    IF got # <<>> THEN got
    ELSE <<[id |-> p, text |-> TruncateUTF8(text[p], limit), whole |-> FALSE]>>

(* The loop over the items of a page: a post that does not fit ends it.    *)
Gather(page) ==
    LET after[k \in 0..Len(page)] ==
          IF k = 0 THEN [parts |-> parts, stop |-> FALSE]
          ELSE LET got == after[k - 1]
                   p == page[k]
                   piece == [id |-> p, text |-> text[p], whole |-> TRUE]
               IN IF got.stop THEN got
                  ELSE IF Fits(got.parts, piece)
                  THEN [got EXCEPT !.parts = Append(@, piece)]
                  ELSE [stop |-> TRUE, parts |-> Overflow(got.parts, p)]
    IN after[Len(page)]

ReadPage ==
    /\ reading
    /\ LET rest == NewestFirst(Behind)
           more == Len(rest) > PageSize
           page == IF more THEN SubSeq(rest, 1, PageSize) ELSE rest
           got == Gather(page)
       IN /\ parts' = got.parts
          /\ reading' = (more /\ ~got.stop)
          /\ cursor' = IF more THEN page[PageSize] ELSE cursor
    /\ UNCHANGED <<created, text, rows, limit, stable, edits>>

-----------------------------------------------------------------------------
(* Other requests between two pages.  The post of the cursor keeps its     *)
(* created_at in the token, so it may be deleted too.                      *)

Edit(p) ==
    /\ reading /\ cursor # 0 /\ edits > 0
    /\ edits' = edits - 1
    /\ stable' = stable \ {p}
    /\ UNCHANGED <<created, limit, cursor, parts, reading>>

Insert(p) == p \notin rows /\ Edit(p) /\ rows' = rows \cup {p} /\ text' = text

Delete(p) == p \in rows /\ Edit(p) /\ rows' = rows \ {p} /\ text' = text

Change(p, t) ==
    p \in rows /\ t # text[p] /\ Edit(p) /\ text' = [text EXCEPT ![p] = t] /\ rows' = rows

WInit ==
    /\ created \in [Posts -> Times] /\ text \in [Posts -> Texts]
    /\ rows \in SUBSET Posts /\ limit \in Limits
    /\ cursor = 0 /\ parts = <<>> /\ reading = TRUE
    /\ stable = rows /\ edits = MaxEdits

WNext ==
    \/ ReadPage
    \/ \E p \in Posts : Insert(p) \/ Delete(p) \/ \E t \in Texts : Change(p, t)

-----------------------------------------------------------------------------
(* Properties                                                              *)

Window(S) == {p \in S : From <= created[p] /\ created[p] < To}

(* The input never exceeds the limit, in bytes (spec of FT-005, 4; what    *)
(* collectWindowPosts is for: an input too long fails the digest).         *)
InputFits == Total(parts) <= limit

(* The input is the newest posts of the window: a post nobody changed is   *)
(* in it exactly once if it is newer than one that is, the posts stand in  *)
(* the order of the table, and it ends before the oldest only where the    *)
(* next post would not fit; this holds although posts come, change and go  *)
(* between two pages (collectWindowPosts, List).                           *)
InputIsNewest ==
    /\ \A j, k \in DOMAIN parts : j < k => Newer(parts[j].id, parts[k].id)
    /\ \A p \in Window(stable), k \in DOMAIN parts :
        Newer(p, parts[k].id) => \E j \in DOMAIN parts : parts[j].id = p
    /\ (/\ ~reading /\ edits = MaxEdits /\ Len(parts) < Cardinality(Window(rows))
        /\ \A k \in DOMAIN parts : parts[k].whole) =>
        LET next == NewestFirst(Window(rows))[Len(parts) + 1] IN
        Total(parts) + Bytes(text[next]) + Separator > limit

(* Only the newest post is ever cut, when it does not fit alone, and it    *)
(* keeps as many whole runes as fit (truncateUTF8).                        *)
OnlyNewestIsCut ==
    \A k \in DOMAIN parts : ~parts[k].whole =>
        /\ Len(parts) = 1
        /\ \A p \in Window(stable) : ~Newer(p, parts[k].id)
        /\ parts[k].id \in stable =>
            LET whole == text[parts[k].id] n == Len(parts[k].text) IN
            /\ parts[k].text = SubSeq(whole, 1, n)
            /\ n < Len(whole) => Bytes(SubSeq(whole, 1, n + 1)) > limit
=============================================================================
