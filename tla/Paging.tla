------------------------------- MODULE Paging -------------------------------
(***************************************************************************)
(* The paginated lists of the backend that come through its cache: the     *)
(* rounds of an arena and the eliminations of a pool. A cursor is an       *)
(* offset, each page is a query of its own, and rows are inserted between  *)
(* the pages. Eliminations are ordered by their time alone, and those of   *)
(* one insert have the same: their order is the database's, at each query. *)
(***************************************************************************)
EXTENDS Integers, Sequences, SequencesExt

CONSTANTS
    PageLimits,     \* values of limit a client may ask for
    MaxRows         \* bound of the model: rows of a list

\* limit: z.coerce.number().int().min(1)
ASSUME PagingConstants == PageLimits \subseteq Nat \ {0} /\ MaxRows \in Nat

\* The two orders: round numbers ascending, eliminations newest first.
Lists == {"rounds", "eliminations"}

VARIABLES
    list,           \* which list the client reads
    inserts,        \* its rows, oldest first: the number of the insert each came with
    page            \* the client: [limit, cursor, seen, original, last, older, cut], cursor
                    \* = -1 at the end, original the number of rows of the oldest page it
                    \* may be given, last that of the last page, older whether one was of
                    \* fewer rows than the page before it, cut the inserts whose rows a
                    \* page's end parted

pagingVars == <<list, inserts, page>>

\* The numbers of rows there have been: rows of one insert appear together.
Sizes == {n \in 0..Len(inserts) : n = 0 \/ n = Len(inserts) \/ inserts[n] # inserts[n + 1]}

PagingInit ==
    /\ list \in Lists
    /\ inserts \in {s \in UNION {[1..n -> 1..n] : n \in 0..MaxRows} :
           \A i, j \in DOMAIN s : i < j => s[i] < s[j] \/ (list = "eliminations" /\ s[i] = s[j])}
    /\ page \in [limit : PageLimits, cursor : {0}, seen : {<<>>}, last : {0}, older : {FALSE},
                 original : Sizes, cut : {{}}]

\* A round, or the eliminations of a resolution, by one createMany.
AddRows ==
    /\ page.cursor # -1
    /\ \E k \in 1..(MaxRows - Len(inserts)) :
           /\ list = "rounds" => k = 1
           /\ inserts' = inserts \o
                  [i \in 1..k |-> IF inserts = <<>> THEN 1 ELSE inserts[Len(inserts)] + 1]
    /\ UNCHANGED <<list, page>>

\* What a query may have answered when the list had n rows: all of them, and where the
\* order leaves it open, in any order.
RowsThen(n) ==
    {found \in [1..n -> 1..n] :
        /\ \A v \in 1..n : \E i \in 1..n : found[i] = v
        /\ \A i \in 1..n : IF list = "rounds" THEN found[i] = i
                           ELSE inserts[found[i]] = inserts[n + 1 - i]}

\* Both lists come through cacheMiddleware, each page under a key of its own: a page is
\* of the rows there are, or of those there were when it was stored, not before the
\* oldest page that was stored when the client began.
cacheMiddleware == {n \in Sizes : n >= page.original}

Slice(found, offset, n) ==
    SubSeq(found, offset + 1, IF offset + n < Len(found) THEN offset + n ELSE Len(found))

\* Mutant of hasMore: one row is taken for the last page.
hasMoreEarly(found, offset, limit) == Len(Slice(found, offset, limit + 1)) > limit + 1

\* take: limit + 1
hasMore(found, offset, limit) == Len(Slice(found, offset, limit + 1)) > limit

\* decodeCursor undoes encodeCursor; no cursor and a cursor that cannot be read are
\* the first page.
decodeCursor(c, limit) == IF c < 0 THEN 0 ELSE c

\* The insert of eliminations, if there is one, with rows on both sides of place c.
Parted(n, c) ==
    IF c \in 1..(n - 1) /\ inserts[n - c] = inserts[n - c + 1] THEN {inserts[n - c]} ELSE {}

PageOf(found, offset) ==
    [page EXCEPT !.seen = @ \o Slice(found, offset, page.limit),
                 !.cursor = IF hasMore(found, offset, page.limit) THEN offset + page.limit ELSE -1,
                 !.last = Len(found), !.older = @ \/ Len(found) < page.last,
                 !.cut = @ \cup Parted(Len(found), offset)
                           \cup Parted(Len(found), offset + page.limit)]

NextPage ==
    /\ page.cursor # -1
    /\ \E n \in cacheMiddleware : \E found \in RowsThen(n) :
           page' = PageOf(found, decodeCursor(page.cursor, page.limit))
    /\ UNCHANGED <<list, inserts>>

PagingNext == AddRows \/ NextPage

PagingSpec == PagingInit /\ [][PagingNext]_pagingVars

-----------------------------------------------------------------------------
\* Who pages through to the end of the rounds or the eliminations has seen every row
\* there was when the oldest cached page was stored: new rounds come after what was
\* read, new eliminations push rows to later pages, and rounds of several ages leave no
\* gap. Eliminations do when a page is older than the one before it, and those of one
\* insert when a page ends among them.
NothingSkipped ==
    page.cursor = -1 /\ (list = "eliminations" => ~page.older) =>
        \A v \in 1..page.original :
            \/ v \in ToSet(page.seen)
            \/ list = "eliminations" /\ inserts[v] \in page.cut
=============================================================================
