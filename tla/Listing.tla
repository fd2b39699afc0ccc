------------------------------- MODULE Listing -------------------------------
(***************************************************************************)
(* The listing tools of an IDA instance (ida_mcp/api_core.py, api_modify.py*)
(* and utils.paginate): rows that are cached or collected anew for every   *)
(* call, and a client that reads them page after page while the database   *)
(* changes.                                                                *)
(*                                                                         *)
(* A row is known by its place in the listing: its address, and its name   *)
(* where rows are sorted by name or a filter looks at it.  A list of rows  *)
(* is the set of their places until a page is cut out of it, and a filter  *)
(* is a set of places.  The model follows the rows of one kind; the kinds  *)
(* have nothing to do with each other but that some tools drop two caches. *)
(* Tools run one at a time on the main thread (MainThread), so each is one *)
(* step, but its deadline may end it in the middle.                        *)
(***************************************************************************)
EXTENDS Naturals, Sequences, FiniteSets, SequencesExt

CONSTANTS
    Address,       \* the places of rows, in the order of the listing: 1..N
    Kinds,         \* kinds of rows, among AllKinds
    Tools,         \* the tools clients read them with, among AllTools
    Matches,       \* the sets of places that filters let through
    Counts,        \* rows that clients ask for; 0 is "all" to some tools
    PageSize,      \* page_size of decompile_to_file
    MaxLimit,      \* rows find_regex and search_text give at most, entity_query
                   \* by default
    Databases,     \* bound: what the database may hold at first
    MaxEdits,      \* bound: changes of the database
    None

AllKinds == {"functions", "globals", "strings"}
AllTools == {"list_funcs", "list_globals", "func_query", "entity_query", "find_regex",
             "search_text", "decompile_to_file"}

ASSUME ListingAssumption ==
    /\ Address \subseteq Nat \ {0}
    /\ Kinds \subseteq AllKinds /\ Tools \subseteq AllTools
    /\ Matches \cup Databases \subseteq SUBSET Address
    /\ \A rows \in Databases : IsFiniteSet(rows)
    /\ Counts \subseteq Nat /\ {PageSize, MaxLimit} \subseteq Nat \ {0}
    /\ None \notin AllTools \cup Nat

VARIABLES
    kind,          \* the kind of the rows; never changes
    db,            \* the places of the rows in the database
    cache,         \* _funcs_cache, _globals_cache or _strings_cache, None or rows
    edits,         \* changes of the database so far
    tool,          \* what the client reads with, None when it does not
    match,         \* the rows its filter lets through
    size,          \* the page size it asks for
    cursor,        \* next_offset or the cursor of its last page, None at the end
    got,           \* the rows it was given
    last,          \* history: the rows its last page was taken from
    owed           \* history: the rows of its first page's listing, unless a
                   \* later page came from a listing that lacked some

readVars == <<tool, match, size, cursor, got, last, owed>>
listVars == <<kind, db, cache, edits, readVars>>

\* The rows s in ascending order: the k-th is the one that k of them reach up to.
Rank(s, a) == Cardinality({b \in s : b <= a})
Ascending(s) == [k \in 1..Cardinality(s) |-> CHOOSE a \in s : Rank(s, a) = k]

Stops == Address \cup {a + 1 : a \in Address}
Within(s, from, to) == {a \in s : from <= a /\ a < to}
Slice(rows, offset, n) == SubSeq(rows, offset + 1, Min({offset + n, Len(rows)}))

ListInit ==
    /\ kind \in Kinds
    /\ db \in Databases
    /\ cache = None
    /\ edits = 0
    /\ tool = None /\ match = {} /\ size = 0
    /\ cursor = None
    /\ got = <<>> /\ last = {} /\ owed = {}
-----------------------------------------------------------------------------
\* The caches.

\* How a build that the deadline ends leaves the cache: the lists of functions
\* and strings are assigned when they are complete, the list of globals is
\* filled in place.
Unfinished ==
    IF kind = "globals" THEN {Within(db, 0, stop) : stop \in Stops} ELSE {None}

\* A tool that needs the rows finds or builds their cache.
Built == IF cache = None THEN db ELSE cache
Stopped == cache = None /\ cache' \in Unfinished

\* init_caches, when the server starts or server_warmup is called.
BuildCaches ==
    /\ cache' = Built
    /\ UNCHANGED <<kind, db, edits, readVars>>

\* refresh_caches, which the deadline may end before, in or after the build.
Refresh ==
    /\ cache' \in {db, None} \cup Unfinished
    /\ UNCHANGED <<kind, db, edits, readVars>>
-----------------------------------------------------------------------------
\* Changes of the database.

Change(s) ==
    /\ edits < MaxEdits /\ edits' = edits + 1
    /\ s # db /\ db' = s
    /\ UNCHANGED <<kind, readVars>>

\* The caches are dropped after the last item, so not when the deadline ends
\* the tool before.
Dropped == cache' = None \/ UNCHANGED cache

\* define_func: a new function, which is no longer a global name.
DefineFunc(a) ==
    /\ \/ kind = "functions" /\ Change(db \cup {a})
       \/ kind = "globals" /\ Change(db \ {a})
    /\ Dropped

\* make_data with a name.
MakeData(a) == kind = "globals" /\ Change(db \cup {a}) /\ Dropped

\* A row whose name changes has another place, as a row sorted by name, or as
\* one that a filter lets through or not.  It may so enter a listing, leave it
\* or move in it.
Moved(a, b) == a \in db /\ Change((db \ {a}) \cup {b})

\* rename.  The listing of decompile_to_file is in the order of addresses and has
\* no filter: there, as in any like it, the row stays where it is.
Rename ==
    /\ kind \in {"functions", "globals"}
    /\ \/ UNCHANGED <<kind, db, edits, readVars>>
       \/ tool # "decompile_to_file" /\ \E a, b \in Address : Moved(a, b)
    /\ Dropped

\* The user of IDA, its analysis, undefine and py_eval add, remove and rename
\* rows and drop no cache.
EditByHand(a) ==
    /\ \/ Change(db \cup {a}) \/ Change(db \ {a})
       \/ tool # "decompile_to_file" /\ \E b \in Address : Moved(a, b)
    /\ UNCHANGED cache
-----------------------------------------------------------------------------
\* One page.

\* Mutant: the row at the boundary of two pages belongs to neither.
PaginateGap(rows, offset, count) ==
    LET n == IF count = 0 THEN Len(rows) ELSE count
        next == offset + n + 1
    IN  [data |-> Slice(rows, offset, n),
         next |-> IF next >= Len(rows) THEN None ELSE next]

\* utils.paginate.
Paginate(rows, offset, count) ==
    LET n == IF count = 0 THEN Len(rows) ELSE count
        next == offset + n
    IN  [data |-> Slice(rows, offset, n),
         next |-> IF next >= Len(rows) THEN None ELSE next]

\* find_regex: skip offset matches, take limit, look for one more.
Limit(n) == IF n = 0 \/ n > MaxLimit THEN MaxLimit ELSE n

FindRegex(rows, offset, count) ==
    LET n == Limit(count)
    IN  [data |-> Slice(rows, offset, n),
         next |-> IF Len(rows) > offset + n THEN offset + n ELSE None]

\* Mutant: the chunk at which the deadline was noticed is left out.
SearchTextAhead(found, from, count, stop) ==
    LET hits == Ascending(Within(found, from, stop))
        n == Limit(count)
    IN  IF Len(hits) >= n
        THEN [data |-> SubSeq(hits, 1, n), next |-> hits[n] + 1]
        ELSE [data |-> hits, next |-> IF \E a \in Address : stop <= a THEN stop + 1 ELSE None]

\* search_text: addresses from the cursor on, up to limit hits.  The cursor is
\* the address after the last hit, or the chunk at which the deadline was
\* noticed.
SearchText(found, from, count, stop) ==
    LET hits == Ascending(Within(found, from, stop))
        n == Limit(count)
    IN  IF Len(hits) >= n
        THEN [data |-> SubSeq(hits, 1, n), next |-> hits[n] + 1]
        ELSE [data |-> hits, next |-> IF \E a \in Address : stop <= a THEN stop ELSE None]

\* The rows a tool reads, and whether it has them from a cache.
KindsOf(t) ==
    CASE t \in {"list_funcs", "func_query", "decompile_to_file"} -> {"functions"}
      [] t = "list_globals" -> {"globals"}
      [] t = "find_regex" -> {"strings"}
      [] OTHER -> AllKinds

UsesCache ==
    \/ tool \in {"list_funcs", "list_globals", "find_regex", "decompile_to_file"}
    \/ tool = "entity_query" /\ kind = "strings"

Rows == IF UsesCache THEN Built ELSE db

\* The pages the tool may answer with: search_text may stop at any chunk.
Page ==
    LET found == Rows \cap match
        rows  == Ascending(found)
    IN  CASE tool = "search_text" -> {SearchText(found, cursor, size, s) : s \in {a \in Stops : a >= cursor}}
          [] tool = "find_regex" -> {FindRegex(rows, cursor, size)}
          [] tool = "entity_query" -> {Paginate(rows, cursor, IF size = 0 THEN MaxLimit ELSE size)}
          [] OTHER -> {Paginate(rows, cursor, size)}
-----------------------------------------------------------------------------
\* The client.

First(t) == IF t = "search_text" THEN 1 ELSE 0

Start(t, m, n) ==
    /\ tool = None
    /\ kind \in KindsOf(t)
    /\ tool' = t /\ match' = m /\ size' = n
    /\ cursor' = First(t)
    /\ UNCHANGED <<kind, db, cache, edits, got, last, owed>>

\* decompile_to_file reads on while pages are full.
Fetch ==
    /\ tool # None /\ cursor # None
    /\ \E p \in Page :
          /\ got' = got \o p.data
          /\ cursor' = IF tool = "decompile_to_file" /\ Len(p.data) < size THEN None ELSE p.next
    /\ cache' = IF UsesCache THEN Built ELSE cache
    /\ last' = Rows
    /\ owed' = IF cursor = First(tool) THEN Rows
               ELSE IF last \subseteq Rows THEN owed ELSE {}
    /\ UNCHANGED <<kind, db, edits, tool, match, size>>

\* The deadline ends the tool while it builds the cache; the client may ask
\* again.
FetchTimesOut ==
    /\ tool # None /\ cursor # None
    /\ UsesCache /\ Stopped
    /\ UNCHANGED <<kind, db, edits, readVars>>

\* It has what it wants, all of it or not.
Forget ==
    /\ tool # None
    /\ tool' = None /\ match' = {} /\ size' = 0
    /\ cursor' = None /\ got' = <<>> /\ last' = {} /\ owed' = {}
    /\ UNCHANGED <<kind, db, cache, edits>>

Database ==
    \/ BuildCaches \/ Refresh \/ Rename
    \/ \E a \in Address : DefineFunc(a) \/ MakeData(a) \/ EditByHand(a)

Read ==
    \/ \E t \in Tools \ {"decompile_to_file"}, m \in Matches, n \in Counts : Start(t, m, n)
    \/ tool # "decompile_to_file" /\ (Fetch \/ FetchTimesOut \/ Forget)
-----------------------------------------------------------------------------
Finished == tool # None /\ cursor = None

\* "List globals", "List functions", "Search strings": a client that follows
\* the cursor to its end, while the database stays as it is, has every row that
\* its filter lets through once and in order.
ReadsComplete ==
    Finished /\ edits = 0 => got = Ascending(db \cap match)

\* While the database changes, rows may be given twice, but none is skipped
\* unless a row of an earlier page's listing went away, or moved because it was
\* renamed: then the rows behind it move up, past the offset of the next page.
NoneSkipped == Finished => owed \cap match \subseteq ToSet(got)
=============================================================================
