------------------------------ MODULE TxPages ------------------------------
(***************************************************************************)
(* The pages of transactions the API gives (TxService, TxCacheManager,     *)
(* TxRepository), walked by cursors while transactions are stored, and the *)
(* transactions of two types of which only some are stored in full.  The   *)
(* order is by height and time.  The time of a transaction is that of its  *)
(* processing, and processing it again moves it; one the API has asked for *)
(* has the time of its block, below any other.                             *)
(***************************************************************************)
EXTENDS Integers, Sequences, FiniteSets, FiniteSetsExt

CONSTANTS
    Txs, HeightOf,      \* transactions of the chain, and their heights
    LiteTxs,            \* of a type stored in lite mode
    Limit,              \* transactions on a page
    MaxFull,            \* maxStoredFullInstances
    HotTTL, WarmTTL, CountTTL,      \* ticks an entry of each cache lives
    DbLag,              \* ticks in which the database and the node answer
    Walkers,            \* clients that go from page to page
    PageScenes          \* what may happen: [by, walks, stored, jobs, upto, slips]

\* A cursor is a position, <<height, time>>.  Two requests come without one.
FirstPage == <<0, 0>>
SecondPage == <<0, 2>>

ASSUME PageAssumption ==
    /\ IsFiniteSet(Txs) /\ HeightOf \in [Txs -> Nat \ {0}] /\ LiteTxs \subseteq Txs
    /\ {Limit, MaxFull, HotTTL, WarmTTL, CountTTL, DbLag} \subseteq Nat \ {0}
    /\ \A s \in PageScenes :
          /\ s.walks \subseteq {FirstPage, SecondPage} /\ s.stored \subseteq Txs
          /\ \A j \in s.jobs : j.txs \in Seq(Txs)
          /\ s.upto \in Nat /\ s.slips \in Nat

VARIABLES
    pageScene, slips,
    clock, stamp,       \* ticks; the greatest time of a transaction so far
    copies,             \* BlockchainTransaction
    pages,              \* hotCache, of the first page, and warmCache, of the others
    history,            \* cursorHistoryCache: the cursor of the page before a cursor
    refresher,          \* refreshFirstPageCache; not idle: in refreshInProgress
    counted,            \* recentFullTxsCache
    walk,               \* walk[w]: a client, its request and what it was given
    jobs                \* jobs[j]: a call that stores transactions

pageBounds == <<pageScene, slips>>
pageVars == <<pageBounds, clock, stamp, copies, pages, history, refresher, counted, walk, jobs>>

End == <<0, 1>>         \* null
NotStored == <<0, 0>>
Above == <<Max({0} \cup {HeightOf[t] : t \in Txs}) + 1, 0>>

NoCopy == [time |-> -1, content |-> FALSE, lite |-> FALSE, at |-> 0, guess |-> FALSE]
StoredTxs == {t \in Txs : copies[t].time >= 0}
Position(t) == IF t \in StoredTxs THEN <<HeightOf[t], copies[t].time>> ELSE NotStored
IsFull(t) == t \in StoredTxs /\ copies[t].content /\ ~copies[t].lite

NoPage == [txs |-> {}, next |-> End, places |-> [t \in Txs |-> NotStored]]
NoWalk == [pc |-> "idle", key |-> FirstPage, page |-> NoPage, since |-> 0,
           given |-> {}, twice |-> {}, ends |-> {}, top |-> Above, places |-> [t \in Txs |-> {}]]
NoJob == [pc |-> "off", todo |-> <<>>, full |-> FALSE, guess |-> FALSE, time |-> 0,
          again |-> FALSE, since |-> 0]
NotRefreshing == [pc |-> "idle", page |-> NoPage, since |-> 0]

PageInit ==
    /\ pageScene \in PageScenes /\ slips = pageScene.slips
    /\ clock = 1 /\ stamp = 1
    /\ copies = [t \in Txs |-> IF t \in pageScene.stored
                               THEN [NoCopy EXCEPT !.time = 1, !.content = TRUE] ELSE NoCopy]
    /\ pages = {} /\ history = {} /\ refresher = NotRefreshing /\ counted = [n |-> 0, until |-> 0]
    /\ walk = [w \in Walkers |-> NoWalk]
    /\ jobs = [j \in pageScene.jobs |-> NoJob]

Slip == slips > 0 /\ slips' = slips - 1 /\ UNCHANGED pageScene

-----------------------------------------------------------------------------
Before(p, q) == p[1] < q[1] \/ (p[1] = q[1] /\ p[2] < q[2])
Lowest(ps) == CHOOSE p \in ps : \A q \in ps : ~Before(q, p)
Highest(ps) == CHOOSE p \in ps : \A q \in ps : ~Before(p, q)
Positions(ts) == {Position(t) : t \in ts}

\* The first n of some transactions: equal ones come in any order.
FirstOf(ts, n) ==
    {P \in SUBSET ts :
        /\ Cardinality(P) = Min({Cardinality(ts), n})
        /\ \A t \in P, u \in ts \ P : ~Before(Position(t), Position(u))}

\* A page, with the cursor of its last transaction
PageWith(ts, more) ==
    [txs |-> ts, next |-> IF more /\ ts # {} THEN Lowest(Positions(ts)) ELSE End,
     places |-> [t \in Txs |-> Position(t)]]

\* getLatestTransactions of the repository: a cursor whatever follows
LatestPages == {PageWith(P, TRUE) : P \in FirstOf(StoredTxs, Limit)}

\* Mutant: below the height of the cursor only
PagesBelow(key) ==
    LET found == {t \in StoredTxs : HeightOf[t] < key[1]} IN
    {PageWith(P, Cardinality(found) > Limit) : P \in FirstOf(found, Limit)}

\* getPaginatedTransactions: below the cursor, or skipping a page
PagesAfter(key) ==
    IF key = SecondPage
    THEN UNION {{PageWith(P, Cardinality(StoredTxs) > 2 * Limit) : P \in FirstOf(StoredTxs \ Q, Limit)}
                   : Q \in FirstOf(StoredTxs, Limit)}
    ELSE LET found == {t \in StoredTxs : Before(Position(t), key)} IN
         {PageWith(P, Cardinality(found) > Limit) : P \in FirstOf(found, Limit)}

IsCursor(key) == key \notin {FirstPage, SecondPage}

-----------------------------------------------------------------------------
Walk(w, r) == walk' = [walk EXCEPT ![w] = r]

\* What a client has after one page more
Given(r, page) ==
    [r EXCEPT !.pc = IF page.next = End THEN "end" ELSE "more", !.key = page.next,
              !.page = NoPage, !.since = 0,
              !.twice = @ \cup (r.given \cap page.txs), !.given = @ \cup page.txs,
              !.ends = @ \cup {page.next},
              !.top = IF r.key # SecondPage THEN @ ELSE Highest({NotStored} \cup {page.places[t] : t \in page.txs}),
              !.places = [t \in Txs |-> @[t] \cup {page.places[t]}]]

Put(key, page) ==
    pages' = {e \in pages : e.key # key}
               \cup {[key |-> key, page |-> page, until |-> clock + (IF key = FirstPage THEN HotTTL ELSE WarmTTL)]}

\* storeCursorHistory
Recall(old, cursor, prev) ==
    IF IsCursor(cursor) /\ cursor # End
    THEN {h \in old : h.cursor # cursor} \cup {[cursor |-> cursor, prev |-> prev]} ELSE old

\* getLatestTransactions: a cached page, and for the first one a refresh
PageHit(w, key) ==
    \E e \in pages :
        /\ e.key = key /\ Walk(w, Given([walk[w] EXCEPT !.key = key], e.page))
        /\ refresher' = IF key = FirstPage /\ refresher.pc = "idle"
                        THEN [NotRefreshing EXCEPT !.pc = "find", !.since = clock] ELSE refresher

PageMiss(w, key) ==
    /\ \A e \in pages : e.key # key
    /\ Walk(w, [walk[w] EXCEPT !.pc = "find", !.key = key, !.since = clock])
    /\ UNCHANGED refresher

AskPage(w) ==
    /\ w \in pageScene.by
    /\ \E key \in IF walk[w].pc = "idle" THEN pageScene.walks ELSE {walk[w].key} :
          /\ walk[w].pc \in {"idle", "more"} /\ (PageHit(w, key) \/ PageMiss(w, key))
    /\ UNCHANGED <<pageBounds, clock, stamp, copies, pages, history, counted, jobs>>

FindPage(w) ==
    /\ walk[w].pc = "find"
    /\ \E page \in IF walk[w].key = FirstPage THEN LatestPages ELSE PagesAfter(walk[w].key) :
          Walk(w, [walk[w] EXCEPT !.pc = "found", !.page = page])
    /\ UNCHANGED <<pageBounds, clock, stamp, copies, pages, history, refresher, counted, jobs>>

\* The answer, with the cursors it leaves for later
Finish(w, prev) ==
    LET r == walk[w] IN
    /\ Walk(w, Given(r, r.page)) /\ Put(r.key, r.page)
    /\ history' = Recall(Recall(history, r.page.next, IF IsCursor(r.key) THEN r.key ELSE End), r.key, prev)

Remembered(cursor) == {h.prev : h \in {h \in history : h.cursor = cursor}}

AnswerPage(w) ==
    /\ walk[w].pc = "found"
    /\ LET r == walk[w]
           asks == IsCursor(r.key) /\ Remembered(r.key) = {} /\ r.page.txs # {}
       IN \/ /\ asks /\ Walk(w, [r EXCEPT !.pc = "prev", !.since = clock]) /\ UNCHANGED <<pages, history>>
          \/ ~asks /\ Finish(w, IF Remembered(r.key) = {} THEN End ELSE CHOOSE p \in Remembered(r.key) : TRUE)
    /\ UNCHANGED <<pageBounds, clock, stamp, copies, refresher, counted, jobs>>

\* findTransactionsWithQuery: of all above the page it gives the newest.
FindPrev(w) ==
    /\ walk[w].pc = "prev"
    /\ LET r == walk[w]
           newer == {t \in StoredTxs : Before(Highest({r.page.places[u] : u \in r.page.txs}), Position(t))}
       IN \/ Finish(w, IF newer = {} THEN End ELSE Highest(Positions(newer))) /\ UNCHANGED pageBounds
          \/ Slip /\ Finish(w, End)
    /\ UNCHANGED <<clock, stamp, copies, refresher, counted, jobs>>

PageFails(w) ==
    /\ walk[w].pc = "find" /\ Slip /\ Walk(w, [NoWalk EXCEPT !.pc = "failed"])
    /\ UNCHANGED <<clock, stamp, copies, pages, history, refresher, counted, jobs>>

\* refreshFirstPageCache; it leaves no history of the cursor it makes.
RefreshPage ==
    /\ \/ /\ refresher.pc = "find" /\ UNCHANGED <<pages, pageBounds>>
          /\ \E page \in LatestPages : refresher' = [refresher EXCEPT !.pc = "found", !.page = page]
       \/ /\ refresher.pc = "found" /\ refresher' = NotRefreshing
          /\ Put(FirstPage, refresher.page) /\ UNCHANGED pageBounds
       \/ /\ refresher.pc = "find" /\ Slip /\ refresher' = NotRefreshing /\ UNCHANGED pages
    /\ UNCHANGED <<clock, stamp, copies, history, counted, walk, jobs>>

-----------------------------------------------------------------------------
Job(j, r) == jobs' = [jobs EXCEPT ![j] = r]

\* saveTx: whether the copy is to be full may take a count.
Decided(r) ==
    CASE Head(r.todo) \notin LiteTxs -> [r EXCEPT !.pc = "write", !.full = TRUE, !.guess = FALSE, !.since = clock]
      [] Head(r.todo) \in LiteTxs /\ counted.until > clock ->
            [r EXCEPT !.pc = "write", !.full = counted.n < MaxFull, !.guess = FALSE, !.since = clock]
      [] OTHER -> [r EXCEPT !.pc = "count", !.since = clock]

\* On to the first of todo: createBaseTx takes the time, the API that of the block.
Takes(j, todo) ==
    \/ todo = <<>> /\ Job(j, [NoJob EXCEPT !.pc = "done"]) /\ UNCHANGED stamp
    \/ /\ todo # <<>>
       /\ \E time \in IF j.kind = "ask" THEN {0} ELSE {stamp, stamp + 1} :
             /\ Job(j, Decided([NoJob EXCEPT !.todo = todo, !.time = time]))
             /\ stamp' = Max({stamp, time})

\* A message or a sync brings transactions; a request looks for its own first.
JobBegins(j) ==
    /\ jobs[j].pc = "off"
    /\ \/ j.kind # "ask" /\ Takes(j, j.txs)
       \/ j.kind = "ask" /\ Job(j, [NoJob EXCEPT !.pc = "look", !.since = clock]) /\ UNCHANGED stamp
    /\ UNCHANGED <<pageBounds, clock, copies, pages, history, refresher, counted, walk>>

\* getTxByHash, getTxsByHeight: what is stored is the answer, else the node's.
LookUp(j) ==
    /\ jobs[j].pc = "look"
    /\ Job(j, [jobs[j] EXCEPT !.pc = IF \E i \in DOMAIN j.txs : j.txs[i] \in StoredTxs
                                     THEN "done" ELSE "fetch", !.since = clock])
    /\ UNCHANGED <<pageBounds, clock, stamp, copies, pages, history, refresher, counted, walk>>

FetchTxs(j) ==
    /\ jobs[j].pc = "fetch"
    /\ \/ Takes(j, j.txs) /\ UNCHANGED pageBounds
       \/ Slip /\ Takes(j, <<>>)
    /\ UNCHANGED <<clock, copies, pages, history, refresher, counted, walk>>

\* countRecentFullTxsByType: an error counts none.
CountFull(j) ==
    /\ jobs[j].pc = "count"
    /\ LET n == Cardinality({t \in LiteTxs : IsFull(t)}) IN
       \/ /\ counted' = [n |-> n, until |-> clock + CountTTL] /\ UNCHANGED pageBounds
          /\ Job(j, [jobs[j] EXCEPT !.pc = "write", !.full = n < MaxFull, !.guess = FALSE, !.since = clock])
       \/ /\ Slip /\ UNCHANGED counted
          /\ Job(j, [jobs[j] EXCEPT !.pc = "write", !.full = TRUE, !.guess = TRUE, !.since = clock])
    /\ UNCHANGED <<clock, stamp, copies, pages, history, refresher, walk>>

\* The upsert of a lite copy leaves the content that is there.
Saved(t, r) ==
    LET full == r.full /\ ~(copies[t].content /\ ~copies[t].lite) IN
    [time |-> r.time, content |-> copies[t].content \/ r.full, lite |-> ~r.full,
     at |-> IF full THEN clock ELSE copies[t].at, guess |-> IF full THEN r.guess ELSE copies[t].guess]

\* handleNewTransaction saves again what processTx has saved.
WriteTx(j) ==
    /\ jobs[j].pc = "write"
    /\ LET r == jobs[j]
           t == Head(r.todo)
       IN \/ /\ copies' = [copies EXCEPT ![t] = Saved(t, r)] /\ UNCHANGED pageBounds
             /\ \/ /\ j.kind = "message" /\ ~r.again
                   /\ Job(j, Decided([r EXCEPT !.again = TRUE])) /\ UNCHANGED stamp
                \/ (j.kind # "message" \/ r.again) /\ Takes(j, Tail(r.todo))
          \/ Slip /\ Takes(j, Tail(r.todo)) /\ UNCHANGED copies
    /\ UNCHANGED <<clock, pages, history, refresher, counted, walk>>

-----------------------------------------------------------------------------
Due(since) == clock - since < DbLag

PageTick ==
    /\ clock < pageScene.upto /\ clock' = clock + 1
    /\ \A w \in Walkers : walk[w].pc \in {"find", "found", "prev"} => Due(walk[w].since)
    /\ \A j \in DOMAIN jobs : jobs[j].pc \notin {"off", "done"} => Due(jobs[j].since)
    /\ refresher.pc # "idle" => Due(refresher.since)
    /\ pages' = {e \in pages : e.until > clock + 1}
    /\ UNCHANGED <<pageBounds, stamp, copies, history, refresher, counted, walk, jobs>>

\* What a restart leaves: the copies, and the cursors clients have
PageForgets ==
    /\ pages' = {} /\ history' = {} /\ refresher' = NotRefreshing /\ counted' = [n |-> 0, until |-> 0]
    /\ walk' = [w \in Walkers |-> IF walk[w].pc \in {"find", "found", "prev"}
                                  THEN [NoWalk EXCEPT !.pc = "failed"] ELSE walk[w]]
    /\ jobs' = [j \in DOMAIN jobs |-> IF jobs[j].pc = "off" THEN NoJob ELSE [NoJob EXCEPT !.pc = "done"]]
    /\ UNCHANGED <<pageBounds, clock, stamp, copies>>

PageNext ==
    \/ \E w \in Walkers : AskPage(w) \/ FindPage(w) \/ AnswerPage(w) \/ FindPrev(w) \/ PageFails(w)
    \/ RefreshPage
    \/ \E j \in DOMAIN jobs : JobBegins(j) \/ LookUp(j) \/ FetchTxs(j) \/ CountFull(j) \/ WriteTx(j)
    \/ PageTick

-----------------------------------------------------------------------------
\* Types; a key and a cursor have one entry, and nothing is kept too long.
PageTypeOK ==
    /\ pageScene \in PageScenes /\ slips \in 0..pageScene.slips
    /\ stamp \in Nat /\ \A t \in Txs : copies[t].time \in -1..stamp /\ copies[t].at \in 0..clock
    /\ \A e \in pages :
          /\ Cardinality(e.page.txs) <= Limit
          /\ e.until - clock \in 1..(IF e.key = FirstPage THEN HotTTL ELSE WarmTTL)
          /\ \A d \in pages : d.key = e.key => d = e
    /\ \A h, g \in history : h.cursor = g.cursor => h = g
    /\ \A w \in Walkers : walk[w].pc \in {"idle", "find", "found", "prev", "more", "end", "failed"}
    /\ \A j \in DOMAIN jobs :
          /\ jobs[j].pc \in {"off", "look", "fetch", "count", "write", "done"}
          /\ jobs[j].pc \in {"count", "write"} => jobs[j].todo # <<>>
    /\ refresher.pc \in {"idle", "find", "found"}

\* What was stored, in one place, at every page of a walk that has come to its
\* end was given, but for what shares its place with the last of a page: only
\* where a page ended within a height may one be passed over, and one is given
\* twice only if it was moved (TxRepository.ts:214).
WalksComplete ==
    \A w \in Walkers :
        LET r == walk[w]
            heights == {e[1] : e \in r.ends}
        IN  /\ r.pc = "end" => \A t \in Txs \ r.given :
                  \/ NotStored \in r.places[t]
                  \/ \E p \in r.places[t] : ~Before(p, r.top)
                  \/ HeightOf[t] \in heights /\ (Cardinality(r.places[t]) > 1 \/ r.places[t] \subseteq r.ends)
            /\ \A t \in r.twice : Cardinality(r.places[t]) > 1

\* Going back never leads to a lower height than where one is, whatever was
\* stored or moved meanwhile (TxService.ts:209).
BacksUp == \A h \in history : h.prev = End \/ h.prev[1] >= h.cursor[1]

\* But for counts that failed, a copy is stored in full only while, half a
\* minute earlier, fewer than the most were (TxRepository.ts:478).
FullBounded ==
    \A t \in LiteTxs : IsFull(t) /\ copies[t].at > 0 /\ ~copies[t].guess =>
        Cardinality({u \in LiteTxs \ {t} : IsFull(u) /\ copies[u].at <= copies[t].at - CountTTL - DbLag}) < MaxFull

TxPagesHold == PageTypeOK /\ WalksComplete /\ BacksUp /\ FullBounded
=============================================================================
