---------------------------- MODULE BlockPages ----------------------------
(***************************************************************************)
(* The blocks the API gives (BlockService, BlockCacheManager,              *)
(* BlockRepository): the latest one, one by its height, fetched and saved  *)
(* if it is not stored, and pages of them by number.  All are cached for   *)
(* ten seconds.  A save clears what the cache has of its block and the     *)
(* latest one, but no page, and only once the database has answered.       *)
(***************************************************************************)
EXTENDS Integers, FiniteSets, FiniteSetsExt

CONSTANTS
    Top,            \* bound: heights of the chain
    BlocksPerPage,
    BlockTTL,       \* CACHE_TTL: ticks an entry lives
    BlockLag,       \* ticks in which the database and the node answer
    Getters,        \* requests for a block
    Listers,        \* clients that go from page to page
    BlockScenes     \* what may happen: [by, asks, lists, stored, saves, head, top, upto, lapses]

ASSUME BlockAssumption ==
    /\ Top \in Nat /\ {BlocksPerPage, BlockTTL, BlockLag} \subseteq Nat \ {0}
    /\ \A s \in BlockScenes :
          /\ s.asks \subseteq 0..Top + 1 /\ s.stored \cup s.saves \subseteq 1..s.head
          /\ s.top \in 0..Top /\ s.head \in 0..s.top /\ s.upto \in Nat /\ s.lapses \in Nat

VARIABLES
    blockScene, lapses,
    date,           \* ticks
    head,           \* height of the chain
    storedAt,       \* Block: when each height was stored, -1 for never
    saver,          \* saver[h]: the call of saveBlock for h by a sync or a live block
    cleared,        \* history: heights whose save has cleared the cache
    blockCache,     \* entries of blockCache; the key is a height, 0 for the latest
    listCache,      \* entries of paginatedBlocksCache; the key is a page
    getter, lister  \* what each client asks for and was given

blockBounds == <<blockScene, lapses>>
blockVars == <<blockBounds, date, head, storedAt, saver, cleared, blockCache, listCache, getter, lister>>

BlockHeights == 1..Top
Held == {h \in BlockHeights : storedAt[h] >= 0}
LatestKey == 0

NoGet == [pc |-> "idle", key |-> LatestKey, block |-> 0, since |-> 0,
          passed |-> {}, due |-> FALSE, erred |-> FALSE]
NoList == [pc |-> "idle", key |-> 1, total |-> {}, seen |-> {}, blocks |-> {}, since |-> 0,
           given |-> {}, twice |-> {}, all |-> BlockHeights, last |-> {},
           same |-> TRUE, rising |-> TRUE, settled |-> FALSE]

BlockInit ==
    /\ blockScene \in BlockScenes /\ lapses = blockScene.lapses
    /\ date = 0 /\ head = blockScene.head
    /\ storedAt = [h \in BlockHeights |-> IF h \in blockScene.stored THEN 0 ELSE -1]
    /\ saver = [h \in BlockHeights |-> IF h \in blockScene.saves THEN "write" ELSE "none"]
    /\ cleared = {} /\ blockCache = {} /\ listCache = {}
    /\ getter = [q \in Getters |-> NoGet] /\ lister = [l \in Listers |-> NoList]

Lapse == lapses > 0 /\ lapses' = lapses - 1 /\ UNCHANGED blockScene

-----------------------------------------------------------------------------
\* The chain, and who else saves its blocks

\* A live block is saved; of others a sync saves some.
BlockComes ==
    /\ head < blockScene.top /\ head' = head + 1
    /\ saver' = [saver EXCEPT ![head'] = "write"]
    /\ UNCHANGED <<blockBounds, date, storedAt, cleared, blockCache, listCache, getter, lister>>

StoresBlock(h) == storedAt' = [storedAt EXCEPT ![h] = IF @ >= 0 THEN @ ELSE date]

\* Once the save of h is done, the block and the latest one are not cached
\* any more; what was read before is cached after all.
ClearedOf(h) == {e \in blockCache : e.key \notin {LatestKey, h}}
Passes(h) ==
    [q \in Getters |-> IF getter[q].pc \in {"find", "found"}
                       THEN [getter[q] EXCEPT !.passed = @ \cup {h}] ELSE getter[q]]

\* saveBlock; an error clears nothing.
SaveBlock(h) ==
    /\ \/ /\ saver[h] = "write" /\ StoresBlock(h) /\ saver' = [saver EXCEPT ![h] = "clear"]
          /\ UNCHANGED <<blockBounds, cleared, blockCache, getter>>
       \/ /\ saver[h] = "write" /\ Lapse /\ saver' = [saver EXCEPT ![h] = "none"]
          /\ UNCHANGED <<storedAt, cleared, blockCache, getter>>
       \/ /\ saver[h] = "clear" /\ saver' = [saver EXCEPT ![h] = "none"]
          /\ blockCache' = ClearedOf(h) /\ getter' = Passes(h) /\ cleared' = cleared \cup {h}
          /\ UNCHANGED <<blockBounds, storedAt>>
    /\ UNCHANGED <<date, head, listCache, lister>>

-----------------------------------------------------------------------------
\* getLatestBlock and getBlockByHeight

Get(q, r) == getter' = [getter EXCEPT ![q] = r]
Keep(cache, r) ==
    {e \in cache : e.key # r.key}
      \cup {[key |-> r.key, block |-> r.block, passed |-> r.passed, until |-> date + BlockTTL]}

\* A request that meets no error ought to find what is on the chain.
AskBlock(q, key) ==
    /\ q \in blockScene.by /\ key \in blockScene.asks /\ getter[q].pc = "idle"
    /\ LET r == [NoGet EXCEPT !.pc = "find", !.key = key, !.since = date,
                              !.due = IF key = LatestKey THEN Held # {} ELSE key <= head]
       IN \/ \E e \in blockCache : e.key = key /\ Get(q, [r EXCEPT !.pc = "block", !.block = e.block])
          \/ (\A e \in blockCache : e.key # key) /\ Get(q, r)
    /\ UNCHANGED <<blockBounds, date, head, storedAt, saver, cleared, blockCache, listCache, lister>>

\* The database answers; the node's latest block cannot be converted.
FindBlock(q) ==
    /\ getter[q].pc = "find"
    /\ LET r == getter[q] IN
       CASE r.key = LatestKey -> Get(q, IF Held = {} THEN [r EXCEPT !.pc = "none"]
                                        ELSE [r EXCEPT !.pc = "found", !.block = Max(Held)])
         [] r.key \in Held -> Get(q, [r EXCEPT !.pc = "found", !.block = r.key])
         [] OTHER -> Get(q, [r EXCEPT !.pc = "fetch"])
    /\ UNCHANGED <<blockBounds, date, head, storedAt, saver, cleared, blockCache, listCache, lister>>

CacheFound(q) ==
    /\ getter[q].pc = "found"
    /\ blockCache' = Keep(blockCache, getter[q]) /\ Get(q, [getter[q] EXCEPT !.pc = "block"])
    /\ UNCHANGED <<blockBounds, date, head, storedAt, saver, cleared, listCache, lister>>

\* fetchAndSaveBlockByHeight
FetchBlock(q) ==
    /\ \/ /\ getter[q].pc = "fetch" /\ UNCHANGED storedAt
          /\ Get(q, [getter[q] EXCEPT !.pc = IF getter[q].key <= head THEN "save" ELSE "tip"])
       \/ /\ getter[q].pc = "save" /\ StoresBlock(getter[q].key)
          /\ Get(q, [getter[q] EXCEPT !.pc = "saved", !.block = getter[q].key])
    /\ UNCHANGED <<blockBounds, date, head, saver, cleared, blockCache, listCache, lister>>

AnswerFetched(q) ==
    /\ getter[q].pc = "saved"
    /\ LET r == getter[q] IN
       /\ blockCache' = Keep(ClearedOf(r.key), r) /\ cleared' = cleared \cup {r.key}
       /\ getter' = [Passes(r.key) EXCEPT ![q] = [r EXCEPT !.pc = "block"]]
    /\ UNCHANGED <<blockBounds, date, head, storedAt, saver, listCache, lister>>

\* The controller asks for the height of the chain.
AskTip(q) ==
    /\ getter[q].pc = "tip"
    /\ Get(q, [getter[q] EXCEPT !.pc = IF getter[q].key > head THEN "future" ELSE "none"])
    /\ UNCHANGED <<blockBounds, date, head, storedAt, saver, cleared, blockCache, listCache, lister>>

\* An error anywhere is answered like a block that is not there.
GetFails(q) ==
    /\ getter[q].pc \in {"find", "fetch", "save", "tip"} /\ Lapse
    /\ Get(q, [getter[q] EXCEPT !.erred = TRUE,
                 !.pc = IF getter[q].pc = "tip" \/ getter[q].key = LatestKey THEN "none" ELSE "tip"])
    /\ UNCHANGED <<date, head, storedAt, saver, cleared, blockCache, listCache, lister>>

-----------------------------------------------------------------------------
\* getLatestBlocks: a client that goes on to the last page

List(l, r) == lister' = [lister EXCEPT ![l] = r]

Slice(n) ==
    {h \in Held : LET above == Cardinality({g \in Held : g > h}) IN
                  (n - 1) * BlocksPerPage <= above /\ above < n * BlocksPerPage}

\* Pages are counted from a total read before the blocks.  Of what each page
\* saw in the database, it is noted whether it only grew from page to page.
Handed(r, e) ==
    [r EXCEPT !.pc = IF e.key * BlocksPerPage >= Cardinality(e.total) THEN "end" ELSE "more",
              !.key = e.key + 1, !.total = {}, !.seen = {}, !.blocks = {}, !.since = 0,
              !.given = @ \cup e.blocks, !.twice = @ \cup (r.given \cap e.blocks),
              !.all = @ \cap e.seen, !.last = e.seen,
              !.same = @ /\ (e.key > 1 => r.last = e.seen),
              !.rising = @ /\ r.last \subseteq e.seen, !.settled = e.total = e.seen]

AskList(l) ==
    /\ l \in blockScene.lists /\ lister[l].pc \in {"idle", "more"}
    /\ LET r == lister[l] IN
       \/ \E e \in listCache : e.key = r.key /\ List(l, Handed(r, e))
       \/ (\A e \in listCache : e.key # r.key) /\ List(l, [r EXCEPT !.pc = "count", !.since = date])
    /\ UNCHANGED <<blockBounds, date, head, storedAt, saver, cleared, blockCache, listCache, getter>>

\* getPaginatedBlocks
FindList(l) ==
    /\ LET r == lister[l] IN
       \/ /\ r.pc = "count" /\ List(l, [r EXCEPT !.pc = "list", !.total = Held])
          /\ UNCHANGED blockBounds
       \/ /\ r.pc = "list" /\ List(l, [r EXCEPT !.pc = "listed", !.seen = Held, !.blocks = Slice(r.key)])
          /\ UNCHANGED blockBounds
       \/ r.pc \in {"count", "list"} /\ Lapse /\ List(l, [NoList EXCEPT !.pc = "failed"])
    /\ UNCHANGED <<date, head, storedAt, saver, cleared, blockCache, listCache, getter>>

AnswerList(l) ==
    /\ lister[l].pc = "listed"
    /\ LET r == lister[l]
           e == [key |-> r.key, total |-> r.total, seen |-> r.seen, blocks |-> r.blocks,
                 until |-> date + BlockTTL]
       IN List(l, Handed(r, e)) /\ listCache' = {d \in listCache : d.key # e.key} \cup {e}
    /\ UNCHANGED <<blockBounds, date, head, storedAt, saver, cleared, blockCache, getter>>

-----------------------------------------------------------------------------
InTime(since) == date - since < BlockLag

BlockTick ==
    /\ date < blockScene.upto /\ date' = date + 1
    /\ \A q \in Getters : getter[q].pc \in {"find", "found"} => InTime(getter[q].since)
    /\ \A l \in Listers : lister[l].pc \in {"count", "list", "listed"} => InTime(lister[l].since)
    /\ blockCache' = {e \in blockCache : e.until > date'}
    /\ listCache' = {e \in listCache : e.until > date'}
    /\ UNCHANGED <<blockBounds, head, storedAt, saver, cleared, getter, lister>>

\* What a restart leaves: the blocks, and the pages clients have
BlockForgets ==
    /\ blockCache' = {} /\ listCache' = {} /\ saver' = [h \in BlockHeights |-> "none"]
    /\ getter' = [q \in Getters |-> IF getter[q].pc \in {"idle", "block", "none", "future"} THEN getter[q]
                                    ELSE [NoGet EXCEPT !.pc = "failed"]]
    /\ lister' = [l \in Listers |-> IF lister[l].pc \in {"count", "list", "listed"}
                                    THEN [NoList EXCEPT !.pc = "failed"] ELSE lister[l]]
    /\ UNCHANGED <<blockBounds, date, head, storedAt, cleared>>

BlockNext ==
    \/ BlockComes \/ BlockTick
    \/ \E h \in BlockHeights : SaveBlock(h)
    \/ \E q \in Getters :
          \/ \E key \in blockScene.asks : AskBlock(q, key)
          \/ FindBlock(q) \/ CacheFound(q) \/ FetchBlock(q) \/ AnswerFetched(q) \/ AskTip(q) \/ GetFails(q)
    \/ \E l \in Listers : AskList(l) \/ FindList(l) \/ AnswerList(l)

-----------------------------------------------------------------------------
\* Types; a key has one entry, and a call that clears has stored its block.
BlockTypeOK ==
    /\ blockScene \in BlockScenes /\ lapses \in 0..blockScene.lapses
    /\ date \in 0..blockScene.upto /\ head \in 0..blockScene.top
    /\ \A h \in BlockHeights :
          /\ storedAt[h] \in -1..date /\ (saver[h] = "none" \/ h <= head)
          /\ saver[h] = "clear" \/ h \in cleared => h \in Held
    /\ \A e, d \in blockCache : e.key = d.key => e = d
    /\ \A e, d \in listCache : e.key = d.key => e = d
    /\ \A q \in Getters : getter[q].pc \in {"idle", "find", "found", "fetch", "save", "saved", "tip", "block", "none", "future", "failed"}
    /\ \A l \in Listers : lister[l].pc \in {"idle", "count", "list", "listed", "more", "end", "failed"}

\* The latest block a cache has is stored; a save that is done is above it only
\* if the entry was read before; and the entry is never older than its ten
\* seconds and the time of its read (BlockService.ts:258).
LatestHolds ==
    \A e \in {e \in blockCache : e.key = LatestKey} :
        /\ e.block \in Held
        /\ \A h \in cleared : h <= e.block \/ h \in e.passed
        /\ \A h \in Held : h > e.block => date - storedAt[h] < BlockTTL + BlockLag

\* A request that meets no error is answered with the block, if the chain had
\* it when it was asked for, whoever saves it meanwhile (BlockService.ts:94).
AnswersHold ==
    \A q \in Getters : getter[q].pc \in {"none", "future"} /\ getter[q].due => getter[q].erred

\* A client that goes on to the last page is given every block that all its
\* pages were read with, unless a page it was given was read before the one in
\* front of it, or a block was stored while the last one was counted; and none
\* twice unless blocks were stored between its pages (BlockRepository.ts:141).
ListsComplete ==
    \A l \in Listers :
        LET r == lister[l] IN
        /\ r.pc = "end" /\ r.rising /\ r.settled => r.all \subseteq r.given
        /\ r.same => r.twice = {}

BlockPagesHold == BlockTypeOK /\ LatestHolds /\ AnswersHold /\ ListsComplete
=============================================================================
