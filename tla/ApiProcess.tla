---------------------------- MODULE ApiProcess ----------------------------
(***************************************************************************)
(* The process that serves the API: the statistics of finality votes, the  *)
(* answers kept in Redis, the pages of transactions and blocks, the        *)
(* clients of the chain and the requests that come by HTTP.  They share    *)
(* the event loop and a restart, of which the first two survive by what    *)
(* Redis has and the pages by what MongoDB has.                            *)
(***************************************************************************)
EXTENDS FinalityVotes, CachedReads, TxPages, BlockPages, NodeClients, HttpApi

CONSTANT Settings       \* scenes of the votes, the reads, the pages, the blocks, the clients and HTTP

ASSUME SettingAssumption ==
    Settings \subseteq Scenes \X ReadScenes \X PageScenes \X BlockScenes \X ClientScenes \X HttpScenes

apiVars == <<vars, readVars, pageVars, blockVars, clientVars, httpVars>>

ApiInit ==
    /\ Init /\ ReadInit /\ PageInit /\ BlockInit /\ ClientInit /\ HttpInit
    /\ <<scene, readScene, pageScene, blockScene, clientScene, httpScene>> \in Settings

ApiRestart == Restart /\ Forgets /\ PageForgets /\ BlockForgets /\ ClientForgets /\ HttpForgets

ApiNext ==
    \/ Works /\ UNCHANGED <<readVars, pageVars, blockVars, clientVars, httpVars>>
    \/ ReadNext /\ UNCHANGED <<vars, pageVars, blockVars, clientVars, httpVars>>
    \/ PageNext /\ UNCHANGED <<vars, readVars, blockVars, clientVars, httpVars>>
    \/ BlockNext /\ UNCHANGED <<vars, readVars, pageVars, clientVars, httpVars>>
    \/ ClientNext /\ UNCHANGED <<vars, readVars, pageVars, blockVars, httpVars>>
    \/ HttpNext /\ UNCHANGED <<vars, readVars, pageVars, blockVars, clientVars>>
    \/ ApiRestart

\* Blocks come, the node answers and timers fire.
ApiSpec ==
    /\ ApiInit /\ [][ApiNext]_apiVars
    /\ WF_vars(NewBlock)
    /\ \A q \in Requests : WF_vars(q \in scene.by /\ Serves(q))

-----------------------------------------------------------------------------
\* What errors and restarts leave of both caches, their ranges, flags and promises
\* (FinalityBlockProcessor.ts:285, FinalityProviderService.ts:84).
ApiHolds == RangeKnown /\ CacheHolds /\ ReadsHold

\* What a client is given page by page, and as the latest block, while others
\* store what the pages are made of (TxRepository.ts:214, BlockService.ts:258).
PagesHold == TxPagesHold /\ BlockPagesHold
=============================================================================
