------------------------- MODULE DelegationsProofs -------------------------
(* Why the document of a staker agrees with its delegations, for any number  *)
(* of delegations, stakers, overlapping calls, retries, crawls and           *)
(* recalculations.  A call saves what it read some steps ago, so the         *)
(* invariant is about the copies calls hold: one that is not stale is still  *)
(* the stored document (Copies), and a delegation without trouble has at     *)
(* most one update under way, which carries its newest state, and none while *)
(* the crawler was the last to write it (Agrees).  That a delegation is      *)
(* created once rests on the chain: what a call has been told about a        *)
(* delegation stays true of it (Chained).                                    *)
(* The figures of a document agree with its own lists because an update      *)
(* keeps the two together whatever copy it starts from (UpdatedFacts) and    *)
(* the recalculation counts what it has found (RecalculatedFacts); neither   *)
(* needs the copy to be a current one.                                       *)
EXTENDS StakerSheets, SumTheorems, FiniteSetTheorems, TLAPS

-----------------------------------------------------------------------------
(* Types.                                                                    *)

LEMMA CallKinds ==
    ASSUME NEW r \in CallType
    PROVE  /\ r.pc \in {"idle", "look", "write", "ask", "read", "save"}
           /\ r.pc = "idle" <=> r = Idle
           /\ r.pc # "idle" => r.d \in Stakes
           /\ r.pc \in {"look", "write"} => r \in [pc : {"look", "write"}, kind : Kinds, d : Stakes, to : States]
           /\ r.pc = "ask" => r \in [pc : {"ask"}, kind : {"crawl"}, d : Stakes, to : {None}]
           /\ r.pc = "read" => r \in [pc : {"read"}, d : Stakes, to : States, tries : 0..(MaxTries - 1)]
           /\ r.pc = "save" => r \in [pc : {"save"}, d : Stakes, to : States,
                                      tries : 0..(MaxTries - 1), saw : Doc, stale : BOOLEAN]
  BY DEF CallType, Idle

LEMMA RecalcKinds ==
    ASSUME NEW r \in RecalcType
    PROVE  /\ r.pc \in {"idle", "find", "save"}
           /\ r.pc = "idle" <=> r = NoRecalc
           /\ r.pc # "idle" => r.s \in Stakers /\ r.stale \in BOOLEAN
           /\ r.pc = "save" => r.found \in Held
  BY DEF RecalcType, NoRecalc

\* Replacing one call.
LEMMA OneCall ==
    ASSUME call \in [Calls -> CallType], NEW c \in Calls, NEW r \in CallType
    PROVE  /\ [call EXCEPT ![c] = r] \in [Calls -> CallType]
           /\ [call EXCEPT ![c] = r][c] = r
           /\ \A b \in Calls \ {c} : [call EXCEPT ![c] = r][b] = call[b]
  OBVIOUS

\* Every kind of call there is.
LEMMA CallForms ==
    /\ Idle \in CallType
    /\ \A k \in Kinds, d \in Stakes, to \in States :
         /\ [pc |-> "look", kind |-> k, d |-> d, to |-> to] \in CallType
         /\ [pc |-> "write", kind |-> k, d |-> d, to |-> to] \in CallType
    /\ \A d \in Stakes : [pc |-> "ask", kind |-> "crawl", d |-> d, to |-> None] \in CallType
    /\ \A d \in Stakes, to \in States, t \in 0..(MaxTries - 1) :
         /\ [pc |-> "read", d |-> d, to |-> to, tries |-> t] \in CallType
         /\ \A saw \in Doc, stale \in BOOLEAN :
              [pc |-> "save", d |-> d, to |-> to, tries |-> t, saw |-> saw, stale |-> stale] \in CallType
  BY DEF CallType

\* What a call does with its record, by the step it takes.
StartedUpdate(c) == [pc |-> "read", d |-> call[c].d, to |-> call[c].to, tries |-> 0]
ReadAgain(c) == [pc |-> "read", d |-> call[c].d, to |-> call[c].to, tries |-> call[c].tries + 1]
HasRead(c) == [pc |-> "save", d |-> call[c].d, to |-> call[c].to, tries |-> call[c].tries,
               saw |-> doc[StakerOfCall(c)], stale |-> FALSE]
MayWrite(c, to) == [pc |-> "write", kind |-> call[c].kind, d |-> call[c].d, to |-> to]

LEMMA LookStep ==
    ASSUME TypeOK, NEW c \in Calls, Look(c)
    PROVE  /\ call[c].pc = "look"
           /\ \/ call' = [call EXCEPT ![c] = MayWrite(c, call[c].to)]
              \/ call' = [call EXCEPT ![c] = Idle]
  <1>1. call[c].pc = "look" /\ call[c] \in CallType
    BY DEF Look, TypeOK
  <1>2. call[c] \in [pc : {"look", "write"}, kind : Kinds, d : Stakes, to : States]
    BY <1>1, CallKinds
  <1>3. [call[c] EXCEPT !.pc = "write"] = MayWrite(c, call[c].to)
    BY <1>2 DEF MayWrite
  <1> QED BY <1>1, <1>3 DEF Look, Done

LEMMA AskStep ==
    ASSUME TypeOK, NEW c \in Calls, Ask(c)
    PROVE  /\ call[c].pc = "ask"
           /\ \/ /\ chain[call[c].d] # crawl
                 /\ call' = [call EXCEPT ![c] = MayWrite(c, chain[call[c].d])]
              \/ call' = [call EXCEPT ![c] = Idle]
  <1>1. call[c].pc = "ask" /\ call[c] \in CallType
    BY DEF Ask, TypeOK
  <1>2. call[c] \in [pc : {"ask"}, kind : {"crawl"}, d : Stakes, to : {None}]
    BY <1>1, CallKinds
  <1>3. [pc |-> "write", kind |-> "crawl", d |-> call[c].d, to |-> chain[call[c].d]] = MayWrite(c, chain[call[c].d])
    BY <1>2 DEF MayWrite
  <1> QED BY <1>1, <1>3 DEF Ask, Done

\* Saving a document leaves the calls alone but for those that read it.
LEMMA OutdateType ==
    ASSUME call \in [Calls -> CallType], NEW s
    PROVE  /\ OutdateCalls(s) \in [Calls -> CallType]
           /\ \A c \in Calls :
                LET r == OutdateCalls(s)[c] IN
                /\ r.pc = call[c].pc /\ (r = Idle <=> call[c] = Idle)
                /\ r.pc # "idle" => r.d = call[c].d /\ r.to = call[c].to
                /\ r.pc \in {"look", "write", "ask"} => r = call[c]
                /\ r.pc = "save" => /\ r.saw = call[c].saw
                                    /\ ~r.stale => StakerOfCall(c) # s /\ ~call[c].stale
  <1> DEFINE out == OutdateCalls(s)
  <1>1. ASSUME NEW c \in Calls, call[c].pc = "save", StakerOfCall(c) = s
        PROVE  /\ out[c] = [call[c] EXCEPT !.stale = TRUE]
               /\ call[c] \in [pc : {"save"}, d : Stakes, to : States, tries : 0..(MaxTries - 1),
                               saw : Doc, stale : BOOLEAN]
    BY <1>1, CallKinds DEF OutdateCalls
  <1>2. ASSUME NEW c \in Calls, ~(call[c].pc = "save" /\ StakerOfCall(c) = s)
        PROVE  out[c] = call[c]
    BY <1>2 DEF OutdateCalls
  <1>3. ASSUME NEW c \in Calls
        PROVE  /\ out[c] \in CallType
               /\ out[c].pc = call[c].pc /\ (out[c] = Idle <=> call[c] = Idle)
               /\ out[c].pc # "idle" => out[c].d = call[c].d /\ out[c].to = call[c].to
               /\ out[c].pc \in {"look", "write", "ask"} => out[c] = call[c]
               /\ out[c].pc = "save" => /\ out[c].saw = call[c].saw
                                        /\ ~out[c].stale => StakerOfCall(c) # s /\ ~call[c].stale
    <2>1. CASE call[c].pc = "save" /\ StakerOfCall(c) = s
      <3>1. /\ out[c] = [call[c] EXCEPT !.stale = TRUE]
            /\ call[c] \in [pc : {"save"}, d : Stakes, to : States, tries : 0..(MaxTries - 1),
                            saw : Doc, stale : BOOLEAN]
        BY <1>1, <2>1
      <3>2. out[c] \in [pc : {"save"}, d : Stakes, to : States, tries : 0..(MaxTries - 1),
                        saw : Doc, stale : BOOLEAN]
        BY <3>1
      <3>3. out[c] \in CallType
        BY <3>2 DEF CallType
      <3> HIDE DEF out
      <3> QED BY <2>1, <3>1, <3>2, <3>3 DEF Idle
    <2>2. CASE ~(call[c].pc = "save" /\ StakerOfCall(c) = s)
      BY <1>2, <2>2
    <2> QED BY <2>1, <2>2
  <1>4. out \in [Calls -> CallType]
    BY <1>3 DEF OutdateCalls
  <1> QED BY <1>3, <1>4

LEMMA VersionStep ==
    ASSUME TypeOK, NEW c \in Calls, VersionConflict(c)
    PROVE  /\ call[c].pc = "save" /\ call[c].stale
           /\ \/ call[c].tries + 1 \in 0..(MaxTries - 1) /\ call' = [call EXCEPT ![c] = ReadAgain(c)] /\ UNCHANGED hist
              \/ GiveUp(c)
  <1>1. call[c] \in CallType /\ call[c].pc = "save"
    BY DEF VersionConflict, TypeOK
  <1>2. call[c].tries \in 0..(MaxTries - 1)
    BY <1>1, CallKinds
  <1>3. MaxTries \in Nat
    BY BoundAssumption
  <1> QED BY <1>1, <1>2, <1>3 DEF VersionConflict, TriesLeft, ReadAgain

-----------------------------------------------------------------------------
(* What a call has been told.                                                *)

\* The delegation is past PENDING on the chain.
Moved(d) == chain[d] \notin {None, "PENDING"}

\* What a call has been told is true of the chain still.
Traced(c) ==
    /\ chain[call[c].d] # None
    /\ call[c].pc = "ask" =>
         /\ c \in Crawls /\ crawl # None
         /\ crawl = "VERIFIED" => Moved(call[c].d)
    /\ call[c].pc \in {"look", "write"} =>
         /\ call[c].to # "PENDING" => Moved(call[c].d)
         /\ call[c].kind = "create" <=> call[c].to = "PENDING"
    /\ call[c].pc \in {"read", "save"} => deleg[call[c].d] # None

Chained ==
    /\ \A e \in emitted :
         chain[e[1]] # None /\ (e[2].to # "PENDING" => Moved(e[1]))
    /\ \A d \in Stakes :
         /\ deleg[d] # None => chain[d] # None
         /\ deleg[d] \notin {None, "PENDING"} => Moved(d)
    /\ \A c \in Calls : call[c] # Idle => Traced(c)

\* A delegation on a page is in the state of the page.
LEMMA OnPage ==
    ASSUME TypeOK, NEW state, NEW d \in PageOf(state)
    PROVE  d \in Stakes /\ deleg[d] = state
  BY DEF PageOf, TypeOK

\* A call starts to update a staker.
LEMMA StartUpdateType ==
    ASSUME TypeOK, Chained, NEW c \in Calls, call[c].pc = "write", StartUpdate(c)
    PROVE  /\ call' = [call EXCEPT ![c] = StartedUpdate(c)] /\ call' \in [Calls -> CallType]
           /\ overtaken' \subseteq Stakes /\ crawled' \subseteq Stakes
  <1>1. call[c].d \in Stakes /\ call[c].to \in States /\ 0 \in 0..(MaxTries - 1)
    BY CallKinds, BoundAssumption DEF TypeOK
  <1>2. call' = [call EXCEPT ![c] = StartedUpdate(c)]
    BY DEF StartUpdate, StartedUpdate
  <1>3. StartedUpdate(c) \in CallType
    BY <1>1, CallForms DEF StartedUpdate
  <1>4. call' \in [Calls -> CallType]
    BY <1>2, <1>3, OneCall DEF TypeOK
  <1>5. overtaken' = overtaken \cup {call[c].d} \/ overtaken' = overtaken
    BY DEF StartUpdate
  <1>6. overtaken' \subseteq Stakes /\ crawled' \subseteq Stakes
    BY <1>1, <1>5 DEF StartUpdate, TypeOK
  <1> QED BY <1>2, <1>4, <1>6

LEMMA MovesOfChain ==
    ASSUME NEW d \in Stakes, NEW m \in Moves[d]
    PROVE  /\ m.kind \in Kinds \ {"crawl"} /\ m.to \in States
           /\ m.kind = "create" <=> m.from = None
           /\ m.kind = "create" <=> m.to = "PENDING"
  BY MoveAssumption

LEMMA TypeStep == TypeOK /\ Chained /\ [Next]_vars => TypeOK'
  <1> SUFFICES ASSUME TypeOK, Chained, [Next]_vars PROVE TypeOK'
    OBVIOUS
  <1> USE DEF nodeVars, delegVars, crawlVars, bounds, hist
  <1>done. ASSUME NEW c \in Calls PROVE [call EXCEPT ![c] = Idle] \in [Calls -> CallType]
    BY OneCall, CallForms DEF TypeOK
  <1>giveup. ASSUME NEW c \in Calls, call[c].pc # "idle", GiveUp(c)
             PROVE  call' \in [Calls -> CallType] /\ overtaken' \subseteq Stakes /\ crawled' \subseteq Stakes
    BY <1>giveup, <1>done, CallKinds DEF GiveUp, Done, TypeOK
  <1>trouble. Trouble => trouble' \in 0..MaxTrouble
    BY BoundAssumption DEF Trouble, TypeOK
  <1>1. ASSUME NEW d \in Stakes, NEW m \in Moves[d], ChainMoves(d, m) PROVE TypeOK'
    BY <1>1, MovesOfChain DEF ChainMoves, TypeOK, Held
  <1>2. ASSUME NEW d \in Stakes, NEW m \in Moves[d], NEW c \in Handlers, Deliver(c, d, m) PROVE TypeOK'
    <2>1. [pc |-> "look", kind |-> m.kind, d |-> d, to |-> m.to] \in CallType
      BY MovesOfChain, CallForms
    <2>2. call' \in [Calls -> CallType]
      BY <1>2, <2>1, OneCall DEF Deliver, Calls, TypeOK
    <2>3. deliveries' \in 0..MaxDeliveries
      BY <1>2, BoundAssumption DEF Deliver, TypeOK
    <2> QED BY <1>2, <2>2, <2>3 DEF Deliver, TypeOK
  <1>3. ASSUME NEW c \in Calls, Look(c) PROVE TypeOK'
    <2>1. MayWrite(c, call[c].to) \in CallType
      BY <1>3, CallKinds, CallForms DEF Look, TypeOK, MayWrite
    <2>2. call' \in [Calls -> CallType]
      BY <1>3, <2>1, <1>done, LookStep, OneCall DEF TypeOK
    <2> QED BY <1>3, <2>2 DEF Look, TypeOK
  <1>4. ASSUME NEW c \in Calls, Insert(c) PROVE TypeOK'
    <2>1. call[c].d \in Stakes
      BY <1>4, CallKinds DEF Insert, TypeOK
    <2>2. CASE deleg[call[c].d] = None
      <3>1. /\ call[c].pc = "write" /\ StartUpdate(c)
            /\ deleg' = [deleg EXCEPT ![call[c].d] = "PENDING"] /\ stored' = Append(stored, call[c].d)
            /\ UNCHANGED <<nodeVars, doc, crawlVars, recalc, bounds>>
        BY <1>4, <2>2 DEF Insert
      <3>2. deleg' \in Held /\ stored' \in Seq(Stakes)
        BY <2>1, <3>1 DEF TypeOK, Held, States
      <3>3. call' \in [Calls -> CallType] /\ overtaken' \subseteq Stakes /\ crawled' \subseteq Stakes
        BY <3>1, StartUpdateType
      <3> QED BY <3>1, <3>2, <3>3 DEF TypeOK, nodeVars, crawlVars, bounds
    <2>3. CASE deleg[call[c].d] # None
      BY <1>4, <2>3, <1>done DEF Insert, Done, TypeOK
    <2> QED BY <2>2, <2>3
  <1>5. ASSUME NEW c \in Calls, Write(c) PROVE TypeOK'
    <2>1. call[c].d \in Stakes /\ call[c].to \in States
      BY <1>5, CallKinds DEF Write, TypeOK
    <2> QED BY <1>5, <2>1, StartUpdateType DEF Write, TypeOK, Held
  <1>6. ASSUME NEW c \in Calls, Ask(c) PROVE TypeOK'
    <2>1. call[c] # Idle /\ call[c].pc = "ask" /\ call[c] \in [pc : {"ask"}, kind : {"crawl"}, d : Stakes, to : {None}]
      BY <1>6, CallKinds DEF Ask, TypeOK, Idle
    <2>2. chain[call[c].d] \in States
      BY <2>1 DEF Chained, Traced, TypeOK, Held
    <2>3. MayWrite(c, chain[call[c].d]) \in CallType
      BY <2>1, <2>2, CallForms DEF MayWrite, Kinds
    <2>4. call' \in [Calls -> CallType]
      BY <1>6, <2>3, <1>done, AskStep, OneCall DEF TypeOK
    <2> QED BY <1>6, <2>4 DEF Ask, TypeOK
  <1>7. ASSUME NEW c \in Calls, ReadStaker(c) PROVE TypeOK'
    <2>1. call[c] \in [pc : {"read"}, d : Stakes, to : States, tries : 0..(MaxTries - 1)]
      BY <1>7, CallKinds DEF ReadStaker, TypeOK
    <2>2. doc[StakerOfCall(c)] \in Doc
      BY <2>1, StakerAssumption DEF StakerOfCall, TypeOK
    <2>3. HasRead(c) \in CallType
      BY <2>1, <2>2, CallForms DEF HasRead
    <2>4. call' = [call EXCEPT ![c] = HasRead(c)]
      BY <1>7 DEF ReadStaker, HasRead, StakerOfCall
    <2>5. call' \in [Calls -> CallType]
      BY <2>3, <2>4, OneCall DEF TypeOK
    <2> QED BY <1>7, <2>5 DEF ReadStaker, TypeOK
  <1>8. ASSUME NEW c \in Calls, SaveStaker(c) PROVE TypeOK'
    <2>1. call[c] \in [pc : {"save"}, d : Stakes, to : States, tries : 0..(MaxTries - 1),
                       saw : Doc, stale : BOOLEAN]
      BY <1>8, CallKinds DEF SaveStaker, TypeOK
    <2>2. doc' \in [Stakers -> Doc]
      BY <1>8, <2>1 DEF SaveStaker, HoldsAfter, TypeOK, Doc, Held
    <2>3. call' \in [Calls -> CallType]
      BY <1>8, OutdateType, CallForms DEF SaveStaker, TypeOK
    <2>4. recalc' \in RecalcType
      BY <1>8 DEF SaveStaker, OutdateRecalc, TypeOK, RecalcType, NoRecalc
    <2> QED BY <1>8, <2>2, <2>3, <2>4 DEF SaveStaker, TypeOK
  <1>9. ASSUME NEW c \in Calls, VersionConflict(c) PROVE TypeOK'
    <2>1. call[c] \in [pc : {"save"}, d : Stakes, to : States, tries : 0..(MaxTries - 1),
                       saw : Doc, stale : BOOLEAN]
      BY <1>9, CallKinds DEF VersionConflict, TypeOK
    <2>2. call[c].tries + 1 \in 0..(MaxTries - 1) => ReadAgain(c) \in CallType
      BY <2>1, CallForms DEF ReadAgain
    <2>3. call' \in [Calls -> CallType] /\ overtaken' \subseteq Stakes /\ crawled' \subseteq Stakes
      BY <1>9, <2>1, <2>2, <1>giveup, VersionStep, OneCall DEF TypeOK
    <2> QED BY <1>9, <2>3 DEF VersionConflict, TypeOK
  <1>10. ASSUME NEW c \in Calls, DuplicateStaker(c) PROVE TypeOK'
    BY <1>10, <1>giveup DEF DuplicateStaker, TypeOK
  <1>11. ASSUME NEW c \in Calls, CallFails(c) PROVE TypeOK'
    <2>1. call[c].pc # "idle"
      BY <1>11, CallKinds DEF CallFails, TypeOK
    <2>2. call' \in [Calls -> CallType] /\ overtaken' \subseteq Stakes /\ crawled' \subseteq Stakes
      BY <1>11, <2>1, <1>giveup, <1>done DEF CallFails, Done, TypeOK
    <2> QED BY <1>11, <2>2, <1>trouble DEF CallFails, TypeOK
  <1>12. CASE StartCrawl \/ CrawlPassDone
    BY <1>12, <1>trouble DEF StartCrawl, CrawlPassDone, NextPass, TypeOK
  <1>13. CASE CrawlPage
    <2>1. \A c \in Calls : c \in Crawls /\ c[2] \in PageOf(crawl) => c[2] \in Stakes
      BY OnPage
    <2>2. call' \in [Calls -> CallType]
      BY <1>13, <2>1, CallForms DEF CrawlPage, TypeOK
    <2> QED BY <1>13, <2>2 DEF CrawlPage, TypeOK
  <1>14. ASSUME NEW s \in Stakers, RecalcRead(s) PROVE TypeOK'
    BY <1>14, <1>trouble DEF RecalcRead, TypeOK, RecalcType
  <1>15. CASE RecalcFind
    <2>1. recalc.s \in Stakers /\ recalc.stale \in BOOLEAN
      BY <1>15, RecalcKinds DEF RecalcFind, TypeOK
    <2>2. DelegationsOf(recalc.s) \in Held
      BY DEF DelegationsOf, TypeOK, Held
    <2> QED BY <1>15, <2>1, <2>2 DEF RecalcFind, TypeOK, RecalcType
  <1>16. CASE RecalcSave
    <2>1. recalc.found \in Held /\ recalc.s \in Stakers
      BY <1>16, RecalcKinds DEF RecalcSave, TypeOK
    <2>2. doc' \in [Stakers -> Doc]
      BY <1>16, <2>1 DEF RecalcSave, TypeOK, Doc
    <2>3. call' \in [Calls -> CallType]
      BY <1>16, OutdateType DEF RecalcSave, TypeOK
    <2> QED BY <1>16, <2>2, <2>3 DEF RecalcSave, TypeOK, RecalcType
  <1>17. CASE Crash
    <2>1. overtaken' \subseteq Stakes /\ call' \in [Calls -> CallType]
      BY <1>17, CallForms DEF Crash, TypeOK
    <2> QED BY <1>17, <2>1, <1>trouble DEF Crash, TypeOK
  <1>18. CASE UNCHANGED vars
    BY <1>18 DEF vars, TypeOK
  <1>19. ASSUME NEW c \in Calls, CrawlWrite(c) PROVE TypeOK'
    <2>1. call[c].d \in Stakes /\ call[c].to \in States
      BY <1>19, CallKinds DEF CrawlWrite, TypeOK
    <2>2. overtaken' \subseteq Stakes /\ crawled' \subseteq Stakes
      BY <1>19, <2>1 DEF CrawlWrite, NotTold, TypeOK
    <2> QED BY <1>19, <2>1, <2>2, <1>done DEF CrawlWrite, Done, TypeOK, Held
  <1> QED BY <1>1, <1>2, <1>3, <1>4, <1>5, <1>6, <1>7, <1>8, <1>9, <1>10, <1>11, <1>12, <1>13,
             <1>14, <1>15, <1>16, <1>17, <1>18, <1>19 DEF Next, Handle, HandleUnsaved, Crawler

\* One call moves on and nothing else happens.
LEMMA ChainedCall ==
    ASSUME TypeOK, Chained, UNCHANGED <<chain, emitted, deleg, crawl>>, NEW c \in Calls,
           \A b \in Calls \ {c} : call'[b] = call[b],
           call'[c] # Idle => Traced(c)'
    PROVE  Chained'
  BY DEF Chained, Traced, Moved

\* A call ends.
LEMMA ChainedDone ==
    ASSUME TypeOK, Chained, UNCHANGED <<chain, emitted, deleg, crawl>>, NEW c \in Calls, Done(c)
    PROVE  Chained'
  <1>1. call'[c] = Idle /\ \A b \in Calls \ {c} : call'[b] = call[b]
    BY OneCall, CallForms DEF Done, TypeOK
  <1> QED BY <1>1, ChainedCall

\* The chain does not go back.
LEMMA MovedStays ==
    ASSUME TypeOK, NEW d \in Stakes, NEW m \in Moves[d], ChainMoves(d, m)
    PROVE  /\ \A e \in Stakes : (chain[e] # None => chain'[e] # None) /\ (Moved(e) => Moved(e)')
           /\ chain'[d] # None /\ (m.to # "PENDING" => Moved(d)')
  <1>1. m.to # None /\ (m.from # None => m.to # "PENDING")
    BY MovesOfChain DEF States, None
  <1>2. chain[d] = m.from /\ chain' = [chain EXCEPT ![d] = m.to]
    BY DEF ChainMoves
  <1> QED BY <1>1, <1>2 DEF TypeOK, Held, Moved

LEMMA ChainedStep == TypeOK /\ Chained /\ [Next]_vars => Chained'
  <1> SUFFICES ASSUME TypeOK, Chained, [Next]_vars PROVE Chained'
    OBVIOUS
  <1> USE DEF nodeVars, delegVars, crawlVars, bounds
  <1>t. \A c \in Calls : call[c].pc # "idle" => call[c] # Idle /\ Traced(c) /\ call[c].d \in Stakes
    BY CallKinds DEF TypeOK, Chained, Idle
  <1>1. ASSUME NEW d \in Stakes, NEW m \in Moves[d], ChainMoves(d, m) PROVE Chained'
    <2>1. \A e \in emitted' : chain'[e[1]] # None /\ (e[2].to # "PENDING" => Moved(e[1])')
      <3>1. ASSUME NEW e \in emitted PROVE chain'[e[1]] # None /\ (e[2].to # "PENDING" => Moved(e[1])')
        <4>1. e[1] \in Stakes /\ chain[e[1]] # None /\ (e[2].to # "PENDING" => Moved(e[1]))
          BY DEF Chained, TypeOK
        <4> QED BY <1>1, <4>1, MovedStays
      <3>2. ASSUME NEW e, e = <<d, m>> PROVE chain'[e[1]] # None /\ (e[2].to # "PENDING" => Moved(e[1])')
        <4>1. e[1] = d /\ e[2] = m
          BY <3>2
        <4> QED BY <1>1, <4>1, MovedStays
      <3>3. emitted' = emitted \cup {<<d, m>>}
        BY <1>1 DEF ChainMoves
      <3> QED BY <3>1, <3>2, <3>3
    <2>2. \A e \in Stakes : (deleg'[e] # None => chain'[e] # None)
                           /\ (deleg'[e] \notin {None, "PENDING"} => Moved(e)')
      BY <1>1, MovedStays DEF ChainMoves, Chained
    <2>3. ASSUME NEW c \in Calls, call'[c] # Idle PROVE Traced(c)'
      <3>1. Traced(c) /\ call[c].d \in Stakes /\ call' = call /\ crawl' = crawl /\ deleg' = deleg
        BY <1>1, <2>3, CallKinds DEF ChainMoves, Chained, TypeOK
      <3> QED BY <1>1, <3>1, MovedStays DEF Traced
    <2> QED BY <2>1, <2>2, <2>3 DEF Chained
  <1>2. ASSUME NEW d \in Stakes, NEW m \in Moves[d], NEW c \in Handlers, Deliver(c, d, m) PROVE Chained'
    <2>1. chain[d] # None /\ (m.to # "PENDING" => Moved(d))
      BY <1>2 DEF Deliver, Chained
    <2>2. c \in Calls /\ [pc |-> "look", kind |-> m.kind, d |-> d, to |-> m.to] \in CallType
      BY MovesOfChain, CallForms DEF Calls
    <2>3. /\ call'[c] = [pc |-> "look", kind |-> m.kind, d |-> d, to |-> m.to]
          /\ \A b \in Calls \ {c} : call'[b] = call[b]
      BY <1>2, <2>2, OneCall DEF Deliver, TypeOK
    <2>4. UNCHANGED <<chain, emitted, deleg, crawl>>
      BY <1>2 DEF Deliver
    <2>5. Traced(c)'
      BY <2>1, <2>3, <2>4, MovesOfChain DEF Traced, Moved
    <2> QED BY <2>2, <2>3, <2>4, <2>5, ChainedCall
  <1>3. ASSUME NEW c \in Calls, Look(c) PROVE Chained'
    <2>1. UNCHANGED <<chain, emitted, deleg, crawl>> /\ Traced(c) /\ call[c].pc = "look"
      BY <1>3, <1>t DEF Look
    <2>2. CASE call' = [call EXCEPT ![c] = Idle]
      BY <2>1, <2>2, ChainedDone DEF Done
    <2>3. CASE call' = [call EXCEPT ![c] = MayWrite(c, call[c].to)]
      <3>1. call'[c] = MayWrite(c, call[c].to) /\ \A b \in Calls \ {c} : call'[b] = call[b]
        BY <2>3 DEF TypeOK
      <3>2. Traced(c)'
        BY <2>1, <3>1 DEF Traced, Moved, MayWrite
      <3> QED BY <2>1, <3>1, <3>2, ChainedCall
    <2> QED BY <1>3, <2>2, <2>3, LookStep
  <1>4. ASSUME NEW c \in Calls, Insert(c) PROVE Chained'
    <2>1. /\ UNCHANGED <<chain, emitted, crawl>> /\ Traced(c) /\ call[c].pc = "write"
          /\ call[c].d \in Stakes
      BY <1>4, <1>t DEF Insert
    <2>2. CASE deleg[call[c].d] = None
      <3>1. deleg' = [deleg EXCEPT ![call[c].d] = "PENDING"] /\ StartUpdate(c)
        BY <1>4, <2>2 DEF Insert
      <3>2. call'[c] = StartedUpdate(c) /\ \A b \in Calls \ {c} : call'[b] = call[b]
        BY <2>1, <3>1, StartUpdateType DEF TypeOK
      <3>3. \A b \in Calls : call'[b] # Idle => Traced(b)'
        BY <2>1, <3>1, <3>2, <1>t, CallKinds DEF Traced, Moved, StartedUpdate, TypeOK, Held, None
      <3>4. \A d \in Stakes : (deleg'[d] # None => chain'[d] # None)
                             /\ (deleg'[d] \notin {None, "PENDING"} => Moved(d)')
        BY <2>1, <3>1 DEF Chained, Traced, Moved, TypeOK, Held
      <3> QED BY <2>1, <3>3, <3>4 DEF Chained, Moved
    <2>3. CASE deleg[call[c].d] # None
      BY <1>4, <2>3, ChainedDone DEF Insert
    <2> QED BY <2>2, <2>3
  <1>5. ASSUME NEW c \in Calls, Write(c) PROVE Chained'
    <2>1. /\ UNCHANGED <<chain, emitted, crawl>> /\ Traced(c) /\ call[c].pc = "write"
          /\ call[c].d \in Stakes /\ call[c].kind # "create" /\ StartUpdate(c)
          /\ deleg' = [deleg EXCEPT ![call[c].d] = call[c].to]
      BY <1>5, <1>t DEF Write
    <2>2. call[c].to \in States /\ call[c].to # None
      BY <2>1, CallKinds DEF TypeOK, States, None
    <2>3. call'[c] = StartedUpdate(c) /\ \A b \in Calls \ {c} : call'[b] = call[b]
      BY <2>1, StartUpdateType DEF TypeOK
    <2>4. \A b \in Calls : call'[b] # Idle => Traced(b)'
      BY <2>1, <2>2, <2>3, <1>t, CallKinds DEF Traced, Moved, StartedUpdate, TypeOK, Held
    <2>5. \A d \in Stakes : (deleg'[d] # None => chain'[d] # None)
                           /\ (deleg'[d] \notin {None, "PENDING"} => Moved(d)')
      BY <2>1 DEF Chained, Traced, Moved, TypeOK, Held
    <2> QED BY <2>1, <2>4, <2>5 DEF Chained, Moved
  <1>6. ASSUME NEW c \in Calls, Ask(c) PROVE Chained'
    <2>1. /\ UNCHANGED <<chain, emitted, deleg, crawl>> /\ Traced(c) /\ call[c].pc = "ask"
          /\ call[c] \in [pc : {"ask"}, kind : {"crawl"}, d : Stakes, to : {None}]
      BY <1>6, <1>t, CallKinds DEF Ask, TypeOK
    <2>2. CASE call' = [call EXCEPT ![c] = Idle]
      BY <2>1, <2>2, ChainedDone DEF Done
    <2>3. CASE /\ chain[call[c].d] # crawl
               /\ call' = [call EXCEPT ![c] = MayWrite(c, chain[call[c].d])]
      <3>1. call'[c] = MayWrite(c, chain[call[c].d]) /\ \A b \in Calls \ {c} : call'[b] = call[b]
        BY <2>3 DEF TypeOK
      <3>2. Moved(call[c].d)
        BY <2>1, <2>3 DEF Traced, Moved, TypeOK
      <3>3. Traced(c)'
        BY <2>1, <3>1, <3>2 DEF Traced, Moved, MayWrite
      <3> QED BY <2>1, <3>1, <3>3, ChainedCall
    <2> QED BY <1>6, <2>2, <2>3, AskStep
  <1>7. ASSUME NEW c \in Calls, ReadStaker(c) PROVE Chained'
    <2>1. /\ UNCHANGED <<chain, emitted, deleg, crawl>> /\ Traced(c) /\ call[c].pc = "read"
          /\ call' = [call EXCEPT ![c] = HasRead(c)]
      BY <1>7, <1>t DEF ReadStaker, HasRead, StakerOfCall
    <2>2. call'[c] = HasRead(c) /\ \A b \in Calls \ {c} : call'[b] = call[b]
      BY <2>1 DEF TypeOK
    <2>3. Traced(c)'
      BY <2>1, <2>2 DEF Traced, HasRead
    <2> QED BY <2>1, <2>2, <2>3, ChainedCall
  <1>8. ASSUME NEW s, call' = OutdateCalls(s) \/ \E c \in Calls : call' = [OutdateCalls(s) EXCEPT ![c] = Idle],
               UNCHANGED <<chain, emitted, deleg, crawl>>
        PROVE  Chained'
    <2>1. ASSUME NEW b \in Calls, call'[b] # Idle PROVE Traced(b)'
      <3>1. call'[b] = OutdateCalls(s)[b]
        BY <1>8, <2>1, OutdateType DEF TypeOK
      <3>2. call[b] # Idle /\ Traced(b)
        BY <2>1, <3>1, OutdateType DEF TypeOK, Chained
      <3>3. /\ call'[b].pc = call[b].pc /\ call'[b].d = call[b].d
            /\ call[b].pc \in {"look", "write", "ask"} => call'[b] = call[b]
        BY <3>1, <3>2, OutdateType, CallKinds DEF TypeOK
      <3> QED BY <1>8, <3>2, <3>3 DEF Traced, Moved
    <2> QED BY <1>8, <2>1 DEF Chained, Moved
  <1>9. ASSUME NEW c \in Calls, SaveStaker(c) PROVE Chained'
    BY <1>8, <1>9 DEF SaveStaker
  <1>10. ASSUME NEW c \in Calls, VersionConflict(c) PROVE Chained'
    <2>1. UNCHANGED <<chain, emitted, deleg, crawl>> /\ Traced(c) /\ call[c].pc = "save"
      BY <1>10, <1>t DEF VersionConflict
    <2>2. CASE GiveUp(c)
      BY <2>1, <2>2, ChainedDone DEF GiveUp
    <2>3. CASE call' = [call EXCEPT ![c] = ReadAgain(c)]
      <3>1. call'[c] = ReadAgain(c) /\ \A b \in Calls \ {c} : call'[b] = call[b]
        BY <2>3 DEF TypeOK
      <3>2. Traced(c)'
        BY <2>1, <3>1 DEF Traced, ReadAgain
      <3> QED BY <2>1, <3>1, <3>2, ChainedCall
    <2> QED BY <1>10, <2>2, <2>3, VersionStep
  <1>11. ASSUME NEW c \in Calls, DuplicateStaker(c) \/ CallFails(c) PROVE Chained'
    BY <1>11, ChainedDone DEF DuplicateStaker, CallFails, GiveUp
  <1>12. CASE StartCrawl \/ CrawlPassDone
    <2>1. \A c \in Calls : call[c].pc # "ask"
      BY <1>12, <1>t DEF StartCrawl, CrawlPassDone, CrawlOver, Traced, Idle
    <2>2. UNCHANGED <<chain, emitted, deleg, call>>
      BY <1>12 DEF StartCrawl, CrawlPassDone
    <2> QED BY <2>1, <2>2 DEF Chained, Traced, Moved
  <1>13. CASE CrawlPage
    <2>1. UNCHANGED <<chain, emitted, deleg, crawl>> /\ crawl \in {"PENDING", "VERIFIED"} /\ crawl # None
      BY <1>13 DEF CrawlPage, TypeOK
    <2>2. ASSUME NEW c \in Calls, call'[c] # Idle PROVE Traced(c)'
      <3>1. CASE c \in Crawls /\ c[2] \in PageOf(crawl)
        <4>1. call'[c] = [pc |-> "ask", kind |-> "crawl", d |-> c[2], to |-> None]
          BY <1>13, <3>1 DEF CrawlPage
        <4>2. c[2] \in Stakes /\ deleg[c[2]] = crawl
          BY <3>1, OnPage
        <4>3. chain[c[2]] # None /\ (crawl = "VERIFIED" => Moved(c[2]))
          BY <2>1, <4>2 DEF Chained, None
        <4> QED BY <2>1, <3>1, <4>1, <4>3 DEF Traced, Moved
      <3>2. CASE ~(c \in Crawls /\ c[2] \in PageOf(crawl))
        BY <1>13, <2>1, <2>2, <3>2 DEF CrawlPage, Chained, Traced, Moved
      <3> QED BY <3>1, <3>2
    <2> QED BY <2>1, <2>2 DEF Chained, Moved
  <1>14. ASSUME NEW s \in Stakers, RecalcRead(s) PROVE Chained'
    BY <1>14 DEF RecalcRead, Chained, Traced, Moved
  <1>15. CASE RecalcFind \/ UNCHANGED vars
    BY <1>15 DEF RecalcFind, vars, Chained, Traced, Moved
  <1>16. CASE RecalcSave
    <2>1. UNCHANGED <<chain, emitted, deleg, crawl>> /\ (call' = call \/ call' = OutdateCalls(recalc.s))
      BY <1>16 DEF RecalcSave
    <2>2. CASE call' = call
      BY <2>1, <2>2 DEF Chained, Traced, Moved
    <2> QED BY <2>1, <2>2, <1>8
  <1>17. CASE Crash
    BY <1>17 DEF Crash, Chained, Moved
  <1>18. ASSUME NEW c \in Calls, CrawlWrite(c) PROVE Chained'
    <2>1. /\ UNCHANGED <<chain, emitted, crawl>> /\ Traced(c) /\ call[c].pc = "write"
          /\ call[c].d \in Stakes /\ call[c].kind # "create" /\ Done(c)
          /\ deleg' = [deleg EXCEPT ![call[c].d] = call[c].to]
      BY <1>18, <1>t DEF CrawlWrite
    <2>2. call[c].to \in States /\ call[c].to # None
      BY <2>1, CallKinds DEF TypeOK, States, None
    <2>3. call'[c] = Idle /\ \A b \in Calls \ {c} : call'[b] = call[b]
      BY <2>1, OneCall, CallForms DEF Done, TypeOK
    <2>4. \A b \in Calls : call'[b] # Idle => Traced(b)'
      BY <2>1, <2>2, <2>3, <1>t, CallKinds DEF Traced, Moved, TypeOK, Held
    <2>5. \A d \in Stakes : (deleg'[d] # None => chain'[d] # None)
                           /\ (deleg'[d] \notin {None, "PENDING"} => Moved(d)')
      BY <2>1 DEF Chained, Traced, Moved, TypeOK, Held
    <2> QED BY <2>1, <2>4, <2>5 DEF Chained, Moved
  <1> QED BY <1>1, <1>2, <1>3, <1>4, <1>5, <1>6, <1>7, <1>9, <1>10, <1>11, <1>12, <1>13,
             <1>14, <1>15, <1>16, <1>17, <1>18 DEF Next, Handle, HandleUnsaved, Crawler

-----------------------------------------------------------------------------
(* The copies calls and the recalculation hold.                              *)

\* A copy that is not stale is the stored document.
FreshCopies ==
    \A c \in Calls : call[c].pc = "save" /\ ~call[c].stale =>
        call[c].saw = doc[StakerOf[call[c].d]]

\* Documents hold delegations that exist, and a recalculation has found all
\* those its document holds.
KnownDelegations ==
    \A d \in Stakes :
        /\ doc[StakerOf[d]].holds[d] # None => deleg[d] # None
        /\ recalc.pc = "save" /\ recalc.s = StakerOf[d] =>
             /\ recalc.found[d] # None => deleg[d] # None
             /\ ~recalc.stale /\ doc[recalc.s].holds[d] # None => recalc.found[d] # None

Copies == FreshCopies /\ KnownDelegations

\* What saving the document of a staker does.
LEMMA SaveEffect ==
    ASSUME TypeOK, NEW c \in Calls, SaveStaker(c), NEW s, s = StakerOfCall(c)
    PROVE  /\ call[c].pc = "save" /\ ~call[c].stale /\ call[c].d \in Stakes /\ call[c].to \in States
           /\ s = StakerOf[call[c].d] /\ s \in Stakers /\ call[c].saw \in Doc
           /\ doc'[s].holds = [call[c].saw.holds EXCEPT ![call[c].d] = call[c].to]
           /\ \A t \in Stakers \ {s} : doc'[t] = doc[t]
           /\ call'[c] = Idle
           /\ \A b \in Calls \ {c} : call'[b] = OutdateCalls(s)[b]
           /\ UNCHANGED <<deleg, hist>>
           /\ \/ recalc' = recalc /\ (recalc.pc # "idle" => recalc.s # s)
              \/ /\ recalc'.pc = recalc.pc /\ recalc'.s = s /\ recalc.s = s /\ recalc'.stale
                 /\ recalc.pc = "save" => recalc'.found = recalc.found
  <1>1. /\ call[c].pc = "save"
        /\ call[c] \in [pc : {"save"}, d : Stakes, to : States, tries : 0..(MaxTries - 1),
                       saw : Doc, stale : BOOLEAN]
    BY CallKinds DEF SaveStaker, TypeOK
  <1>2. StakerOfCall(c) = StakerOf[call[c].d] /\ StakerOfCall(c) \in Stakers
    BY <1>1, StakerAssumption DEF StakerOfCall
  <1>3. /\ doc'[StakerOfCall(c)].holds = [call[c].saw.holds EXCEPT ![call[c].d] = call[c].to]
        /\ \A t \in Stakers \ {StakerOfCall(c)} : doc'[t] = doc[t]
    BY <1>2 DEF SaveStaker, HoldsAfter, TypeOK
  <1>4. call'[c] = Idle /\ \A b \in Calls \ {c} : call'[b] = OutdateCalls(StakerOfCall(c))[b]
    BY OutdateType DEF SaveStaker, TypeOK
  <1>5. \/ recalc' = recalc /\ (recalc.pc # "idle" => recalc.s # StakerOfCall(c))
        \/ /\ recalc'.pc = recalc.pc /\ recalc'.s = StakerOfCall(c) /\ recalc.s = StakerOfCall(c) /\ recalc'.stale
           /\ recalc.pc = "save" => recalc'.found = recalc.found
    BY DEF SaveStaker, OutdateRecalc, TypeOK, RecalcType, NoRecalc
  <1> QED BY <1>1, <1>2, <1>3, <1>4, <1>5 DEF SaveStaker, Fresh, delegVars

\* What saving a recalculation does.
LEMMA RecalcEffect ==
    ASSUME TypeOK, RecalcSave, ~recalc.stale
    PROVE  /\ recalc.pc = "save" /\ recalc'.pc = "idle" /\ recalc.s \in Stakers
           /\ doc'[recalc.s].holds = recalc.found
           /\ \A t \in Stakers \ {recalc.s} : doc'[t] = doc[t]
           /\ call' = OutdateCalls(recalc.s) /\ UNCHANGED <<deleg, overtaken>>
           /\ crawled' = crawled \ {d \in Stakes :
                StakerOf[d] = recalc.s /\ recalc.found[d] = deleg[d]}
  <1>1. recalc.s \in Stakers
    BY RecalcKinds DEF RecalcSave, TypeOK
  <1>2. doc'[recalc.s].holds = recalc.found
    BY <1>1 DEF RecalcSave, TypeOK, Doc
  <1> QED BY <1>1, <1>2 DEF RecalcSave, NoRecalc, TypeOK, delegVars

\* Copies of calls that did not outdate are as fresh as they were.
LEMMA OutdatedFresh ==
    ASSUME TypeOK, FreshCopies, NEW s, NEW b \in Calls,
           \A t \in Stakers \ {s} : doc'[t] = doc[t],
           call'[b] = OutdateCalls(s)[b], call'[b].pc = "save", ~call'[b].stale
    PROVE  call'[b].saw = doc'[StakerOf[call'[b].d]]
  <1>1. /\ call[b].pc = "save" /\ ~call[b].stale /\ StakerOfCall(b) # s
        /\ call'[b].d = call[b].d /\ call'[b].saw = call[b].saw
    BY OutdateType DEF TypeOK
  <1>2. StakerOfCall(b) \in Stakers
    BY <1>1, CallKinds, StakerAssumption DEF StakerOfCall, TypeOK
  <1> QED BY <1>1, <1>2 DEF FreshCopies, StakerOfCall

LEMMA FreshStep == TypeOK /\ FreshCopies /\ [Next]_vars => FreshCopies'
  <1> SUFFICES ASSUME TypeOK, FreshCopies, [Next]_vars PROVE FreshCopies'
    OBVIOUS
  <1>one. ASSUME NEW c \in Calls, NEW r, call' = [call EXCEPT ![c] = r], r.pc # "save", UNCHANGED doc
          PROVE  FreshCopies'
    BY <1>one DEF FreshCopies, TypeOK
  <1>idle. ASSUME NEW c \in Calls, Done(c), UNCHANGED doc PROVE FreshCopies'
    <2>1. Idle.pc # "save"
      BY DEF Idle
    <2> QED BY <1>idle, <2>1, <1>one DEF Done
  <1>1. ASSUME NEW d \in Stakes, NEW m \in Moves[d], NEW c \in Handlers, Deliver(c, d, m) PROVE FreshCopies'
    BY <1>1 DEF Deliver, FreshCopies, TypeOK
  <1>2. ASSUME NEW c \in Calls, Look(c) PROVE FreshCopies'
    BY <1>2, <1>one, <1>idle, LookStep DEF Look, MayWrite, Done
  <1>3. ASSUME NEW c \in Calls, Insert(c) \/ Write(c) PROVE FreshCopies'
    <2>1. StartUpdate(c) => call' = [call EXCEPT ![c] = StartedUpdate(c)]
      BY DEF StartUpdate, StartedUpdate
    <2>2. StartedUpdate(c).pc # "save"
      BY DEF StartedUpdate
    <2> QED BY <1>3, <2>1, <2>2, <1>one, <1>idle DEF Insert, Write
  <1>4. ASSUME NEW c \in Calls, Ask(c) PROVE FreshCopies'
    BY <1>4, <1>one, <1>idle, AskStep DEF Ask, MayWrite, Done
  <1>5. ASSUME NEW c \in Calls, ReadStaker(c) PROVE FreshCopies'
    <2>1. call' = [call EXCEPT ![c] = HasRead(c)]
      BY <1>5 DEF ReadStaker, HasRead, StakerOfCall
    <2> QED BY <1>5, <2>1 DEF ReadStaker, HasRead, StakerOfCall, FreshCopies, TypeOK
  <1>6. ASSUME NEW c \in Calls, SaveStaker(c) PROVE FreshCopies'
    <2>s. PICK s : s = StakerOfCall(c)
      OBVIOUS
    <2>d. \A t \in Stakers \ {s} : doc'[t] = doc[t]
      BY <1>6, <2>s DEF SaveStaker, TypeOK
    <2>c. call'[c] = Idle
      BY <1>6, <2>s, SaveEffect
    <2>b. \A b \in Calls \ {c} : call'[b] = OutdateCalls(s)[b]
      BY <1>6, <2>s, OutdateType DEF SaveStaker, TypeOK
    <2>1. \A b \in Calls : call'[b].pc = "save" => b # c
      BY <2>c DEF Idle
    <2> QED BY <2>1, <2>b, <2>d, OutdatedFresh DEF FreshCopies
  <1>7. ASSUME NEW c \in Calls, VersionConflict(c) PROVE FreshCopies'
    <2>1. UNCHANGED doc
      BY <1>7 DEF VersionConflict
    <2>2. CASE GiveUp(c)
      BY <2>1, <2>2, <1>idle DEF GiveUp
    <2>3. CASE call' = [call EXCEPT ![c] = ReadAgain(c)]
      <3>1. ReadAgain(c).pc # "save"
        BY DEF ReadAgain
      <3> QED BY <2>1, <2>3, <3>1, <1>one
    <2> QED BY <1>7, <2>2, <2>3, VersionStep
  <1>8. ASSUME NEW c \in Calls, DuplicateStaker(c) \/ CallFails(c) PROVE FreshCopies'
    BY <1>8, <1>idle DEF DuplicateStaker, CallFails, GiveUp
  <1>9. CASE CrawlPage
    BY <1>9 DEF CrawlPage, FreshCopies
  <1>10. CASE RecalcSave
    <2>1. CASE recalc.stale
      BY <1>10, <2>1 DEF RecalcSave, FreshCopies
    <2>2. CASE ~recalc.stale
      BY <1>10, <2>2, RecalcEffect, OutdatedFresh DEF FreshCopies
    <2> QED BY <2>1, <2>2
  <1>11. CASE Crash
    BY <1>11 DEF Crash, FreshCopies, Idle
  <1>12. ASSUME UNCHANGED <<call, doc>> PROVE FreshCopies'
    BY <1>12 DEF FreshCopies
  <1>13. ASSUME NEW c \in Calls, CrawlWrite(c) PROVE FreshCopies'
    BY <1>13, <1>idle DEF CrawlWrite
  <1> QED BY <1>1, <1>2, <1>3, <1>4, <1>5, <1>6, <1>7, <1>8, <1>9, <1>10, <1>11, <1>12, <1>13
          DEF Next, Handle, HandleUnsaved, Crawler, ChainMoves, StartCrawl, CrawlPassDone, RecalcRead, RecalcFind, vars

LEMMA KnownStep == TypeOK /\ Chained /\ Copies /\ [Next]_vars => KnownDelegations'
  <1> SUFFICES ASSUME TypeOK, Chained, Copies, [Next]_vars PROVE KnownDelegations'
    OBVIOUS
  <1>k. KnownDelegations
    BY DEF Copies
  <1>1. ASSUME UNCHANGED <<doc, recalc>>, \A d \in Stakes : deleg[d] # None => deleg'[d] # None
        PROVE KnownDelegations'
    BY <1>1, <1>k DEF KnownDelegations
  <1>2. ASSUME NEW c \in Calls, Insert(c) \/ Write(c) \/ CrawlWrite(c) PROVE KnownDelegations'
    <2>1. call[c].to \in States /\ call[c].to # None /\ None # "PENDING"
      BY <1>2, CallKinds DEF Insert, Write, CrawlWrite, TypeOK, States, None
    <2>2. \A d \in Stakes : deleg[d] # None => deleg'[d] # None
      BY <1>2, <2>1 DEF Insert, Write, CrawlWrite, TypeOK, Held, delegVars
    <2> QED BY <1>1, <1>2, <2>2 DEF Insert, Write, CrawlWrite
  <1>3. ASSUME NEW c \in Calls, SaveStaker(c) PROVE KnownDelegations'
    <2> DEFINE s == StakerOfCall(c)
    <2>e. /\ call[c].pc = "save" /\ ~call[c].stale /\ call[c].d \in Stakes
          /\ s = StakerOf[call[c].d] /\ call[c].saw \in Doc
          /\ doc'[s].holds = [call[c].saw.holds EXCEPT ![call[c].d] = call[c].to]
          /\ \A t \in Stakers \ {s} : doc'[t] = doc[t]
      BY <1>3, SaveEffect
    <2>r. /\ UNCHANGED deleg
          /\ \/ recalc' = recalc /\ (recalc.pc # "idle" => recalc.s # s)
             \/ /\ recalc'.pc = recalc.pc /\ recalc'.s = s /\ recalc.s = s /\ recalc'.stale
                /\ recalc.pc = "save" => recalc'.found = recalc.found
      BY <1>3, SaveEffect
    <2>1. call[c].saw = doc[s] /\ deleg[call[c].d] # None
      BY <2>e DEF Copies, FreshCopies, Chained, Traced, Idle
    <2> HIDE DEF s
    <2>2. ASSUME NEW d \in Stakes, StakerOf[d] = s
          PROVE  doc'[s].holds[d] # None => deleg[d] # None
      <3>1. d # call[c].d => doc'[s].holds[d] = doc[s].holds[d]
        BY <2>e, <2>1 DEF Doc, Held
      <3> QED BY <1>k, <2>1, <2>2, <3>1 DEF KnownDelegations
    <2>3. \A d \in Stakes : StakerOf[d] \in Stakers
      BY StakerAssumption
    <2> SUFFICES ASSUME NEW d \in Stakes
                 PROVE  /\ doc'[StakerOf[d]].holds[d] # None => deleg[d] # None
                        /\ recalc'.pc = "save" /\ recalc'.s = StakerOf[d] =>
                             /\ recalc'.found[d] # None => deleg[d] # None
                             /\ ~recalc'.stale /\ doc'[recalc'.s].holds[d] # None => recalc'.found[d] # None
      BY <2>r DEF KnownDelegations
    <2>4. CASE StakerOf[d] = s
      BY <1>k, <2>r, <2>2, <2>4 DEF KnownDelegations
    <2>5. CASE StakerOf[d] # s
      BY <1>k, <2>e, <2>r, <2>3, <2>5 DEF KnownDelegations
    <2> QED BY <2>4, <2>5
  <1>4. ASSUME NEW s \in Stakers, RecalcRead(s) PROVE KnownDelegations'
    BY <1>4, <1>k DEF RecalcRead, KnownDelegations, delegVars
  <1>5. CASE RecalcFind
    <2>1. recalc'.pc = "save" /\ recalc'.s = recalc.s /\ recalc'.found = DelegationsOf(recalc.s)
      BY <1>5 DEF RecalcFind
    <2>2. UNCHANGED <<doc, deleg>>
      BY <1>5 DEF RecalcFind, delegVars
    <2>3. \A d \in Stakes : recalc.s = StakerOf[d] => DelegationsOf(recalc.s)[d] = deleg[d]
      BY DEF DelegationsOf
    <2> QED BY <1>k, <2>1, <2>2, <2>3 DEF KnownDelegations
  <1>6. CASE RecalcSave
    <2>1. CASE recalc.stale
      BY <1>6, <1>k, <2>1 DEF RecalcSave, NoRecalc, KnownDelegations, delegVars
    <2>2. CASE ~recalc.stale
      <3>1. \A d \in Stakes : StakerOf[d] \in Stakers
        BY StakerAssumption
      <3> QED BY <1>6, <1>k, <2>2, <3>1, RecalcEffect DEF KnownDelegations
    <2> QED BY <2>1, <2>2
  <1>7. ASSUME UNCHANGED <<doc, recalc, deleg>> PROVE KnownDelegations'
    BY <1>1, <1>7
  <1> QED BY <1>2, <1>3, <1>4, <1>5, <1>6, <1>7
          DEF Next, Handle, HandleUnsaved, Crawler, ChainMoves, Deliver, Look, Ask, ReadStaker, VersionConflict,
              DuplicateStaker, CallFails, StartCrawl, CrawlPage, CrawlPassDone, Crash, vars, delegVars

-----------------------------------------------------------------------------
(* Delegations without trouble.                                              *)

\* At most one update of d is under way, with the newest state, and none after
\* a write of the crawler alone; when none is, and the crawler was not the last
\* to write, the document has that state, and so has a recalculation about to
\* be saved.
AgreesOn(d) ==
    /\ \A b, c \in UpdatedBy(d) : b = c
    /\ \A c \in UpdatedBy(d) : call[c].to = deleg[d]
    /\ d \in crawled => UpdatedBy(d) = {}
    /\ UpdatedBy(d) = {} /\ d \notin crawled =>
         /\ doc[StakerOf[d]].holds[d] = deleg[d]
         /\ recalc.pc = "save" /\ ~recalc.stale /\ recalc.s = StakerOf[d] =>
              recalc.found[d] = deleg[d]

Agrees == \A d \in Stakes \ overtaken : AgreesOn(d)

\* Nothing that concerns d changes.
LEMMA AgreesKept ==
    ASSUME NEW d \in Stakes, AgreesOn(d), UNCHANGED <<doc, recalc>>, deleg'[d] = deleg[d],
           d \in crawled' <=> d \in crawled,
           \A b \in Calls : /\ b \in UpdatedBy(d)' <=> b \in UpdatedBy(d)
                            /\ b \in UpdatedBy(d) => call'[b].to = call[b].to
    PROVE  AgreesOn(d)'
  <1>1. UpdatedBy(d)' = UpdatedBy(d) /\ UpdatedBy(d) \subseteq Calls
    BY DEF UpdatedBy
  <1> QED BY <1>1 DEF AgreesOn

\* A call that is not updating d, before and after, changes.
LEMMA AgreesOther ==
    ASSUME TypeOK, NEW d \in Stakes, AgreesOn(d), UNCHANGED <<doc, recalc>>, deleg'[d] = deleg[d],
           NEW c \in Calls, NEW r, call' = [call EXCEPT ![c] = r],
           d \in crawled' <=> d \in crawled, c \notin UpdatedBy(d), r.pc \in {"read", "save"} => r.d # d
    PROVE  AgreesOn(d)'
  <1>1. call'[c] = r /\ \A b \in Calls \ {c} : call'[b] = call[b]
    BY DEF TypeOK
  <1>2. \A b \in Calls : /\ b \in UpdatedBy(d)' <=> b \in UpdatedBy(d)
                         /\ b \in UpdatedBy(d) => call'[b].to = call[b].to
    BY <1>1 DEF UpdatedBy, Updating
  <1> QED BY <1>2, AgreesKept

\* A call moves on with the same update, or without one.
LEMMA AgreesSame ==
    ASSUME TypeOK, Agrees, UNCHANGED <<doc, recalc, deleg, hist>>,
           NEW c \in Calls, NEW r, call' = [call EXCEPT ![c] = r],
           Updating(c) <=> r.pc \in {"read", "save"},
           Updating(c) => r.d = call[c].d /\ r.to = call[c].to
    PROVE  Agrees'
  <1>1. call'[c] = r /\ \A b \in Calls \ {c} : call'[b] = call[b]
    BY DEF TypeOK
  <1>2. ASSUME NEW d \in Stakes \ overtaken
        PROVE  \A b \in Calls : /\ b \in UpdatedBy(d)' <=> b \in UpdatedBy(d)
                                /\ b \in UpdatedBy(d) => call'[b].to = call[b].to
    BY <1>1 DEF UpdatedBy, Updating
  <1> QED BY <1>2, AgreesKept DEF Agrees, hist

LEMMA AgreesGiveUp ==
    ASSUME TypeOK, Agrees, UNCHANGED <<doc, recalc, deleg>>, NEW c \in Calls, Updating(c), GiveUp(c)
    PROVE  Agrees'
  <1>1. /\ call' = [call EXCEPT ![c] = Idle] /\ overtaken' = overtaken \cup {call[c].d}
        /\ UNCHANGED crawled
    BY DEF GiveUp, Done
  <1>2. Idle.pc \notin {"read", "save"}
    BY DEF Idle
  <1>3. \A d \in Stakes \ overtaken' : d \notin overtaken /\ c \notin UpdatedBy(d)
    BY <1>1 DEF UpdatedBy
  <1> QED BY <1>1, <1>2, <1>3, AgreesOther DEF Agrees

LEMMA AgreesStart ==
    ASSUME TypeOK, Agrees, UNCHANGED <<doc, recalc>>, NEW c \in Calls, call[c].pc = "write",
           call[c].d \in Stakes, StartUpdate(c), deleg' = [deleg EXCEPT ![call[c].d] = call[c].to]
    PROVE  Agrees'
  <1>e. PICK e : e = call[c].d
    OBVIOUS
  <1> USE <1>e
  <1>1. call' = [call EXCEPT ![c] = StartedUpdate(c)]
    BY DEF StartUpdate, StartedUpdate
  <1>2. StartedUpdate(c).pc = "read" /\ StartedUpdate(c).d = e /\ StartedUpdate(c).to = call[c].to
    BY DEF StartedUpdate
  <1>3. /\ overtaken \subseteq overtaken' /\ (UpdatedBy(e) # {} => e \in overtaken')
        /\ crawled' = crawled \ {e}
    BY DEF StartUpdate
  <1>4. ASSUME NEW d \in Stakes \ overtaken', d # e PROVE AgreesOn(d)'
    <2>1. deleg'[d] = deleg[d] /\ AgreesOn(d) /\ c \notin UpdatedBy(d)
      BY <1>3, <1>4 DEF Agrees, TypeOK, Held, UpdatedBy
    <2> QED BY <1>1, <1>2, <1>3, <1>4, <2>1, AgreesOther
  <1>5. ASSUME e \notin overtaken' PROVE AgreesOn(e)'
    <2>1. UpdatedBy(e) = {}
      BY <1>3, <1>5
    <2>2. call'[c] = StartedUpdate(c) /\ \A b \in Calls \ {c} : call'[b] = call[b]
      BY <1>1 DEF TypeOK
    <2>3. deleg'[e] = call[c].to
      BY DEF TypeOK, Held
    <2>4. UpdatedBy(e)' = {c}
      BY <2>1, <2>2, <1>2 DEF UpdatedBy, Updating
    <2> QED BY <1>2, <1>3, <2>2, <2>3, <2>4 DEF AgreesOn
  <1> QED BY <1>4, <1>5 DEF Agrees

\* The crawler writes a delegation and its call ends.
LEMMA AgreesCrawl ==
    ASSUME TypeOK, Agrees, NEW c \in Calls, CrawlWrite(c)
    PROVE  Agrees'
  <1>e. PICK e : e = call[c].d
    OBVIOUS
  <1>1. /\ UNCHANGED <<doc, recalc>> /\ call' = [call EXCEPT ![c] = Idle]
        /\ deleg' = [deleg EXCEPT ![e] = call[c].to] /\ call[c].pc = "write"
    BY <1>e DEF CrawlWrite, Done
  <1>2. e \in Stakes
    BY <1>e, <1>1, CallKinds DEF TypeOK
  <1>3. Idle.pc \notin {"read", "save"} /\ \A d : c \notin UpdatedBy(d)
    BY <1>1 DEF Idle, UpdatedBy, Updating
  <1>4. CASE deleg[e] = call[c].to
    <2>1. UNCHANGED hist /\ deleg' = deleg
      BY <1>1, <1>e, <1>4 DEF CrawlWrite, TypeOK, Held
    <2> QED BY <1>1, <1>3, <2>1, AgreesOther DEF Agrees, hist
  <1>5. CASE deleg[e] # call[c].to
    <2>1. NotTold(e)
      BY <1>e, <1>5 DEF CrawlWrite
    <2>2. /\ overtaken \subseteq overtaken' /\ crawled' \subseteq crawled \cup {e}
          /\ crawled \subseteq crawled' /\ (UpdatedBy(e) # {} => e \in overtaken')
          /\ UpdatedBy(e) = {} => e \in crawled'
      BY <2>1 DEF NotTold
    <2>3. ASSUME NEW d \in Stakes \ overtaken', d # e PROVE AgreesOn(d)'
      <3>1. deleg'[d] = deleg[d] /\ AgreesOn(d) /\ (d \in crawled' <=> d \in crawled)
        BY <1>1, <2>2, <2>3 DEF Agrees, TypeOK, Held
      <3> QED BY <1>1, <1>3, <2>3, <3>1, AgreesOther
    <2>4. ASSUME e \notin overtaken' PROVE AgreesOn(e)'
      <3>1. UpdatedBy(e) = {} /\ e \in crawled'
        BY <2>2, <2>4
      <3>2. call'[c] = Idle /\ \A b \in Calls \ {c} : call'[b] = call[b]
        BY <1>1, OneCall, CallForms DEF TypeOK
      <3>3. UpdatedBy(e)' = {}
        BY <1>3, <3>1, <3>2 DEF UpdatedBy, Updating
      <3> QED BY <3>1, <3>3 DEF AgreesOn
    <2> QED BY <2>3, <2>4 DEF Agrees
  <1> QED BY <1>4, <1>5

LEMMA AgreesSave ==
    ASSUME TypeOK, Copies, Agrees, NEW c \in Calls, SaveStaker(c)
    PROVE  Agrees'
  <1>s. PICK s : s = StakerOfCall(c)
    OBVIOUS
  <1>e. /\ call[c].pc = "save" /\ ~call[c].stale /\ call[c].d \in Stakes
        /\ s = StakerOf[call[c].d] /\ call[c].saw \in Doc
        /\ doc'[s].holds = [call[c].saw.holds EXCEPT ![call[c].d] = call[c].to]
        /\ call'[c] = Idle /\ UNCHANGED <<deleg, overtaken, crawled>>
    BY <1>s, SaveEffect DEF hist
  <1>r. \/ recalc' = recalc /\ (recalc.pc # "idle" => recalc.s # s)
        \/ recalc'.pc = recalc.pc /\ recalc'.s = s /\ recalc.s = s /\ recalc'.stale
    BY <1>s, SaveEffect
  <1>d. \A t \in Stakers \ {s} : doc'[t] = doc[t]
    BY <1>s DEF SaveStaker, TypeOK
  <1>b. \A b \in Calls \ {c} : call'[b] = OutdateCalls(s)[b]
    BY <1>s, OutdateType DEF SaveStaker, TypeOK
  <1>f. call[c].saw = doc[s]
    BY <1>e DEF Copies, FreshCopies
  <1> SUFFICES ASSUME NEW d \in Stakes \ overtaken PROVE AgreesOn(d)'
    BY <1>e DEF Agrees
  <1>a. AgreesOn(d) /\ StakerOf[d] \in Stakers
    BY StakerAssumption DEF Agrees
  <1>u. \A b \in Calls \ {c} : /\ b \in UpdatedBy(d)' <=> b \in UpdatedBy(d)
                               /\ b \in UpdatedBy(d) => call'[b].to = call[b].to
    <2> SUFFICES ASSUME NEW b \in Calls \ {c}
                 PROVE  /\ b \in UpdatedBy(d)' <=> b \in UpdatedBy(d)
                        /\ b \in UpdatedBy(d) => call'[b].to = call[b].to
      OBVIOUS
    <2>1. /\ call'[b].pc = call[b].pc
          /\ call'[b].pc # "idle" => call'[b].d = call[b].d /\ call'[b].to = call[b].to
      BY <1>b, OutdateType DEF TypeOK
    <2> QED BY <2>1 DEF UpdatedBy, Updating
  <1>c. c \notin UpdatedBy(d)'
    BY <1>e DEF UpdatedBy, Updating, Idle
  <1>1. CASE d = call[c].d
    <2>1. c \in UpdatedBy(d)
      BY <1>e, <1>1 DEF UpdatedBy, Updating
    <2>2. UpdatedBy(d)' = {}
      BY <1>a, <1>c, <1>u, <2>1 DEF AgreesOn, UpdatedBy
    <2>3. doc'[s].holds[d] = call[c].to /\ call[c].to = deleg[d]
      BY <1>a, <1>e, <1>1, <2>1 DEF AgreesOn, Doc, Held
    <2>4. recalc'.pc = "save" /\ recalc'.s = s => recalc'.stale
      BY <1>r
    <2> QED BY <1>e, <1>1, <2>2, <2>3, <2>4 DEF AgreesOn
  <1>2. CASE d # call[c].d
    <2>1. c \notin UpdatedBy(d)
      BY <1>2 DEF UpdatedBy
    <2>2. UpdatedBy(d)' = UpdatedBy(d)
      BY <1>c, <1>u, <2>1 DEF UpdatedBy
    <2>3. doc'[StakerOf[d]].holds[d] = doc[StakerOf[d]].holds[d]
      <3>1. CASE StakerOf[d] = s
        BY <1>e, <1>f, <1>2, <3>1 DEF Doc, Held
      <3>2. CASE StakerOf[d] # s
        BY <1>a, <1>d, <3>2
      <3> QED BY <3>1, <3>2
    <2>4. \A b \in UpdatedBy(d) : b \in Calls \ {c} /\ call'[b].to = call[b].to
      BY <1>u, <2>1 DEF UpdatedBy
    <2>5. recalc'.pc = "save" /\ ~recalc'.stale => recalc' = recalc
      BY <1>r
    <2> QED BY <1>a, <1>e, <2>2, <2>3, <2>4, <2>5 DEF AgreesOn
  <1> QED BY <1>1, <1>2

LEMMA AgreesRecalc ==
    ASSUME TypeOK, Agrees, RecalcSave
    PROVE  Agrees'
  <1>1. CASE recalc.stale
    <2>1. UNCHANGED <<doc, call, deleg, hist>> /\ recalc'.pc = "idle"
      BY <1>1 DEF RecalcSave, NoRecalc, delegVars, hist
    <2> QED BY <2>1 DEF Agrees, AgreesOn, UpdatedBy, Updating, hist
  <1>2. CASE ~recalc.stale
    <2>1. /\ recalc.pc = "save" /\ recalc'.pc = "idle"
          /\ doc'[recalc.s].holds = recalc.found
          /\ call' = OutdateCalls(recalc.s) /\ UNCHANGED <<deleg, overtaken>>
          /\ crawled' = crawled \ {d \in Stakes :
               StakerOf[d] = recalc.s /\ recalc.found[d] = deleg[d]}
      BY <1>2, RecalcEffect
    <2>2. \A t \in Stakers \ {recalc.s} : doc'[t] = doc[t]
      BY <1>2 DEF RecalcSave, TypeOK
    <2> SUFFICES ASSUME NEW d \in Stakes \ overtaken PROVE AgreesOn(d)'
      BY <2>1 DEF Agrees
    <2>a. AgreesOn(d) /\ StakerOf[d] \in Stakers
      BY StakerAssumption DEF Agrees
    <2>3. ASSUME NEW b \in Calls
          PROVE  /\ b \in UpdatedBy(d)' <=> b \in UpdatedBy(d)
                 /\ b \in UpdatedBy(d) => call'[b].to = call[b].to
      <3>1. /\ call'[b].pc = call[b].pc
            /\ call'[b].pc # "idle" => call'[b].d = call[b].d /\ call'[b].to = call[b].to
        BY <2>1, OutdateType DEF TypeOK
      <3> QED BY <3>1 DEF UpdatedBy, Updating
    <2>4. UpdatedBy(d)' = UpdatedBy(d) /\ UpdatedBy(d) \subseteq Calls
      BY <2>3 DEF UpdatedBy
    <2>5. UpdatedBy(d) = {} /\ d \notin crawled' => doc'[StakerOf[d]].holds[d] = deleg[d]
      BY <1>2, <2>1, <2>2, <2>a DEF AgreesOn
    <2> QED BY <2>1, <2>3, <2>4, <2>5, <2>a DEF AgreesOn
  <1> QED BY <1>1, <1>2

LEMMA AgreesStep == TypeOK /\ Chained /\ Copies /\ Agrees /\ [Next]_vars => Agrees'
  <1> SUFFICES ASSUME TypeOK, Chained, Copies, Agrees, [Next]_vars PROVE Agrees'
    OBVIOUS
  <1> USE DEF nodeVars, delegVars, crawlVars, bounds, hist
  <1>i. Idle.pc \notin {"read", "save"}
    BY DEF Idle
  <1>idle. ASSUME NEW c \in Calls, ~Updating(c), Done(c), UNCHANGED <<doc, recalc, deleg, hist>>
           PROVE  Agrees'
    BY <1>idle, <1>i, AgreesSame DEF Done
  <1>1. ASSUME NEW d \in Stakes, NEW m \in Moves[d], NEW c \in Handlers, Deliver(c, d, m) PROVE Agrees'
    <2>1. /\ c \in Calls /\ ~Updating(c) /\ UNCHANGED <<doc, recalc, deleg, hist>>
          /\ call' = [call EXCEPT ![c] = [pc |-> "look", kind |-> m.kind, d |-> d, to |-> m.to]]
      BY <1>1, <1>i DEF Deliver, Calls, Updating
    <2>2. [pc |-> "look", kind |-> m.kind, d |-> d, to |-> m.to].pc \notin {"read", "save"}
      OBVIOUS
    <2> QED BY <2>1, <2>2, AgreesSame
  <1>2. ASSUME NEW c \in Calls, Look(c) PROVE Agrees'
    <2>1. UNCHANGED <<doc, recalc, deleg, hist>> /\ ~Updating(c)
      BY <1>2 DEF Look, Updating
    <2>2. MayWrite(c, call[c].to).pc \notin {"read", "save"}
      BY DEF MayWrite
    <2> QED BY <1>2, <2>1, <2>2, <1>i, LookStep, AgreesSame
  <1>3. ASSUME NEW c \in Calls, Insert(c) PROVE Agrees'
    <2>1. CASE deleg[call[c].d] # None
      BY <1>3, <2>1, <1>idle DEF Insert, Updating
    <2>2. CASE deleg[call[c].d] = None
      <3>1. call[c].pc = "write" /\ call[c] # Idle /\ call[c].d \in Stakes /\ call[c].kind = "create"
        BY <1>3, CallKinds DEF Insert, TypeOK, Idle
      <3>2. call[c].to = "PENDING"
        BY <3>1 DEF Chained, Traced
      <3> QED BY <1>3, <2>2, <3>1, <3>2, AgreesStart DEF Insert
    <2> QED BY <2>1, <2>2
  <1>4. ASSUME NEW c \in Calls, Write(c) PROVE Agrees'
    <2>1. call[c].pc = "write" /\ call[c].d \in Stakes
      BY <1>4, CallKinds DEF Write, TypeOK
    <2> QED BY <1>4, <2>1, AgreesStart DEF Write
  <1>5. ASSUME NEW c \in Calls, Ask(c) PROVE Agrees'
    <2>1. UNCHANGED <<doc, recalc, deleg, hist>> /\ ~Updating(c)
      BY <1>5 DEF Ask, Updating
    <2>2. MayWrite(c, chain[call[c].d]).pc \notin {"read", "save"}
      BY DEF MayWrite
    <2> QED BY <1>5, <2>1, <2>2, <1>i, AskStep, AgreesSame
  <1>6. ASSUME NEW c \in Calls, ReadStaker(c) PROVE Agrees'
    <2>1. /\ UNCHANGED <<doc, recalc, deleg, hist>> /\ Updating(c)
          /\ call' = [call EXCEPT ![c] = HasRead(c)]
      BY <1>6 DEF ReadStaker, HasRead, StakerOfCall, Updating
    <2>2. HasRead(c).pc = "save" /\ HasRead(c).d = call[c].d /\ HasRead(c).to = call[c].to
      BY DEF HasRead
    <2> QED BY <2>1, <2>2, AgreesSame
  <1>7. ASSUME NEW c \in Calls, SaveStaker(c) PROVE Agrees'
    BY <1>7, AgreesSave
  <1>8. ASSUME NEW c \in Calls, VersionConflict(c) PROVE Agrees'
    <2>1. UNCHANGED <<doc, recalc, deleg>> /\ Updating(c)
      BY <1>8 DEF VersionConflict, Updating
    <2>2. CASE GiveUp(c)
      BY <2>1, <2>2, AgreesGiveUp
    <2>3. CASE call' = [call EXCEPT ![c] = ReadAgain(c)] /\ UNCHANGED hist
      <3>1. ReadAgain(c).pc = "read" /\ ReadAgain(c).d = call[c].d /\ ReadAgain(c).to = call[c].to
        BY DEF ReadAgain
      <3> QED BY <2>1, <2>3, <3>1, AgreesSame
    <2> QED BY <1>8, <2>2, <2>3, VersionStep
  <1>9. ASSUME NEW c \in Calls, DuplicateStaker(c) PROVE Agrees'
    BY <1>9, AgreesGiveUp DEF DuplicateStaker, Updating
  <1>10. ASSUME NEW c \in Calls, CallFails(c) PROVE Agrees'
    BY <1>10, AgreesGiveUp, <1>idle DEF CallFails
  <1>11. CASE CrawlPage
    <2>1. ASSUME NEW c \in Calls
          PROVE  call'[c] = call[c] \/ (call[c] = Idle /\ call'[c].pc = "ask")
      <3>1. c \in Crawls => call[c] = Idle
        BY <1>11 DEF CrawlPage, CrawlOver
      <3>2. call'[c] = call[c]
            \/ (c \in Crawls /\ call'[c] = [pc |-> "ask", kind |-> "crawl", d |-> c[2], to |-> None])
        BY <1>11 DEF CrawlPage
      <3> QED BY <3>1, <3>2
    <2>2. \A d \in Stakes : \A b \in Calls :
            /\ b \in UpdatedBy(d)' <=> b \in UpdatedBy(d)
            /\ b \in UpdatedBy(d) => call'[b].to = call[b].to
      BY <2>1, <1>i DEF UpdatedBy, Updating
    <2> QED BY <1>11, <2>2, AgreesKept DEF CrawlPage, Agrees
  <1>12. ASSUME NEW s \in Stakers, RecalcRead(s) PROVE Agrees'
    BY <1>12 DEF RecalcRead, Agrees, AgreesOn, UpdatedBy, Updating
  <1>13. CASE RecalcFind
    <2>1. /\ recalc'.s = recalc.s /\ recalc'.found = DelegationsOf(recalc.s)
          /\ UNCHANGED <<doc, call, deleg, hist>>
      BY <1>13 DEF RecalcFind
    <2>2. \A d \in Stakes : recalc.s = StakerOf[d] => DelegationsOf(recalc.s)[d] = deleg[d]
      BY DEF DelegationsOf
    <2> QED BY <2>1, <2>2 DEF Agrees, AgreesOn, UpdatedBy, Updating
  <1>14. CASE RecalcSave
    BY <1>14, AgreesRecalc
  <1>15. CASE Crash
    <2>1. /\ UNCHANGED <<doc, recalc, deleg>> /\ \A c \in Calls : call'[c] = Idle
          /\ overtaken' = overtaken \cup {d \in Stakes : UpdatedBy(d) # {}}
          /\ UNCHANGED crawled
      BY <1>15 DEF Crash
    <2>2. \A d \in Stakes : UpdatedBy(d)' = {}
      BY <2>1, <1>i DEF UpdatedBy, Updating
    <2> QED BY <2>1, <2>2 DEF Agrees, AgreesOn
  <1>16. ASSUME UNCHANGED <<doc, recalc, deleg, hist, call>> PROVE Agrees'
    BY <1>16 DEF Agrees, AgreesOn, UpdatedBy, Updating
  <1>17. ASSUME NEW c \in Calls, CrawlWrite(c) PROVE Agrees'
    BY <1>17, AgreesCrawl
  <1> QED BY <1>1, <1>2, <1>3, <1>4, <1>5, <1>6, <1>7, <1>8, <1>9, <1>10, <1>11, <1>12, <1>13,
             <1>14, <1>15, <1>16, <1>17 DEF Next, Handle, HandleUnsaved, Crawler, ChainMoves, StartCrawl, CrawlPassDone, vars

-----------------------------------------------------------------------------
(* The theorems.                                                             *)

IInv == TypeOK /\ Chained /\ Copies /\ Agrees

LEMMA InitInv == Init => IInv
  <1> SUFFICES ASSUME Init PROVE IInv
    OBVIOUS
  <1>1. Idle \in CallType /\ NoRecalc \in RecalcType /\ NoDoc \in Doc
    BY CallForms DEF RecalcType, NoDoc, Doc, Held
  <1>2. TypeOK
    <2>1. 0 \in 0..MaxDeliveries /\ 0 \in 0..MaxTrouble /\ 1 \in Nat \ {0} /\ <<>> \in Seq(Stakes)
      BY BoundAssumption
    <2> QED BY <1>1, <2>1 DEF Init, TypeOK, Held
  <1>3. \A c \in Calls : call[c] = Idle /\ Idle.pc = "idle"
    BY DEF Init, Idle
  <1>4. Chained
    BY <1>3 DEF Init, Chained, Moved
  <1>5. \A d \in Stakes : StakerOf[d] \in Stakers /\ doc[StakerOf[d]].holds[d] = None /\ deleg[d] = None
    BY StakerAssumption DEF Init, NoDoc
  <1>6. recalc.pc = "idle"
    BY DEF Init, NoRecalc
  <1>7. Copies
    BY <1>3, <1>5, <1>6 DEF Copies, FreshCopies, KnownDelegations
  <1>8. Agrees
    BY <1>3, <1>5, <1>6 DEF Agrees, AgreesOn, UpdatedBy, Updating
  <1> QED BY <1>2, <1>4, <1>7, <1>8 DEF IInv

LEMMA StepInv == IInv /\ [Next]_vars => IInv'
  BY TypeStep, ChainedStep, FreshStep, KnownStep, AgreesStep DEF IInv, Copies

\* Every variable keeps its type: no update is tried more than MaxTries times.
THEOREM TypeCorrect == Spec => []TypeOK
  <1>1. IInv => TypeOK
    BY DEF IInv
  <1> QED BY <1>1, InitInv, StepInv, PTL DEF Spec

\* The document of a staker agrees with every delegation none of whose own
\* updates is under way, was given up or was overtaken, and which no crawl has
\* changed since the last event or recalculation.
THEOREM AgreementHolds == Spec => []Agreement
  <1>1. IInv => Agreement
    BY DEF IInv, Agrees, AgreesOn, Agreement
  <1> QED BY <1>1, InitInv, StepInv, PTL DEF Spec

\* No save of a call or of a recalculation loses a delegation.
LEMMA KeepsStep ==
    IInv /\ [Next]_vars =>
        [\A d \in Stakes : doc[StakerOf[d]].holds[d] # None => doc'[StakerOf[d]].holds[d] # None]_vars
  <1> SUFFICES ASSUME TypeOK, Copies, Next, NEW d \in Stakes, doc[StakerOf[d]].holds[d] # None
               PROVE  doc'[StakerOf[d]].holds[d] # None
    BY DEF IInv
  <1>d. StakerOf[d] \in Stakers
    BY StakerAssumption
  <1>1. ASSUME NEW c \in Calls, SaveStaker(c) PROVE doc'[StakerOf[d]].holds[d] # None
    <2>s. PICK s : s = StakerOfCall(c)
      OBVIOUS
    <2>e. /\ call[c].pc = "save" /\ ~call[c].stale /\ call[c].d \in Stakes /\ call[c].to \in States
          /\ s = StakerOf[call[c].d] /\ call[c].saw \in Doc
          /\ doc'[s].holds = [call[c].saw.holds EXCEPT ![call[c].d] = call[c].to]
      BY <1>1, <2>s, SaveEffect
    <2>f. call[c].saw = doc[s]
      BY <2>e DEF Copies, FreshCopies
    <2>1. CASE StakerOf[d] = s
      BY <2>1, <2>e, <2>f DEF Doc, Held, States, None
    <2>2. CASE StakerOf[d] # s
      BY <1>1, <1>d, <2>s, <2>2 DEF SaveStaker, TypeOK
    <2> QED BY <2>1, <2>2
  <1>2. CASE RecalcSave
    <2>1. CASE recalc.stale
      BY <1>2, <2>1 DEF RecalcSave
    <2>2. CASE ~recalc.stale
      <3>1. \A t \in Stakers \ {recalc.s} : doc'[t] = doc[t]
        BY <1>2, <2>2 DEF RecalcSave, TypeOK
      <3> QED BY <1>2, <1>d, <2>2, <3>1, RecalcEffect DEF Copies, KnownDelegations
    <2> QED BY <2>1, <2>2
  <1>3. CASE UNCHANGED doc
    BY <1>3
  <1> QED BY <1>1, <1>2, <1>3
          DEF Next, Handle, HandleUnsaved, Crawler, ChainMoves, Deliver, Look, Insert, Write, CrawlWrite, Ask, ReadStaker, VersionConflict,
              DuplicateStaker, CallFails, StartCrawl, CrawlPage, CrawlPassDone, RecalcRead, RecalcFind, Crash

\* However many calls save it at once, the document of a staker never loses a
\* delegation it has.
THEOREM KeepsDelegationsHolds == Spec => KeepsDelegations
  BY InitInv, StepInv, KeepsStep, PTL DEF Spec, KeepsDelegations

LEMMA CreatedStep ==
    IInv /\ [Next]_vars =>
        [\A d \in Stakes : deleg[d] # None /\ deleg'[d] = "PENDING" => deleg[d] = "PENDING"]_vars
  <1> SUFFICES ASSUME TypeOK, Chained, Next, NEW d \in Stakes, deleg[d] # None, deleg'[d] = "PENDING"
               PROVE  deleg[d] = "PENDING"
    BY DEF IInv
  <1>1. ASSUME NEW c \in Calls, Write(c) \/ CrawlWrite(c) PROVE deleg[d] = "PENDING"
    <2>1. call[c] # Idle /\ call[c].pc = "write" /\ call[c].kind # "create"
      BY <1>1 DEF Write, CrawlWrite, Idle
    <2>2. call[c].to # "PENDING"
      BY <2>1 DEF Chained, Traced
    <2> QED BY <1>1, <2>2 DEF Write, CrawlWrite, TypeOK, Held
  <1>2. ASSUME NEW c \in Calls, Insert(c) PROVE deleg[d] = "PENDING"
    BY <1>2 DEF Insert, TypeOK, Held, delegVars
  <1>3. CASE UNCHANGED deleg
    BY <1>3
  <1> QED BY <1>1, <1>2, <1>3
          DEF Next, Handle, HandleUnsaved, Crawler, ChainMoves, Deliver, Look, Ask, ReadStaker, SaveStaker, VersionConflict,
              DuplicateStaker, CallFails, StartCrawl, CrawlPage, CrawlPassDone, RecalcRead, RecalcFind,
              RecalcSave, Crash, delegVars

\* An event that comes again, at the same time or later, never puts a
\* delegation back to PENDING.
THEOREM CreatedOnceHolds == Spec => CreatedOnce
  BY InitInv, StepInv, CreatedStep, PTL DEF Spec, CreatedOnce

-----------------------------------------------------------------------------
(* The figures beside the delegations.  What an update computes from the     *)
(* document it read follows the delegations there; what it keeps counts no   *)
(* more than the document had, which a fresh copy still has (Copies).  A     *)
(* recalculation finds every delegation among those created (AllStored).     *)

\* What a call was told when it looked: the delegation is there.
Seen ==
    \A c \in Calls :
        /\ call[c].pc = "look" => call[c].kind # "crawl"
        /\ call[c].pc = "ask" => deleg[call[c].d] # None
        /\ call[c].pc = "write" /\ call[c].kind # "create" => deleg[call[c].d] # None

\* Every delegation there is was created.
AllStored == \A d \in Stakes : deleg[d] # None => \E i \in DOMAIN stored : stored[i] = d

\* Every step of the sheets is a step of the delegations.
LEMMA SheetStepIsStep == [SheetNext]_sheetVars => [Next]_vars
  BY DEF SheetNext, sheetVars, SavesFigures, RecalcFigures, Next, Handle

\* The documents with their figures are the documents of Delegations, so
\* that what is proved of those holds of them.
THEOREM SheetsImplementDelegations == SheetSpec => Spec
  <1>1. SheetInit => Init
    BY DEF SheetInit
  <1> QED BY <1>1, SheetStepIsStep, PTL DEF SheetSpec, Spec

\* Who is there is counted without exceeding the delegations there are.
LEMMA CountsFacts ==
    ASSUME NEW h
    PROVE  /\ HowMany(h) \in Nat /\ \A t : InState(h, t) \in Nat
           /\ \A t \in States : InState(h, t) <= HowMany(h)
           /\ \A g : (\A d \in Stakes : h[d] # None => g[d] # None) => HowMany(h) <= HowMany(g)
  <1>1. ASSUME NEW P, NEW Q \in SUBSET Stakes, P \subseteq Q
        PROVE  Cardinality(P) \in Nat /\ Cardinality(P) <= Cardinality(Q)
    <2>1. IsFiniteSet(Q)
      BY RecentAssumption, FS_Subset
    <2> QED BY <1>1, <2>1, FS_Subset, FS_CardinalityType
  <1>2. HowMany(h) \in Nat /\ \A t : InState(h, t) \in Nat
    <2>1. \A P \in SUBSET Stakes : Cardinality(P) \in Nat
      BY RecentAssumption, FS_Subset, FS_CardinalityType
    <2> QED BY <2>1 DEF HowMany, InState
  <1>3. ASSUME NEW t \in States PROVE InState(h, t) <= HowMany(h)
    <2>1. {d \in Stakes : h[d] = t} \subseteq {d \in Stakes : h[d] # None}
      BY DEF States, None
    <2> QED BY <1>1, <2>1 DEF InState, HowMany
  <1>4. ASSUME NEW g, \A d \in Stakes : h[d] # None => g[d] # None
        PROVE  HowMany(h) <= HowMany(g)
    <2>1. {d \in Stakes : h[d] # None} \subseteq {d \in Stakes : g[d] # None}
      BY <1>4
    <2> QED BY <1>1, <2>1 DEF HowMany
  <1> QED BY <1>2, <1>3, <1>4

RecentOf == [d : Stakes, state : States]

\* The list r is the list old with d in its new state.
Lists(r, old, d, new) ==
    /\ \E i \in DOMAIN r : r[i].d = d
    /\ \A i \in DOMAIN r :
         IF r[i].d = d THEN r[i].state = new ELSE \E j \in DOMAIN old : r[i] = old[j]

\* The list of the recent delegations: the new one is there with its state,
\* every other entry is one of those there were.
LEMMA RecentFacts ==
    ASSUME NEW f \in Figures, NEW d \in Stakes, NEW new \in States
    PROVE  \E r \in Seq(RecentOf) :
             /\ WithRecent(f, d, new) = [f EXCEPT !.recent = r]
             /\ Lists(r, f.recent, d, new)
  <1> DEFINE old == f.recent
             x   == [d |-> d, state |-> new]
  <1>1. old \in Seq(RecentOf) /\ x \in RecentOf
    BY DEF Figures, RecentOf
  <1>2. CASE \E i \in DOMAIN old : old[i].d = d
    <2> DEFINE r == [i \in DOMAIN old |-> IF old[i].d = d THEN x ELSE old[i]]
    <2>1. WithRecent(f, d, new) = [f EXCEPT !.recent = r]
      BY <1>2 DEF WithRecent
    <2>2. r \in Seq(RecentOf)
      <3>1. Len(old) \in Nat /\ old \in [1..Len(old) -> RecentOf] /\ DOMAIN old = 1..Len(old)
        BY <1>1
      <3> HIDE DEF old, x
      <3>2. r \in [1..Len(old) -> RecentOf]
        BY <1>1, <3>1
      <3> QED BY <3>1, <3>2
    <2>3. \E i \in DOMAIN r : r[i].d = d
      BY <1>2
    <2>4. \A i \in DOMAIN r : IF r[i].d = d THEN r[i].state = new
                              ELSE \E j \in DOMAIN f.recent : r[i] = f.recent[j]
      OBVIOUS
    <2>5. Lists(r, f.recent, d, new)
      BY <2>3, <2>4 DEF Lists
    <2> HIDE DEF r
    <2> QED BY <2>1, <2>2, <2>5
  <1>3. CASE ~\E i \in DOMAIN old : old[i].d = d
    <2> DEFINE k    == IF Len(old) < RecentMax THEN Len(old) + 1 ELSE RecentMax
               both == <<x>> \o old
               r    == SubSeq(both, 1, k)
    <2>1. WithRecent(f, d, new) = [f EXCEPT !.recent = r]
      BY <1>3 DEF WithRecent
    <2>2. Len(old) \in Nat /\ k \in 1..(Len(old) + 1)
      BY <1>1, RecentAssumption
    <2>3. /\ both \in Seq(RecentOf) /\ Len(both) = Len(old) + 1 /\ both[1] = x
          /\ \A i \in 2..(Len(old) + 1) : both[i] = old[i - 1]
      <3> HIDE DEF old, x
      <3> QED BY <1>1
    <2> HIDE DEF k, both
    <2>4. r \in Seq(RecentOf) /\ DOMAIN r = 1..k /\ \A i \in 1..k : r[i] = both[i]
      BY <2>2, <2>3
    <2> HIDE DEF r
    <2>5. r[1] = x /\ 1 \in DOMAIN r
      BY <2>2, <2>3, <2>4
    <2>6. ASSUME NEW i \in DOMAIN r, i # 1 PROVE \E j \in DOMAIN old : r[i] = old[j]
      <3>1. i - 1 \in 1..Len(old) /\ i \in 2..(Len(old) + 1)
        BY <2>2, <2>4, <2>6
      <3>2. DOMAIN old = 1..Len(old)
        BY <1>1
      <3>3. r[i] = old[i - 1]
        BY <2>3, <2>4, <2>6, <3>1
      <3> QED BY <3>1, <3>2, <3>3
    <2>7. \A i \in DOMAIN r : IF r[i].d = d THEN r[i].state = new
                              ELSE \E j \in DOMAIN f.recent : r[i] = f.recent[j]
      BY <1>3, <2>5, <2>6
    <2>8. Lists(r, f.recent, d, new)
      BY <2>5, <2>7 DEF Lists
    <2> QED BY <2>1, <2>4, <2>8
  <1> QED BY <1>2, <1>3

\* So the old state that an update looks up is the new one, and what it
\* computes leaves the figures of the phase and of the provider alone.
LEMMA UpdatedFacts ==
    ASSUME NEW f \in Figures, NEW h, NEW d \in Stakes, NEW new \in States
    PROVE  LET u == Updated(f, h, d, new) IN
           /\ u \in Figures
           /\ u.total = HowMany(h) /\ u.active = InState(h, "ACTIVE")
           /\ \A t \in States \ {"EXPIRED"} : u.byState[t] = InState(h, t)
           /\ u.byState["EXPIRED"] >= InState(h, "EXPIRED")
           /\ u.phaseTotal = f.phaseTotal /\ u.phaseActive = f.phaseActive
           /\ u.providers = f.providers
           /\ Lists(u.recent, f.recent, d, new)
  <1>1. PICK r \in Seq(RecentOf) :
             /\ WithRecent(f, d, new) = [f EXCEPT !.recent = r]
             /\ Lists(r, f.recent, d, new)
    BY RecentFacts
  <1> DEFINE g == WithRecent(f, d, new)
             w == [g EXCEPT !.byState[new] = @ + 1]
             u == WithTotals(w, h)
  <1>2. /\ g \in Figures /\ g.recent = r /\ g.phaseTotal = f.phaseTotal
        /\ g.phaseActive = f.phaseActive /\ g.providers = f.providers
    BY <1>1 DEF Figures, RecentOf
  <1>3. OldState(g, d) = new
    <2>1. \E i \in DOMAIN r : r[i].d = d
      BY <1>1 DEF Lists
    <2>2. PICK i \in DOMAIN r : i = (CHOOSE k \in DOMAIN r : r[k].d = d) /\ r[i].d = d
      BY <2>1
    <2> HIDE DEF g
    <2> QED BY <1>1, <1>2, <2>1, <2>2 DEF OldState, Lists
  <1>4. new # None
    BY DEF States, None
  <1>5. WithStats(g, new, new) = w
    <2> HIDE DEF g
    <2> QED BY <1>4 DEF WithStats, Leaving, Entering, Counted
  <1>6. Updated(f, h, d, new) = u
    BY <1>3, <1>5 DEF Updated
  <1>7. /\ w \in Figures /\ w.recent = r /\ w.phaseTotal = f.phaseTotal
        /\ w.phaseActive = f.phaseActive /\ w.providers = f.providers
    <2> HIDE DEF g
    <2>1. g.byState \in [States -> Nat]
      BY <1>2 DEF Figures
    <2>2. [g.byState EXCEPT ![new] = @ + 1] \in [States -> Nat]
      <3>1. g.byState[new] + 1 \in Nat
        BY <2>1
      <3> QED BY <2>1, <3>1
    <2>3. w = [g EXCEPT !.byState = [g.byState EXCEPT ![new] = @ + 1]]
      OBVIOUS
    <2> QED BY <1>2, <2>2, <2>3 DEF Figures
  <1> HIDE DEF w
  <1>8. w.byState["EXPIRED"] \in Nat
    BY <1>7 DEF Figures, States
  <1>9. /\ u.recent = r /\ u.phaseTotal = f.phaseTotal
        /\ u.phaseActive = f.phaseActive /\ u.providers = f.providers
        /\ u.total = HowMany(h) /\ u.active = InState(h, "ACTIVE")
        /\ u.byState = [t \in States |-> InState(h, t) + (IF t = "EXPIRED" THEN w.byState[t] ELSE 0)]
    BY <1>7 DEF WithTotals, Figures
  <1>10. \A t \in States : InState(h, t) + (IF t = "EXPIRED" THEN w.byState[t] ELSE 0) \in Nat
    <2>1. \A t \in States : InState(h, t) \in Nat
      BY CountsFacts
    <2> QED BY <1>8, <2>1
  <1>11. u \in Figures
    <2>1. [t \in States |-> InState(h, t) + (IF t = "EXPIRED" THEN w.byState[t] ELSE 0)]
            \in [States -> Nat]
      BY <1>10
    <2> QED BY <1>7, <2>1, CountsFacts DEF WithTotals, Figures
  <1>12. /\ \A t \in States \ {"EXPIRED"} : u.byState[t] = InState(h, t)
         /\ u.byState["EXPIRED"] >= InState(h, "EXPIRED")
    <2>1. \A t \in States : InState(h, t) \in Nat
      BY CountsFacts
    <2>2. "EXPIRED" \in States
      BY DEF States
    <2> HIDE DEF u
    <2> QED BY <1>8, <1>9, <2>1, <2>2
  <1> HIDE DEF u
  <1> QED BY <1>1, <1>6, <1>9, <1>11, <1>12

\* The delegations h has, among the first n created.
FoundUpTo(h, n) == {j \in 1..n : h[stored[j]] # None}

\* They are numbered in the order they were created.
LEMMA NumberedFound ==
    ASSUME NEW h
    PROVE  \A n \in Nat : /\ IsFiniteSet(FoundUpTo(h, n))
                          /\ Cardinality(FoundUpTo(h, n)) \in Nat
                          /\ \A k \in 1..Cardinality(FoundUpTo(h, n)) :
                               \E i \in 1..n : /\ h[stored[i]] # None
                                               /\ Cardinality(FoundUpTo(h, i)) = k
  <1> DEFINE Number(n) == Cardinality(FoundUpTo(h, n))
             G == {n \in Nat : /\ IsFiniteSet(FoundUpTo(h, n)) /\ Number(n) \in Nat
                               /\ \A k \in 1..Number(n) :
                                    \E i \in 1..n : h[stored[i]] # None /\ Number(i) = k}
  <1>1. 0 \in G
    <2>1. FoundUpTo(h, 0) = {}
      BY DEF FoundUpTo
    <2>2. IsFiniteSet(FoundUpTo(h, 0)) /\ Number(0) = 0
      BY <2>1, FS_EmptySet
    <2> HIDE DEF Number
    <2> QED BY <2>2
  <1>2. ASSUME NEW n \in Nat, n \in G PROVE n + 1 \in G
    <2>1. CASE h[stored[n + 1]] = None
      <3>1. FoundUpTo(h, n + 1) = FoundUpTo(h, n)
        BY <2>1 DEF FoundUpTo
      <3>2. Number(n + 1) = Number(n) /\ IsFiniteSet(FoundUpTo(h, n + 1))
        BY <1>2, <3>1
      <3> HIDE DEF Number
      <3>3. \A k \in 1..Number(n + 1) : \E i \in 1..(n + 1) : h[stored[i]] # None /\ Number(i) = k
        <4>1. \A i \in 1..n : i \in 1..(n + 1)
          OBVIOUS
        <4> QED BY <1>2, <3>2, <4>1
      <3> QED BY <1>2, <3>2, <3>3
    <2>2. CASE h[stored[n + 1]] # None
      <3>1. FoundUpTo(h, n + 1) = FoundUpTo(h, n) \cup {n + 1} /\ n + 1 \notin FoundUpTo(h, n)
        BY <2>2 DEF FoundUpTo
      <3>2. Number(n + 1) = Number(n) + 1 /\ IsFiniteSet(FoundUpTo(h, n + 1))
        BY <1>2, <3>1, FS_AddElement
      <3> HIDE DEF Number
      <3>3. \A k \in 1..Number(n + 1) : \E i \in 1..(n + 1) : h[stored[i]] # None /\ Number(i) = k
        <4>1. \A i \in 1..n : i \in 1..(n + 1)
          OBVIOUS
        <4>2. \A k \in 1..Number(n + 1) : k = Number(n + 1) \/ k \in 1..Number(n)
          BY <1>2, <3>2
        <4>3. n + 1 \in 1..(n + 1)
          OBVIOUS
        <4> QED BY <1>2, <2>2, <4>1, <4>2, <4>3
      <3> QED BY <1>2, <3>2, <3>3
    <2> QED BY <2>1, <2>2
  <1>3. \A n \in Nat : n \in G
    <2> HIDE DEF G
    <2> QED BY <1>1, <1>2, NumberInduction
  <1> QED BY <1>3

\* A recalculation that finds only delegations that were created, finds as
\* many as it counts.
LEMMA NthFound ==
    ASSUME TypeOK, NEW h,
           \A d \in Stakes : h[d] # None => \E i \in DOMAIN stored : stored[i] = d
    PROVE  \A k \in 1..HowMany(h) :
             \E i \in DOMAIN stored : /\ h[stored[i]] # None
                                      /\ Cardinality(FoundUpTo(h, i)) = k
  <1> DEFINE P == {d \in Stakes : h[d] # None}
             F == FoundUpTo(h, Len(stored))
             at == [d \in P |-> CHOOSE i \in DOMAIN stored : stored[i] = d]
  <1>1. Len(stored) \in Nat /\ DOMAIN stored = 1..Len(stored)
    BY DEF TypeOK
  <1>2. \A d \in P : at[d] \in DOMAIN stored /\ stored[at[d]] = d
    OBVIOUS
  <1>3. at \in Injection(P, F)
    <2>1. \A d \in P : at[d] \in F
      BY <1>1, <1>2 DEF FoundUpTo
    <2>2. at \in [P -> F]
      BY <2>1
    <2>3. \A c, d \in P : at[c] = at[d] => c = d
      BY <1>2
    <2> HIDE DEF at, P, F
    <2> QED BY <2>2, <2>3 DEF Injection, IsInjective
  <1>4. IsFiniteSet(F) /\ Cardinality(F) \in Nat
    BY <1>1, NumberedFound
  <1>5. Cardinality(P) <= Cardinality(F)
    <2> HIDE DEF at, P, F
    <2> QED BY <1>3, <1>4, FS_Injection
  <1>6. HowMany(h) = Cardinality(P) /\ HowMany(h) \in Nat
    BY CountsFacts DEF HowMany
  <1>7. \A k \in 1..HowMany(h) : k \in 1..Cardinality(F)
    <2> HIDE DEF P, F
    <2> QED BY <1>4, <1>5, <1>6
  <1>8. ASSUME NEW k \in 1..HowMany(h)
        PROVE  \E i \in DOMAIN stored : /\ h[stored[i]] # None
                                         /\ Cardinality(FoundUpTo(h, i)) = k
    <2>1. k \in 1..Cardinality(F)
      BY <1>7
    <2>2. \E i \in 1..Len(stored) : /\ h[stored[i]] # None
                                     /\ Cardinality(FoundUpTo(h, i)) = k
      BY <1>1, <2>1, NumberedFound
    <2> QED BY <1>1, <2>2
  <1> QED BY <1>8

\* What a recalculation stores.
LEMMA RecalculatedFacts ==
    ASSUME TypeOK, NEW h \in Held,
           \A d \in Stakes : h[d] # None => \E i \in DOMAIN stored : stored[i] = d
    PROVE  LET u == Recalculated(h) IN
           /\ u \in Figures
           /\ u.total = HowMany(h) /\ u.active = InState(h, "ACTIVE")
           /\ \A t \in States : u.byState[t] = InState(h, t)
           /\ u.phaseTotal = HowMany(h) /\ u.phaseActive = InState(h, "ACTIVE")
           /\ u.providers = InState(h, "ACTIVE")
           /\ \A i \in DOMAIN u.recent : u.recent[i].state = h[u.recent[i].d]
  <1> DEFINE Found(i) == h[stored[i]] # None
             Nth(n) == CHOOSE i \in DOMAIN stored : Found(i) /\ Cardinality({j \in 1..i : Found(j)}) = n
             most == IF HowMany(h) < RecentMax THEN HowMany(h) ELSE RecentMax
             list == [n \in 1..most |-> [d |-> stored[Nth(n)], state |-> h[stored[Nth(n)]]]]
             counts == [t \in States |-> InState(h, t)]
             u == [recent |-> list, total |-> HowMany(h), active |-> InState(h, "ACTIVE"),
                   byState |-> counts, phaseTotal |-> HowMany(h),
                   phaseActive |-> InState(h, "ACTIVE"), providers |-> InState(h, "ACTIVE")]
  <1>1. Recalculated(h) = u
    <2>1. Recalculated(h) =
            [NewSheet EXCEPT
               !.recent = list, !.total = HowMany(h), !.active = InState(h, "ACTIVE"),
               !.byState = counts, !.phaseTotal = HowMany(h),
               !.phaseActive = InState(h, "ACTIVE"), !.providers = InState(h, "ACTIVE")]
      BY DEF Recalculated
    <2> HIDE DEF list, counts
    <2> QED BY <2>1 DEF NewSheet
  <1>2. most \in Nat /\ most <= HowMany(h)
    BY CountsFacts, RecentAssumption
  <1>3. ASSUME NEW n \in 1..most PROVE Nth(n) \in DOMAIN stored /\ Found(Nth(n))
    <2>1. n \in 1..HowMany(h)
      <3> HIDE DEF most
      <3> QED BY <1>2, CountsFacts
    <2>2. PICK i \in DOMAIN stored : Found(i) /\ Cardinality(FoundUpTo(h, i)) = n
      BY <2>1, NthFound
    <2>3. Found(i) /\ Cardinality({j \in 1..i : Found(j)}) = n
      BY <2>2 DEF FoundUpTo
    <2> QED BY <2>3
  <1>4. ASSUME NEW n \in 1..most PROVE list[n] \in RecentOf /\ list[n].state = h[list[n].d]
    <2>1. stored[Nth(n)] \in Stakes /\ h[stored[Nth(n)]] # None
      <3>1. Nth(n) \in DOMAIN stored /\ Found(Nth(n))
        BY <1>3
      <3> HIDE DEF Nth
      <3> QED BY <3>1 DEF TypeOK
    <2>2. h[stored[Nth(n)]] \in States
      BY <2>1 DEF Held
    <2> HIDE DEF Nth, most
    <2> QED BY <2>1, <2>2 DEF RecentOf
  <1> HIDE DEF Nth, most
  <1>5. list \in [1..most -> RecentOf] /\ DOMAIN list = 1..most
    <2>1. \A n \in 1..most : list[n] \in RecentOf
      BY <1>4
    <2> QED BY <2>1
  <1> HIDE DEF list
  <1>6. list \in Seq(RecentOf)
    BY <1>2, <1>5
  <1>7. counts \in [States -> Nat]
    BY CountsFacts
  <1>8. u \in Figures
    <2> HIDE DEF counts
    <2> QED BY <1>6, <1>7, CountsFacts DEF Figures, RecentOf
  <1> QED BY <1>1, <1>4, <1>5, <1>8

\* A recalculation has found only delegations there are.
FoundAreThere ==
    recalc.pc = "save" => \A d \in Stakes : recalc.found[d] # None => deleg[d] # None

\* A delegation that is there stays, and is among those created.
LEMMA StoredStep ==
    TypeOK /\ Seen /\ AllStored /\ [Next]_vars =>
        AllStored' /\ \A d \in Stakes : deleg[d] # None => deleg'[d] # None
  <1> SUFFICES ASSUME TypeOK, Seen, AllStored, [Next]_vars
               PROVE  AllStored' /\ \A d \in Stakes : deleg[d] # None => deleg'[d] # None
    OBVIOUS
  <1>0. stored \in Seq(Stakes) /\ deleg \in Held
    BY DEF TypeOK
  <1>1. ASSUME NEW c \in Calls, Insert(c)
        PROVE  AllStored' /\ \A d \in Stakes : deleg[d] # None => deleg'[d] # None
    <2>1. CASE deleg[call[c].d] = None
      <3>1. /\ deleg' = [deleg EXCEPT ![call[c].d] = "PENDING"]
            /\ stored' = Append(stored, call[c].d) /\ call[c].d \in Stakes
        BY <1>1, <2>1, CallKinds DEF Insert, TypeOK
      <3>2. /\ Len(stored) \in Nat /\ DOMAIN stored = 1..Len(stored)
            /\ DOMAIN stored' = 1..(Len(stored) + 1)
            /\ stored'[Len(stored) + 1] = call[c].d
            /\ \A i \in DOMAIN stored : stored'[i] = stored[i]
        BY <1>0, <3>1
      <3>3. /\ Len(stored) + 1 \in DOMAIN stored' /\ DOMAIN stored \subseteq DOMAIN stored'
        BY <3>2
      <3>4. \A d \in Stakes \ {call[c].d} : deleg'[d] = deleg[d]
        BY <1>0, <3>1 DEF Held
      <3>5. deleg'[call[c].d] # None
        BY <1>0, <3>1 DEF Held, None
      <3>6. AllStored'
        BY <3>2, <3>3, <3>4 DEF AllStored
      <3> QED BY <3>4, <3>5, <3>6
    <2>2. CASE deleg[call[c].d] # None
      BY <1>1, <2>2 DEF Insert, delegVars, AllStored
    <2> QED BY <2>1, <2>2
  <1>2. ASSUME NEW c \in Calls, Write(c) \/ CrawlWrite(c)
        PROVE  AllStored' /\ \A d \in Stakes : deleg[d] # None => deleg'[d] # None
    <2>1. /\ deleg' = [deleg EXCEPT ![call[c].d] = call[c].to] /\ stored' = stored
          /\ deleg[call[c].d] # None
      BY <1>2 DEF Write, CrawlWrite, Seen
    <2>2. call[c].d \in Stakes /\ call[c].to # None
      BY <1>2, CallKinds DEF Write, CrawlWrite, TypeOK, States, None
    <2>3. \A d \in Stakes \ {call[c].d} : deleg'[d] = deleg[d]
      BY <1>0, <2>1 DEF Held
    <2>4. deleg'[call[c].d] # None
      BY <1>0, <2>1, <2>2 DEF Held
    <2> QED BY <2>1, <2>2, <2>3, <2>4 DEF AllStored
  <1>3. CASE UNCHANGED <<deleg, stored>>
    BY <1>3 DEF AllStored
  <1> QED BY <1>1, <1>2, <1>3
          DEF Next, Handle, HandleUnsaved, Crawler, ChainMoves, Deliver, Look, Ask, ReadStaker, SaveStaker, VersionConflict,
              DuplicateStaker, CallFails, StartCrawl, CrawlPage, CrawlPassDone, RecalcRead, RecalcFind,
              RecalcSave, Crash, delegVars, vars

\* A call that goes on with what it was told, or with something seen now.
LEMMA SeenCalls ==
    ASSUME Seen, \A d \in Stakes : deleg[d] # None => deleg'[d] # None, call \in [Calls -> CallType],
           \A c \in Calls :
             \/ call'[c] = call[c]
             \/ call'[c].pc \in {"idle", "read", "save"}
             \/ call'[c].pc = "look" /\ call'[c].kind # "crawl"
             \/ /\ call'[c].pc \in {"write", "ask"} /\ call'[c].d \in Stakes
                /\ deleg[call'[c].d] # None
             \/ call'[c].pc = "write" /\ call'[c].kind = "create"
    PROVE  Seen'
  <1> SUFFICES ASSUME NEW c \in Calls
               PROVE  /\ call'[c].pc = "look" => call'[c].kind # "crawl"
                      /\ call'[c].pc = "ask" => deleg'[call'[c].d] # None
                      /\ call'[c].pc = "write" /\ call'[c].kind # "create" => deleg'[call'[c].d] # None
    BY DEF Seen
  <1>1. CASE call'[c] = call[c]
    <2>1. call[c].pc \in {"ask", "write"} => call[c].d \in Stakes
      BY CallKinds
    <2> QED BY <1>1, <2>1 DEF Seen
  <1> QED BY <1>1

LEMMA SeenStep == TypeOK /\ Seen /\ AllStored /\ [Next]_vars => Seen'
  <1> SUFFICES ASSUME TypeOK, Seen, AllStored, [Next]_vars PROVE Seen'
    OBVIOUS
  <1>t. call \in [Calls -> CallType] /\ \A d \in Stakes : deleg[d] # None => deleg'[d] # None
    BY StoredStep DEF TypeOK
  <1>o. ASSUME NEW c \in Calls, NEW r, call' = [call EXCEPT ![c] = r],
               \/ r.pc \in {"idle", "read", "save"}
               \/ r.pc = "look" /\ r.kind # "crawl"
               \/ r.pc \in {"write", "ask"} /\ r.d \in Stakes /\ deleg[r.d] # None
               \/ r.pc = "write" /\ r.kind = "create"
        PROVE  Seen'
    <2>1. \A b \in Calls : call'[b] = call[b] \/ call'[b] = r
      BY <1>t, <1>o
    <2> QED BY <1>t, <1>o, <2>1, SeenCalls
  <1>1. ASSUME NEW d \in Stakes, NEW m \in Moves[d], NEW c \in Handlers, Deliver(c, d, m) PROVE Seen'
    <2>1. call' = [call EXCEPT ![c] = [pc |-> "look", kind |-> m.kind, d |-> d, to |-> m.to]]
      BY <1>1 DEF Deliver
    <2>2. m.kind # "crawl"
      BY MoveAssumption
    <2> QED BY <1>o, <2>1, <2>2 DEF Calls
  <1>2. ASSUME NEW c \in Calls, Look(c) PROVE Seen'
    <2>1. CASE Wanted(call[c].kind, deleg[call[c].d])
      <3>1. call[c].pc = "look" /\ call' = [call EXCEPT ![c].pc = "write"]
        BY <1>2, <2>1 DEF Look
      <3>2. call[c] \in [pc : {"look", "write"}, kind : Kinds, d : Stakes, to : States]
        BY <1>t, <3>1, CallKinds
      <3>r. [call[c] EXCEPT !.pc = "write"] = MayWrite(c, call[c].to)
        BY <3>2 DEF MayWrite
      <3>3. /\ call' = [call EXCEPT ![c] = MayWrite(c, call[c].to)]
            /\ call[c].d \in Stakes /\ call[c].kind \in {"create", "quorum", "update"}
        <4>1. call[c].kind # "crawl"
          BY <3>1 DEF Seen
        <4> QED BY <3>1, <3>2, <3>r, <4>1 DEF Kinds
      <3>4. call[c].kind # "create" => deleg[call[c].d] # None
        BY <2>1, <3>3 DEF Wanted, None
      <3> QED BY <1>o, <3>3, <3>4 DEF MayWrite
    <2>2. CASE ~Wanted(call[c].kind, deleg[call[c].d])
      BY <1>2, <1>o, <2>2 DEF Look, Done, Idle
    <2> QED BY <2>1, <2>2
  <1>3. ASSUME NEW c \in Calls, Ask(c) PROVE Seen'
    <2>1. call[c].pc = "ask" /\ call[c].d \in Stakes /\ deleg[call[c].d] # None
      BY <1>3, <1>t, CallKinds DEF Ask, Seen
    <2> QED BY <1>3, <1>o, <2>1 DEF Ask, Done, Idle
  <1>4. ASSUME NEW c \in Calls, Insert(c) \/ Write(c) \/ CrawlWrite(c) PROVE Seen'
    <2>1. \/ call' = [call EXCEPT ![c] = Idle]
          \/ \E r : call' = [call EXCEPT ![c] = r] /\ r.pc = "read"
      BY <1>4 DEF Insert, Write, CrawlWrite, StartUpdate, Done
    <2> QED BY <1>o, <2>1 DEF Idle
  <1>5. ASSUME NEW c \in Calls, ReadStaker(c) \/ VersionConflict(c) \/ DuplicateStaker(c) PROVE Seen'
    <2>1. \/ call' = [call EXCEPT ![c] = Idle]
          \/ \E r : call' = [call EXCEPT ![c] = r] /\ r.pc \in {"read", "save"}
      BY <1>5 DEF ReadStaker, VersionConflict, DuplicateStaker, GiveUp, Done
    <2> QED BY <1>o, <2>1 DEF Idle
  <1>6. ASSUME NEW c \in Calls, CallFails(c) PROVE Seen'
    BY <1>6, <1>o DEF CallFails, GiveUp, Done, Idle
  <1>7. ASSUME NEW s, NEW b \in Calls PROVE \/ OutdateCalls(s)[b] = call[b]
                                            \/ OutdateCalls(s)[b].pc = "save"
    <2>1. CASE call[b].pc = "save" /\ StakerOfCall(b) = s
      <3>1. OutdateCalls(s)[b] = [call[b] EXCEPT !.stale = TRUE]
        BY <2>1 DEF OutdateCalls
      <3>2. call[b] \in [pc : {"save"}, d : Stakes, to : States, tries : 0..(MaxTries - 1),
                         saw : Doc, stale : BOOLEAN]
        BY <1>t, <2>1, CallKinds
      <3> QED BY <3>1, <3>2
    <2> QED BY <2>1 DEF OutdateCalls
  <1>8. ASSUME NEW c \in Calls, SaveStaker(c) PROVE Seen'
    <2>1. call' = [OutdateCalls(StakerOfCall(c)) EXCEPT ![c] = Idle]
      BY <1>8 DEF SaveStaker
    <2>2. \A b \in Calls : call'[b] = Idle \/ call'[b] = OutdateCalls(StakerOfCall(c))[b]
      BY <2>1 DEF OutdateCalls
    <2> QED BY <1>7, <1>t, <2>2, SeenCalls DEF Idle
  <1>9. CASE RecalcSave
    BY <1>7, <1>9, <1>t, SeenCalls DEF RecalcSave
  <1>10. CASE CrawlPage
    <2> DEFINE asks(b) == [pc |-> "ask", kind |-> "crawl", d |-> b[2], to |-> None]
    <2>a. \A b : asks(b).pc = "ask" /\ asks(b).d = b[2]
      OBVIOUS
    <2>1. \A b \in Calls : call'[b] = call[b] \/ (b[2] \in PageOf(crawl) /\ call'[b] = asks(b))
      BY <1>10 DEF CrawlPage
    <2> HIDE DEF asks
    <2>2. crawl # None
      BY <1>10 DEF CrawlPage
    <2>3. \A b \in Calls : b[2] \in PageOf(crawl) => b[2] \in Stakes /\ deleg[b[2]] # None
      BY <2>2, OnPage
    <2>4. \A b \in Calls :
            \/ call'[b] = call[b]
            \/ call'[b].pc = "ask" /\ call'[b].d \in Stakes /\ deleg[call'[b].d] # None
      <3>1. ASSUME NEW b \in Calls, call'[b] # call[b]
            PROVE  call'[b].pc = "ask" /\ call'[b].d = b[2] /\ b[2] \in PageOf(crawl)
        BY <2>a, <2>1, <3>1
      <3> QED BY <2>3, <3>1
    <2> QED BY <1>t, <2>4, SeenCalls
  <1>11. CASE Crash
    BY <1>11, <1>t, SeenCalls DEF Crash, Idle
  <1>12. CASE UNCHANGED call
    BY <1>12, <1>t, SeenCalls
  <1> QED BY <1>1, <1>2, <1>3, <1>4, <1>5, <1>6, <1>8, <1>9, <1>10, <1>11, <1>12
          DEF Next, Handle, HandleUnsaved, Crawler, ChainMoves, StartCrawl, CrawlPassDone, RecalcRead, RecalcFind, vars

LEMMA FoundStep == TypeOK /\ Seen /\ AllStored /\ FoundAreThere /\ [Next]_vars => FoundAreThere'
  <1> SUFFICES ASSUME TypeOK, Seen, AllStored, FoundAreThere, [Next]_vars, recalc'.pc = "save",
                      NEW d \in Stakes, recalc'.found[d] # None
               PROVE  deleg'[d] # None
    BY DEF FoundAreThere
  <1>t. deleg[d] # None => deleg'[d] # None
    BY StoredStep
  <1>1. CASE RecalcFind
    <2>1. recalc'.found = DelegationsOf(recalc.s)
      BY <1>1 DEF RecalcFind
    <2> QED BY <1>t, <2>1 DEF DelegationsOf
  <1>2. CASE recalc.pc = "save" /\ recalc'.found = recalc.found
    BY <1>2, <1>t DEF FoundAreThere
  <1>3. ASSUME NEW c \in Calls, SaveStaker(c) PROVE recalc.pc = "save" /\ recalc'.found = recalc.found
    BY <1>3, SaveEffect
  <1>4. ASSUME NEW s, RecalcRead(s) PROVE FALSE
    BY <1>4 DEF RecalcRead
  <1>5. CASE RecalcSave
    BY <1>5 DEF RecalcSave, NoRecalc
  <1>6. CASE UNCHANGED recalc
    BY <1>2, <1>6
  <1> QED BY <1>1, <1>2, <1>3, <1>4, <1>5, <1>6
          DEF Next, Handle, HandleUnsaved, Crawler, ChainMoves, Deliver, Look, Insert, Write, CrawlWrite, Ask, ReadStaker, VersionConflict,
              DuplicateStaker, CallFails, StartCrawl, CrawlPage, CrawlPassDone, Crash, vars

FigureInv ==
    /\ IInv /\ Seen /\ AllStored /\ FoundAreThere
    /\ sheet \in [Stakers -> Figures] /\ FiguresHold

\* What the figures of one document say of the delegations it holds.
FiguresOf(f, h) ==
    /\ f.total = HowMany(h) /\ f.active = InState(h, "ACTIVE")
    /\ \A t \in States \ {"EXPIRED"} : f.byState[t] = InState(h, t)
    /\ f.byState["EXPIRED"] >= InState(h, "EXPIRED")
    /\ f.phaseTotal <= f.total /\ f.phaseActive <= f.phaseTotal
    /\ f.providers <= f.total
    /\ \A i \in DOMAIN f.recent : f.recent[i].state = h[f.recent[i].d]

\* An update of the document it read keeps them.
LEMMA UpdatedHold ==
    ASSUME NEW f \in Figures, NEW h \in Held, NEW d \in Stakes, NEW new \in States, FiguresOf(f, h)
    PROVE  LET g == [h EXCEPT ![d] = new]
           IN  Updated(f, g, d, new) \in Figures /\ FiguresOf(Updated(f, g, d, new), g)
  <1> DEFINE g == [h EXCEPT ![d] = new]
             u == Updated(f, g, d, new)
  <1>1. /\ u \in Figures
        /\ u.total = HowMany(g) /\ u.active = InState(g, "ACTIVE")
        /\ \A t \in States \ {"EXPIRED"} : u.byState[t] = InState(g, t)
        /\ u.byState["EXPIRED"] >= InState(g, "EXPIRED")
        /\ u.phaseTotal = f.phaseTotal /\ u.phaseActive = f.phaseActive
        /\ u.providers = f.providers
        /\ Lists(u.recent, f.recent, d, new)
    <2> HIDE DEF g
    <2> QED BY UpdatedFacts
  <1>2. g[d] = new /\ \A e \in Stakes \ {d} : g[e] = h[e]
    BY DEF Held
  <1>3. new # None
    BY DEF States, None
  <1> HIDE DEF u, g
  <1>4. HowMany(h) <= HowMany(g) /\ HowMany(h) \in Nat /\ HowMany(g) \in Nat
    BY <1>2, <1>3, CountsFacts
  <1>5. ASSUME NEW i \in DOMAIN u.recent PROVE u.recent[i].state = g[u.recent[i].d]
    <2>1. CASE u.recent[i].d = d
      BY <1>1, <1>2, <2>1 DEF Lists
    <2>2. CASE u.recent[i].d # d
      <3>1. PICK j \in DOMAIN f.recent : u.recent[i] = f.recent[j]
        BY <1>1, <2>2 DEF Lists
      <3>2. f.recent \in Seq(RecentOf)
        BY DEF Figures, RecentOf
      <3>3. f.recent[j].d \in Stakes
        <4>1. f.recent[j] \in RecentOf
          BY <3>2
        <4> QED BY <4>1 DEF RecentOf
      <3>4. f.recent[j].state = h[f.recent[j].d]
        BY DEF FiguresOf
      <3> QED BY <1>2, <2>2, <3>1, <3>3, <3>4
    <2> QED BY <2>1, <2>2
  <1>6. f.phaseTotal \in Nat /\ f.phaseActive \in Nat /\ f.providers \in Nat /\ f.total \in Nat
    BY DEF Figures
  <1>7. f.total = HowMany(h) /\ f.phaseTotal <= f.total /\ f.phaseActive <= f.phaseTotal
        /\ f.providers <= f.total
    BY DEF FiguresOf
  <1>8. u.phaseTotal <= u.total /\ u.phaseActive <= u.phaseTotal /\ u.providers <= u.total
    BY <1>1, <1>4, <1>6, <1>7
  <1> QED BY <1>1, <1>5, <1>8 DEF FiguresOf, g, u

\* A recalculation brings them about.
LEMMA RecalculatedHold ==
    ASSUME TypeOK, NEW h \in Held,
           \A d \in Stakes : h[d] # None => \E i \in DOMAIN stored : stored[i] = d
    PROVE  Recalculated(h) \in Figures /\ FiguresOf(Recalculated(h), h)
  <1> DEFINE u == Recalculated(h)
  <1>1. /\ u \in Figures
        /\ u.total = HowMany(h) /\ u.active = InState(h, "ACTIVE")
        /\ \A t \in States : u.byState[t] = InState(h, t)
        /\ u.phaseTotal = HowMany(h) /\ u.phaseActive = InState(h, "ACTIVE")
        /\ u.providers = InState(h, "ACTIVE")
        /\ \A i \in DOMAIN u.recent : u.recent[i].state = h[u.recent[i].d]
    BY RecalculatedFacts
  <1>2. "ACTIVE" \in States /\ "EXPIRED" \in States
    BY DEF States
  <1>3. HowMany(h) \in Nat /\ InState(h, "ACTIVE") <= HowMany(h)
        /\ InState(h, "ACTIVE") \in Nat /\ InState(h, "EXPIRED") \in Nat
    BY <1>2, CountsFacts
  <1> HIDE DEF u
  <1> QED BY <1>1, <1>2, <1>3 DEF FiguresOf, u

LEMMA FiguresStep == FigureInv /\ [SheetNext]_sheetVars => FigureInv'
  <1> SUFFICES ASSUME FigureInv, [SheetNext]_sheetVars PROVE FigureInv'
    OBVIOUS
  <1>1. [Next]_vars
    BY SheetStepIsStep
  <1>2. (IInv /\ Seen /\ AllStored /\ FoundAreThere)'
    BY <1>1, StepInv, SeenStep, StoredStep, FoundStep DEF FigureInv, IInv
  <1>t. /\ TypeOK /\ FreshCopies /\ sheet \in [Stakers -> Figures] /\ doc \in [Stakers -> Doc]
        /\ \A s \in Stakers : FiguresOf(sheet[s], doc[s].holds)
    BY DEF FigureInv, IInv, Copies, FiguresHold, FiguresOf, TypeOK
  <1>3. ASSUME NEW s \in Stakers, NEW u \in Figures, sheet' = [sheet EXCEPT ![s] = u],
               FiguresOf(u, doc'[s].holds), \A t \in Stakers \ {s} : doc'[t] = doc[t]
        PROVE  FigureInv'
    <2>1. sheet' \in [Stakers -> Figures]
      BY <1>t, <1>3
    <2>2. \A t \in Stakers : FiguresOf(sheet'[t], doc'[t].holds)
      BY <1>t, <1>3
    <2>3. FiguresHold'
      BY <2>2 DEF FiguresHold, FiguresOf, HowMany, InState
    <2> QED BY <1>2, <2>1, <2>3 DEF FigureInv
  <1>4. ASSUME UNCHANGED sheet, \A t \in Stakers : doc'[t].holds = doc[t].holds PROVE FigureInv'
    <2>1. \A t \in Stakers : FiguresOf(sheet'[t], doc'[t].holds)
      BY <1>t, <1>4
    <2>2. FiguresHold'
      BY <2>1 DEF FiguresHold, FiguresOf, HowMany, InState
    <2> QED BY <1>2, <1>4, <2>2, <1>t DEF FigureInv
  <1>5. ASSUME NEW c \in Calls, SavesFigures(c) PROVE FigureInv'
    <2> DEFINE s == StakerOfCall(c)
    <2>1. SaveStaker(c)
      BY <1>5 DEF SavesFigures
    <2>2. /\ call[c].pc = "save" /\ ~call[c].stale /\ call[c].d \in Stakes /\ call[c].to \in States
          /\ s = StakerOf[call[c].d] /\ s \in Stakers
          /\ doc'[s].holds = [call[c].saw.holds EXCEPT ![call[c].d] = call[c].to]
          /\ \A t \in Stakers \ {s} : doc'[t] = doc[t]
      BY <1>t, <2>1, SaveEffect
    <2>3. call[c].saw = doc[s]
      BY <1>t, <2>2 DEF FreshCopies
    <2>4. sheet' = [sheet EXCEPT ![s] = Updated(sheet[s], HoldsAfter(c), call[c].d, call[c].to)]
      BY <1>5 DEF SavesFigures
    <2>5. HoldsAfter(c) = [doc[s].holds EXCEPT ![call[c].d] = call[c].to]
      BY <2>3 DEF HoldsAfter
    <2> HIDE DEF s
    <2>6. sheet[s] \in Figures /\ doc[s].holds \in Held /\ FiguresOf(sheet[s], doc[s].holds)
      BY <1>t, <2>2 DEF Doc
    <2>7. /\ Updated(sheet[s], HoldsAfter(c), call[c].d, call[c].to) \in Figures
          /\ FiguresOf(Updated(sheet[s], HoldsAfter(c), call[c].d, call[c].to), HoldsAfter(c))
      BY <2>2, <2>5, <2>6, UpdatedHold
    <2>8. doc'[s].holds = HoldsAfter(c)
      BY <2>2, <2>3, <2>5
    <2> QED BY <1>3, <2>2, <2>4, <2>7, <2>8
  <1>6. CASE RecalcFigures
    <2>1. CASE recalc.stale
      <3>1. UNCHANGED <<sheet, doc>>
        BY <1>6, <2>1 DEF RecalcFigures, RecalcSave
      <3> QED BY <1>4, <3>1
    <2>2. CASE ~recalc.stale
      <3>1. /\ recalc.pc = "save" /\ recalc.s \in Stakers
            /\ doc'[recalc.s].holds = recalc.found
            /\ \A t \in Stakers \ {recalc.s} : doc'[t] = doc[t]
            /\ sheet' = [sheet EXCEPT ![recalc.s] = Recalculated(recalc.found)]
        BY <1>6, <1>t, <2>2, RecalcEffect DEF RecalcFigures
      <3>2. recalc.found \in Held
        BY <1>t, <3>1, RecalcKinds DEF TypeOK
      <3>3. \A d \in Stakes : recalc.found[d] # None => \E i \in DOMAIN stored : stored[i] = d
        BY <3>1 DEF FigureInv, FoundAreThere, AllStored
      <3>4. Recalculated(recalc.found) \in Figures
            /\ FiguresOf(Recalculated(recalc.found), recalc.found)
        BY <1>t, <3>2, <3>3, RecalculatedHold
      <3> QED BY <1>3, <3>1, <3>4
    <2> QED BY <2>1, <2>2
  <1>7. CASE UNCHANGED <<sheet, doc>>
    BY <1>4, <1>7
  <1> QED BY <1>5, <1>6, <1>7
          DEF SheetNext, sheetVars, vars, HandleUnsaved, Crawler, ChainMoves, Deliver, Look, Insert, Write, CrawlWrite, Ask,
              ReadStaker, VersionConflict, DuplicateStaker, CallFails, StartCrawl, CrawlPage, CrawlPassDone,
              RecalcRead, RecalcFind, Crash

LEMMA FiguresInit == SheetInit => FigureInv
  <1> SUFFICES ASSUME SheetInit PROVE FigureInv
    OBVIOUS
  <1>1. Init /\ IInv
    BY InitInv DEF SheetInit
  <1>2. /\ deleg = [d \in Stakes |-> None] /\ recalc.pc = "idle"
        /\ \A c \in Calls : call[c].pc = "idle"
    BY <1>1 DEF Init, Idle, NoRecalc
  <1>3. Seen /\ AllStored /\ FoundAreThere
    BY <1>2 DEF Seen, AllStored, FoundAreThere
  <1>4. NewSheet \in Figures
    BY DEF NewSheet, Figures
  <1>5. sheet = [s \in Stakers |-> NewSheet]
    BY DEF SheetInit
  <1>6. \A s \in Stakers : doc[s].holds = [d \in Stakes |-> None]
    BY <1>1 DEF Init, NoDoc
  <1>7. ASSUME NEW h, h = [d \in Stakes |-> None]
        PROVE  HowMany(h) = 0 /\ \A t \in States : InState(h, t) = 0
    <2>1. {d \in Stakes : h[d] # None} = {}
      BY <1>7
    <2>2. \A t \in States : {d \in Stakes : h[d] = t} = {}
      BY <1>7 DEF States, None
    <2> QED BY <2>1, <2>2, FS_EmptySet DEF HowMany, InState
  <1>8. FiguresHold
    <2>1. NewSheet.recent = <<>> /\ NewSheet.total = 0 /\ NewSheet.active = 0
          /\ (\A t \in States : NewSheet.byState[t] = 0) /\ NewSheet.phaseTotal = 0
          /\ NewSheet.phaseActive = 0 /\ NewSheet.providers = 0
      BY DEF NewSheet
    <2>2. "ACTIVE" \in States /\ "EXPIRED" \in States
      BY DEF States
    <2>3. DOMAIN NewSheet.recent = {}
      BY <2>1
    <2> QED BY <1>5, <1>6, <1>7, <2>1, <2>2, <2>3 DEF FiguresHold
  <1> QED BY <1>1, <1>3, <1>4, <1>5, <1>8 DEF FigureInv

\* Whatever calls and recalculations save at once, the figures of a document
\* are those of its delegations, or count no more than it has
\* (StakerStatsService.updateStakerStats, recalculateTotals).
THEOREM FiguresHoldAlways == SheetSpec => []FiguresHold
  <1>1. FigureInv => FiguresHold
    BY DEF FigureInv
  <1> QED BY <1>1, FiguresInit, FiguresStep, PTL DEF SheetSpec
=============================================================================
