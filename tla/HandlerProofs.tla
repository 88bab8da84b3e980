---------------------------- MODULE HandlerProofs ----------------------------
(***************************************************************************)
(* What the handlers of new blocks and of messages keep in the database.   *)
(* First the signature statistics (handleNewBlock and startSync), for      *)
(* every window, chain, batch and number of overlapping calls: the types,  *)
(* what survives the lost updates of the totals, that a sync passes over   *)
(* no height, and that without overlaps the streaks are true.  A call      *)
(* overwrites the document with what it read some steps ago, so each       *)
(* invariant speaks of the documents read back as well as of the one       *)
(* stored.                                                                 *)
(* Then the documents of the message service, for every history of the     *)
(* chain, covenant, electorate and number of errors: type correctness, the *)
(* invariants of the four stores, and what no step may do to a recorded    *)
(* signature or to the status of a checkpoint.                             *)
(***************************************************************************)
EXTENDS ValidatorSignatures, MessageService, SumTheorems, FiniteSetTheorems, SequenceTheorems, TLAPS

-----------------------------------------------------------------------------
\* Any set of calls can be counted, and so can any set of heights.
LEMMA FiniteCalls == \A S \in SUBSET Calls : IsFiniteSet(S) /\ Cardinality(S) \in Nat
  <1>1. IsFiniteSet(Heights)
    BY FS_Interval, ConstantsAssumption DEF Heights, ConstantsAssumption
  <1>2. IsFiniteSet({"live", "sync"})
    <2>1. {"live", "sync"} = {"live"} \cup {"sync"} /\ IsFiniteSet({"live"})
      BY FS_Singleton
    <2>2. IsFiniteSet({"live"} \cup {"sync"})
      BY <2>1, FS_AddElement
    <2> QED BY <2>1, <2>2
  <1>3. IsFiniteSet(Calls)
    BY <1>1, <1>2, FS_Product DEF Calls
  <1> QED BY <1>3, FS_Subset, FS_CardinalityType

LEMMA FiniteBatch ==
    ASSUME NEW a \in Int, NEW b \in Int, NEW S \in SUBSET (a..b)
    PROVE  Cardinality(S) \in Nat
  BY FS_Interval, FS_Subset, FS_CardinalityType

\* A call is for a height of the chain.
LEMMA HeightFact == \A c \in Calls : c[2] \in Heights /\ c[2] \in 1..MaxHeight
  BY DEF Calls, Heights

\* A call that has read the document back, or is about to, has counted a block.
Filled ==
    \A c \in Calls : /\ pc[c] = "read" => recent # <<>>
                     /\ pc[c] = "set" => snap[c].recent # <<>>

\* The document after a block was pushed: it is not empty and ends with it.
LEMMA PushFact ==
    ASSUME NEW s \in Seq(BOOLEAN), NEW x \in BOOLEAN
    PROVE  LET r == LastN(Append(s, x), RecentLimit)
           IN  r \in Seq(BOOLEAN) /\ r # <<>> /\ Len(r) <= RecentLimit /\ r[Len(r)] = x
  <1> DEFINE a == Append(s, x)
             n == Len(s) + 1
             m == Greatest(1, n - RecentLimit + 1)
             r == SubSeq(a, m, n)
  <1>1. /\ a \in Seq(BOOLEAN) /\ Len(a) = n /\ a[n] = x /\ Len(s) \in Nat
        /\ \A i \in 1..n : a[i] \in BOOLEAN
    BY AppendProperties, LenProperties, ElementOfSeq
  <1>2. m \in 1..n /\ n - m + 1 <= RecentLimit
    BY <1>1, ConstantsAssumption DEF Greatest, ConstantsAssumption
  <1>3. \A i \in m..n : a[i] \in BOOLEAN
    BY <1>1, <1>2
  <1> HIDE DEF a, m
  <1>4. /\ r \in Seq(BOOLEAN) /\ Len(r) = n - m + 1
        /\ \A i \in 1..(n - m + 1) : r[i] = a[m + i - 1]
    BY <1>1, <1>2, <1>3, SubSeqProperties
  <1>5. Len(r) >= 1 /\ r[Len(r)] = x /\ Len(r) <= RecentLimit
    BY <1>1, <1>2, <1>4
  <1>6. r # <<>>
    BY <1>1, <1>2, <1>4, EmptySeq
  <1>7. LastN(a, RecentLimit) = r
    BY <1>1 DEF LastN, m
  <1> QED BY <1>4, <1>5, <1>6, <1>7 DEF a

\* What a call computes from the document it read back.
LEMMA CutFact ==
    ASSUME NEW c \in Calls, snap[c] \in DocumentType, snap[c].recent # <<>>
    PROVE  /\ Cut(c) \in Nat /\ SignedCut(c) \in Nat
           /\ Rate(c) \in [num : Nat, den : Nat \ {0}]
           /\ Streak(c) \in Nat /\ Misses(c) \in Nat
  <1> DEFINE d == snap[c]
  <1>1. d.signed \in Nat /\ d.total \in Nat /\ d.streak \in Nat /\ d.misses \in Nat
        /\ d.recent \in Seq(BOOLEAN)
    BY DEF DocumentType
  <1>2. Len(d.recent) \in Nat \ {0} /\ DOMAIN d.recent = 1..Len(d.recent)
    BY <1>1, EmptySeq, LenProperties
  <1>3. SignedIn(d.recent) \in Nat
    <2> DEFINE n == Len(d.recent)
               S == {i \in DOMAIN d.recent : d.recent[i]}
    <2>1. S \in SUBSET (1..n) /\ 1 \in Int /\ n \in Int
      BY <1>2
    <2> HIDE DEF S, n
    <2>2. Cardinality(S) \in Nat
      BY <2>1, FiniteBatch
    <2> QED BY <2>2 DEF SignedIn, S
  <1>4. Cut(c) \in Nat /\ SignedCut(c) \in Nat
    BY <1>1, ConstantsAssumption DEF Cut, SignedCut, Least, ConstantsAssumption
  <1>5. ~(Cut(c) < RecentLimit) => Cut(c) # 0
    BY <1>4, ConstantsAssumption DEF ConstantsAssumption
  <1>6. Rate(c) \in [num : Nat, den : Nat \ {0}]
    BY <1>1, <1>2, <1>3, <1>4, <1>5 DEF Rate
  <1>7. Streak(c) \in Nat
    BY <1>1, SMTT(30) DEF Streak
  <1>8. Misses(c) \in Nat
    BY <1>1, SMTT(30) DEF Misses
  <1> QED BY <1>4, <1>6, <1>7, <1>8

DocTyped ==
    /\ exists \in BOOLEAN /\ Document \in DocumentType /\ Len(recent) <= RecentLimit
    /\ rate \in [num : Nat, den : Nat \ {0}] /\ snap \in [Calls -> DocumentType]
    /\ Filled

CallsTyped == pc \in [Calls -> Steps]

SyncTyped ==
    /\ signs \in [Heights -> BOOLEAN] /\ tip \in 0..MaxHeight /\ lastAny \in 0..MaxHeight
    /\ sync \in {"idle", "height", "last", "batch", "wait", "search"}
    /\ from \in 1..(MaxHeight + 1) /\ upTo \in 0..MaxHeight /\ began \in 1..(MaxHeight + 1)

HistoryTyped ==
    /\ settled \subseteq Heights /\ alone \in BOOLEAN
    /\ seen \in Seq(BOOLEAN) /\ errors \in 0..MaxErrors

TypeInv == DocTyped /\ CallsTyped /\ SyncTyped /\ HistoryTyped

LEMMA TypeInvIsType == TypeInv => SignatureTypeOK
  BY DEF TypeInv, DocTyped, CallsTyped, SyncTyped, HistoryTyped, SignatureTypeOK

LEMMA NoDocumentTyped == NoDocument \in DocumentType
  BY EmptySeq DEF NoDocument, DocumentType

LEMMA TypeInit == SignatureInit => TypeInv
  <1> SUFFICES ASSUME SignatureInit PROVE TypeInv
    OBVIOUS
  <1>1. recent \in Seq(BOOLEAN) /\ Len(recent) = 0 /\ seen \in Seq(BOOLEAN)
    BY EmptySeq DEF SignatureInit
  <1>2. Document \in DocumentType /\ Len(recent) <= RecentLimit
    BY <1>1, ConstantsAssumption DEF SignatureInit, Document, DocumentType, ConstantsAssumption
  <1>3. snap \in [Calls -> DocumentType]
    BY NoDocumentTyped DEF SignatureInit
  <1>4. CallsTyped /\ Filled
    BY DEF SignatureInit, CallsTyped, Filled, Steps
  <1>5. DocTyped
    <2>1. rate = [num |-> 1, den |-> 1] /\ exists = FALSE
      BY DEF SignatureInit
    <2>2. rate \in [num : Nat, den : Nat \ {0}]
      BY <2>1
    <2>3. exists \in BOOLEAN
      BY <2>1
    <2> QED BY <1>2, <1>3, <1>4, <2>2, <2>3 DEF DocTyped
  <1>6. SyncTyped /\ HistoryTyped
    BY <1>1, ConstantsAssumption DEF SignatureInit, SyncTyped, HistoryTyped, ConstantsAssumption
  <1> QED BY <1>4, <1>5, <1>6 DEF TypeInv

LEMMA DocTypedStep == TypeInv /\ [SignatureNext]_signatureVars => DocTyped'
  <1> SUFFICES ASSUME TypeInv, [SignatureNext]_signatureVars PROVE DocTyped'
    OBVIOUS
  <1> USE DEF TypeInv, DocTyped, CallsTyped, Steps
  <1>1. ASSUME NEW c \in Calls, Find(c) \/ Create(c) \/ CountOthers(c) PROVE DocTyped'
    BY <1>1 DEF Find, Create, CountOthers, doc, Document, Filled
  <1>2. ASSUME NEW c \in Calls, Increment(c) PROVE DocTyped'
    <2>1. signs[c[2]] \in BOOLEAN /\ recent \in Seq(BOOLEAN)
          /\ signed \in Nat /\ totalBlocks \in Nat /\ streak \in Nat /\ misses \in Nat
      BY HeightFact DEF SyncTyped, Document, DocumentType
    <2>2. recent' \in Seq(BOOLEAN) /\ recent' # <<>> /\ Len(recent') <= RecentLimit
      BY <1>2, <2>1, PushFact DEF Increment
    <2>3. signed' \in Nat /\ totalBlocks' \in Nat /\ streak' \in Nat /\ misses' \in Nat
      BY <1>2, <2>1 DEF Increment
    <2>4. Document' \in DocumentType
      BY <2>2, <2>3 DEF Document, DocumentType
    <2> QED BY <1>2, <2>2, <2>4 DEF Increment, Filled
  <1>3. ASSUME NEW c \in Calls, ReadBack(c) PROVE DocTyped'
    <2>1. Document.recent = recent
      BY DEF Document
    <2> QED BY <1>3, <2>1 DEF ReadBack, doc, Document, Filled
  <1>4. ASSUME NEW c \in Calls, SetTotals(c) PROVE DocTyped'
    <2>1. /\ Cut(c) \in Nat /\ SignedCut(c) \in Nat
          /\ Rate(c) \in [num : Nat, den : Nat \ {0}]
          /\ Streak(c) \in Nat /\ Misses(c) \in Nat
      BY <1>4, CutFact DEF SetTotals, Filled
    <2>2. Document' \in DocumentType
      BY <1>4, <2>1 DEF SetTotals, Document, DocumentType
    <2>3. snap' \in [Calls -> DocumentType]
      BY <1>4, NoDocumentTyped DEF SetTotals
    <2> QED BY <1>4, <2>1, <2>2, <2>3 DEF SetTotals, Filled
  <1>5. ASSUME NEW c \in Calls, CallFails(c) PROVE DocTyped'
    <2>1. snap' \in [Calls -> DocumentType]
      BY <1>5, NoDocumentTyped DEF CallFails
    <2> QED BY <1>5, <2>1 DEF CallFails, doc, Document, Filled
  <1>6. CASE NodeCommits
    BY <1>6 DEF NodeCommits, doc, Document, Filled
  <1>7. CASE RunBatch
    BY <1>7 DEF RunBatch, doc, Document, Filled
  <1>8. CASE StartSync \/ GetHeight \/ GetLast \/ BatchDone \/ Search \/ SyncDone \/ UNCHANGED signatureVars
    BY <1>8 DEF StartSync, GetHeight, GetLast, BatchDone, Search, SyncDone, signatureVars, doc, Document, Filled
  <1> QED BY <1>1, <1>2, <1>3, <1>4, <1>5, <1>6, <1>7, <1>8 DEF SignatureNext, Handle

LEMMA CallsTypedStep == TypeInv /\ [SignatureNext]_signatureVars => CallsTyped'
  <1> SUFFICES ASSUME TypeInv, [SignatureNext]_signatureVars PROVE CallsTyped'
    OBVIOUS
  <1> USE DEF TypeInv, CallsTyped, Steps
  <1>1. ASSUME NEW c \in Calls, Handle(c) PROVE CallsTyped'
    BY <1>1 DEF Handle, Find, Create, Increment, CountOthers, ReadBack, SetTotals, CallFails
  <1>2. CASE NodeCommits
    BY <1>2 DEF NodeCommits
  <1>3. CASE RunBatch
    BY <1>3 DEF RunBatch
  <1>4. CASE StartSync \/ GetHeight \/ GetLast \/ BatchDone \/ Search \/ SyncDone \/ UNCHANGED signatureVars
    BY <1>4 DEF StartSync, GetHeight, GetLast, BatchDone, Search, SyncDone, signatureVars
  <1> QED BY <1>1, <1>2, <1>3, <1>4 DEF SignatureNext

LEMMA SyncTypedStep == TypeInv /\ [SignatureNext]_signatureVars => SyncTyped'
  <1> SUFFICES ASSUME TypeInv, [SignatureNext]_signatureVars PROVE SyncTyped'
    OBVIOUS
  <1> USE ConstantsAssumption DEF TypeInv, SyncTyped, ConstantsAssumption, doc, syncVars
  <1>1. ASSUME NEW c \in Calls, Find(c) \/ Create(c) \/ ReadBack(c) \/ SetTotals(c) \/ CallFails(c)
        PROVE SyncTyped'
    BY <1>1 DEF Find, Create, ReadBack, SetTotals, CallFails
  <1>2. ASSUME NEW c \in Calls, Increment(c) \/ CountOthers(c) PROVE SyncTyped'
    BY <1>2, HeightFact DEF Increment, CountOthers, LastSignedBlocks, Greatest
  <1>3. CASE NodeCommits \/ StartSync \/ GetHeight \/ SyncDone \/ RunBatch \/ UNCHANGED signatureVars
    BY <1>3 DEF NodeCommits, StartSync, GetHeight, SyncDone, RunBatch, signatureVars
  <1>4. CASE GetLast
    BY <1>4 DEF GetLast, StartHeight, Greatest
  <1>5. CASE BatchDone
    BY <1>5 DEF BatchDone, NextBatch, BatchEnd, Least
  <1>6. CASE Search
    BY <1>6 DEF Search, Greatest
  <1> QED BY <1>1, <1>2, <1>3, <1>4, <1>5, <1>6 DEF SignatureNext, Handle

\* After a step that may start a call, or lose one.
LEMMA OverlapsFact ==
    ASSUME Overlaps, seen \in Seq(BOOLEAN)
    PROVE  /\ alone' \in BOOLEAN /\ seen' \in Seq(BOOLEAN)
           /\ alone' => /\ alone /\ seen' = seen /\ errors' = errors
                        /\ Cardinality(InFlight') <= 1
  <1>1. alone' = (alone /\ Cardinality(InFlight') <= 1 /\ errors' = errors)
    BY Zenon DEF Overlaps
  <1>2. alone' \in BOOLEAN
    BY <1>1, Zenon
  <1>3. alone' => alone /\ Cardinality(InFlight') <= 1 /\ errors' = errors
    BY <1>1, Zenon
  <1>4. seen' = IF alone' THEN seen ELSE <<>>
    BY DEF Overlaps
  <1> QED BY <1>2, <1>3, <1>4, EmptySeq

LEMMA HistoryTypedStep == TypeInv /\ [SignatureNext]_signatureVars => HistoryTyped' /\ errors' >= errors
  <1> SUFFICES ASSUME TypeInv, [SignatureNext]_signatureVars PROVE HistoryTyped' /\ errors' >= errors
    OBVIOUS
  <1> USE ConstantsAssumption DEF TypeInv, HistoryTyped, ConstantsAssumption, history
  <1>1. ASSUME NEW c \in Calls, Find(c) \/ Create(c) \/ ReadBack(c) \/ SetTotals(c)
        PROVE HistoryTyped' /\ errors' >= errors
    BY <1>1 DEF Find, Create, ReadBack, SetTotals
  <1>2. ASSUME NEW c \in Calls, Increment(c) PROVE HistoryTyped' /\ errors' >= errors
    <2>1. signs[c[2]] \in BOOLEAN
      BY HeightFact DEF SyncTyped
    <2>2. seen' \in Seq(BOOLEAN)
      BY <1>2, <2>1, AppendProperties DEF Increment
    <2> QED BY <1>2, <2>2, HeightFact DEF Increment, LastSignedBlocks
  <1>3. ASSUME NEW c \in Calls, CountOthers(c) PROVE HistoryTyped' /\ errors' >= errors
    BY <1>3, HeightFact DEF CountOthers, LastSignedBlocks
  <1>4. ASSUME NEW c \in Calls, CallFails(c) PROVE HistoryTyped' /\ errors' >= errors
    BY <1>4, HeightFact, OverlapsFact DEF CallFails
  <1>5. CASE NodeCommits
    BY <1>5, OverlapsFact DEF NodeCommits
  <1>6. CASE RunBatch
    <2>1. PICK unfetched \in SUBSET (from..BatchEnd) :
                /\ errors + Cardinality(unfetched) <= MaxErrors
                /\ errors' = errors + Cardinality(unfetched)
                /\ settled' = settled \cup unfetched
      BY <1>6 DEF RunBatch
    <2>2. from \in Int /\ BatchEnd \in Int /\ from..BatchEnd \subseteq Heights
      BY ConstantsAssumption DEF SyncTyped, BatchEnd, Least, Heights, ConstantsAssumption
    <2>3. Cardinality(unfetched) \in Nat
      BY <2>2, FiniteBatch
    <2>4. settled' \subseteq Heights
      BY <2>1, <2>2
    <2> QED BY <1>6, <2>1, <2>3, <2>4, OverlapsFact DEF RunBatch
  <1>7. CASE Search
    <2>1. \A h \in Greatest(from, Pruned + 1)..upTo : from..(h - 1) \subseteq Heights
      BY DEF SyncTyped, Greatest, Heights
    <2> QED BY <1>7, <2>1 DEF Search
  <1>8. CASE StartSync \/ GetHeight \/ GetLast \/ BatchDone \/ SyncDone \/ UNCHANGED signatureVars
    BY <1>8 DEF StartSync, GetHeight, GetLast, BatchDone, SyncDone, signatureVars
  <1> QED BY <1>1, <1>2, <1>3, <1>4, <1>5, <1>6, <1>7, <1>8 DEF SignatureNext, Handle

LEMMA TypeStep == TypeInv /\ [SignatureNext]_signatureVars => TypeInv' /\ errors' >= errors
  BY DocTypedStep, CallsTypedStep, SyncTypedStep, HistoryTypedStep DEF TypeInv

\* The variables have their types: a rate is never divided by nothing, no
\* history is longer than RECENT_BLOCKS_LIMIT, a sync stays within the chain.
THEOREM SignatureTypesCorrect == SignatureSpec => []SignatureTypeOK
  <1>1. TypeInv /\ [SignatureNext]_signatureVars => TypeInv'
    BY TypeStep
  <1> QED BY <1>1, TypeInit, TypeInvIsType, PTL DEF SignatureSpec

-----------------------------------------------------------------------------
\* Live calls are for blocks of the chain, so the next block has none.
Called == \A h \in Heights : h > tip => pc[<<"live", h>>] = "idle"

LEMMA CalledStep == TypeInv /\ Called /\ [SignatureNext]_signatureVars => Called'
  <1> USE DEF Called, TypeInv, CallsTyped, SyncTyped, Steps, Calls, Heights
  <1> SUFFICES ASSUME TypeInv, Called, [SignatureNext]_signatureVars PROVE Called'
    OBVIOUS
  <1>1. ASSUME NEW c \in Calls, Handle(c) PROVE Called'
    BY <1>1 DEF Handle, Find, Create, Increment, CountOthers, ReadBack, SetTotals, CallFails
  <1>2. CASE NodeCommits
    BY <1>2 DEF NodeCommits
  <1>3. CASE RunBatch
    BY <1>3 DEF RunBatch
  <1>4. CASE StartSync \/ GetHeight \/ GetLast \/ BatchDone \/ Search \/ SyncDone \/ UNCHANGED signatureVars
    BY <1>4 DEF StartSync, GetHeight, GetLast, BatchDone, Search, SyncDone, signatureVars
  <1> QED BY <1>1, <1>2, <1>3, <1>4 DEF SignatureNext

\* A block that arrives or a batch that starts begins calls, and touches none
\* that is under way.
LEMMA LaunchFact ==
    ASSUME TypeInv, Called, NodeCommits \/ RunBatch
    PROVE  \A c \in Calls : pc'[c] = pc[c] \/ (pc[c] = "idle" /\ pc'[c] = "find")
  <1> USE DEF TypeInv, CallsTyped, SyncTyped
  <1>1. CASE NodeCommits
    <2>1. pc[<<"live", tip + 1>>] = "idle" /\ <<"live", tip + 1>> \in Calls
      BY <1>1, ConstantsAssumption DEF NodeCommits, Called, Heights, Calls, ConstantsAssumption
    <2> QED BY <1>1, <2>1 DEF NodeCommits
  <1>2. CASE RunBatch
    <2> DEFINE batch == from..BatchEnd
    <2>1. \A h \in batch : pc[<<"sync", h>>] = "idle"
      BY <1>2 DEF RunBatch
    <2>2. PICK unfetched : pc' = [c \in Calls |->
              IF c[1] = "sync" /\ c[2] \in batch \ unfetched /\ c[2] > Pruned
              THEN "find" ELSE pc[c]]
      BY <1>2 DEF RunBatch
    <2> DEFINE Launched(c) == c[1] = "sync" /\ c[2] \in batch \ unfetched /\ c[2] > Pruned
    <2>3. ASSUME NEW c \in Calls, Launched(c) PROVE pc[c] = "idle"
      <3>1. PICK source \in {"live", "sync"}, h \in Heights : c = <<source, h>>
        BY DEF Calls
      <3>2. c = <<"sync", h>> /\ h \in batch
        BY <2>3, <3>1
      <3> QED BY <2>1, <3>2
    <2>4. pc' = [c \in Calls |-> IF Launched(c) THEN "find" ELSE pc[c]]
      BY <2>2
    <2> HIDE DEF Launched
    <2> QED BY <2>3, <2>4
  <1> QED BY <1>1, <1>2

-----------------------------------------------------------------------------
(* The totals.                                                               *)

\* The counters and the copies the calls hold: numbers, signed within total.
Within(d) == d.signed \in Nat /\ d.total \in Nat /\ d.signed <= d.total

Totals ==
    /\ signed \in Nat /\ totalBlocks \in Nat /\ signed <= totalBlocks
    /\ DOMAIN snap = Calls /\ snap = [c \in Calls |-> snap[c]]
    /\ \A c \in Calls : Within(snap[c])

\* A step changes the copies of one call only.
LEMMA OneSnap ==
    ASSUME Totals, NEW c \in Calls, NEW d, Within(d)
    PROVE  LET s == [snap EXCEPT ![c] = d]
           IN  /\ DOMAIN s = Calls /\ s = [b \in Calls |-> s[b]]
               /\ \A b \in Calls : Within(s[b])
  BY DEF Totals

LEMMA TotalsStep == Totals /\ [SignatureNext]_signatureVars => Totals'
  <1> SUFFICES ASSUME Totals, [SignatureNext]_signatureVars PROVE Totals'
    OBVIOUS
  <1>n. Within(NoDocument)
    BY DEF Within, NoDocument
  <1>1. ASSUME NEW c \in Calls, Find(c) \/ Create(c) \/ CountOthers(c) PROVE Totals'
    BY <1>1 DEF Find, Create, CountOthers, doc, Totals, Within
  <1>2. ASSUME NEW c \in Calls, Increment(c) PROVE Totals'
    BY <1>2 DEF Increment, Totals, Within
  <1>3. ASSUME NEW c \in Calls, ReadBack(c) PROVE Totals'
    <2>1. Within(Document)
      BY DEF Totals, Within, Document
    <2>2. signed' = signed /\ totalBlocks' = totalBlocks /\ snap' = [snap EXCEPT ![c] = Document]
      BY <1>3 DEF ReadBack, doc
    <2> QED BY <2>1, <2>2, OneSnap DEF Totals
  <1>4. ASSUME NEW c \in Calls, SetTotals(c) PROVE Totals'
    <2>1. Within(snap[c])
      BY DEF Totals
    <2>2. Cut(c) \in Nat /\ SignedCut(c) \in Nat /\ SignedCut(c) <= Cut(c)
      BY <2>1, ConstantsAssumption DEF Within, Cut, SignedCut, Least, ConstantsAssumption
    <2> QED BY <1>4, <1>n, <2>2, OneSnap DEF SetTotals, Totals, Within
  <1>5. ASSUME NEW c \in Calls, CallFails(c) PROVE Totals'
    BY <1>5, <1>n, OneSnap DEF CallFails, doc, Totals, Within
  <1>6. CASE NodeCommits \/ StartSync \/ GetHeight \/ GetLast \/ RunBatch \/ BatchDone \/ Search \/ SyncDone
    BY <1>6 DEF NodeCommits, StartSync, GetHeight, GetLast, RunBatch, BatchDone, Search, SyncDone, doc, Totals, Within
  <1>7. CASE UNCHANGED signatureVars
    BY <1>7 DEF signatureVars, doc, Totals, Within
  <1> QED BY <1>1, <1>2, <1>3, <1>4, <1>5, <1>6, <1>7 DEF SignatureNext, Handle

\* However handleNewBlock calls overlap, no validator is recorded with more
\* signed blocks than blocks.
THEOREM SignedWithinTotalHolds == SignatureSpec => []SignedWithinTotal
  <1>1. SignatureInit => Totals
    BY DEF SignatureInit, Totals, Within, NoDocument
  <1>2. Totals => SignedWithinTotal
    BY DEF Totals, SignedWithinTotal
  <1> QED BY <1>1, <1>2, TotalsStep, PTL DEF SignatureSpec

\* A step that leaves totalBlocks alone and does not end a pending call, or
\* fails one, keeps the bound.
LEMMA BoundStep ==
    ASSUME Totals, Totals', TypeInv, TypeInv', Called, TotalWithinWindow, [SignatureNext]_signatureVars, errors' >= errors
    PROVE  TotalWithinWindow'
  <1> USE ConstantsAssumption DEF ConstantsAssumption, TotalWithinWindow
  <1> DEFINE n == Cardinality(Pending)
             m == Cardinality(Pending')
  <1>c. n \in Nat /\ m \in Nat /\ IsFiniteSet(Pending) /\ IsFiniteSet(Pending')
    BY FiniteCalls DEF Pending
  <1>f. /\ errors \in Nat /\ errors' \in Nat /\ totalBlocks \in Nat /\ totalBlocks' \in Nat
        /\ pc \in [Calls -> Steps]
    BY DEF TypeInv, HistoryTyped, CallsTyped, Totals
  <1>k. ASSUME totalBlocks' = totalBlocks, Pending' = Pending PROVE TotalWithinWindow'
    BY <1>k, <1>c, <1>f
  <1>1. ASSUME NEW c \in Calls, Find(c) \/ Create(c) \/ CountOthers(c) \/ ReadBack(c)
        PROVE TotalWithinWindow'
    <2>1. Pending' = Pending
      BY <1>1, <1>f DEF Find, Create, CountOthers, ReadBack, Pending, Steps
    <2> QED BY <1>1, <1>k, <2>1 DEF Find, Create, CountOthers, ReadBack, doc
  <1>2. ASSUME NEW c \in Calls, Increment(c) PROVE TotalWithinWindow'
    <2>1. Pending' = Pending \cup {c} /\ c \notin Pending
      BY <1>2, <1>f DEF Increment, Pending, Steps
    <2>2. m = n + 1
      BY <1>c, <2>1, FS_AddElement
    <2>3. totalBlocks' = totalBlocks + 1 /\ errors' = errors
      BY <1>2 DEF Increment
    <2> QED BY <1>c, <1>f, <2>2, <2>3
  <1>3. ASSUME NEW c \in Calls, SetTotals(c) PROVE TotalWithinWindow'
    <2>1. totalBlocks' <= Window
      BY <1>3 DEF SetTotals, Cut, Least, Totals, Within
    <2> QED BY <1>c, <1>f, <2>1
  <1>4. ASSUME NEW c \in Calls, CallFails(c) PROVE TotalWithinWindow'
    <2>1. Pending' = Pending \ {c}
      BY <1>4, <1>f DEF CallFails, Pending, Steps
    <2>2. m + 1 >= n
      BY <1>c, <2>1, FS_RemoveElement
    <2>3. errors' = errors + 1 /\ totalBlocks' = totalBlocks
      BY <1>4 DEF CallFails, doc
    <2> QED BY <1>c, <1>f, <2>2, <2>3
  <1>5. CASE NodeCommits \/ RunBatch
    <2>1. Pending' = Pending
      BY <1>5, LaunchFact DEF Pending
    <2> QED BY <1>5, <1>k, <2>1 DEF NodeCommits, RunBatch, doc
  <1>6. CASE StartSync \/ GetHeight \/ GetLast \/ BatchDone \/ Search \/ SyncDone \/ UNCHANGED signatureVars
    <2>1. Pending' = Pending /\ totalBlocks' = totalBlocks
      BY <1>6, <1>f DEF StartSync, GetHeight, GetLast, BatchDone, Search, SyncDone, signatureVars, doc, Pending, Steps
    <2> QED BY <1>k, <2>1
  <1> QED BY <1>1, <1>2, <1>3, <1>4, <1>5, <1>6 DEF SignatureNext, Handle

\* totalBlocksInWindow exceeds the window at most by the calls between their
\* increment and their overwrite, and by the calls that failed there.
THEOREM TotalWithinWindowHolds == SignatureSpec => []TotalWithinWindow
  <1> DEFINE IInv == Totals /\ TypeInv /\ Called /\ TotalWithinWindow
  <1>1. SignatureInit => IInv
    <2> SUFFICES ASSUME SignatureInit PROVE IInv
      OBVIOUS
    <2>0. Totals /\ TypeInv
      BY TypeInit DEF SignatureInit, Totals, Within, NoDocument
    <2>1. Called
      BY DEF SignatureInit, Called, Calls
    <2>2. Pending = {}
      BY DEF SignatureInit, Pending
    <2> QED BY <2>0, <2>1, <2>2, FS_EmptySet, ConstantsAssumption DEF SignatureInit, TotalWithinWindow, ConstantsAssumption
  <1>2. IInv /\ [SignatureNext]_signatureVars => IInv'
    BY TotalsStep, TypeStep, CalledStep, BoundStep
  <1>3. IInv => TotalWithinWindow
    OBVIOUS
  <1> QED BY <1>1, <1>2, <1>3, PTL DEF SignatureSpec

\* Both bounds on the totals of a document, whatever overlaps.
THEOREM TotalsBoundedHolds == SignatureSpec => []TotalsBounded
  <1>1. SignedWithinTotal /\ TotalWithinWindow => TotalsBounded
    BY DEF TotalsBounded
  <1> QED BY <1>1, SignedWithinTotalHolds, TotalWithinWindowHolds, PTL

-----------------------------------------------------------------------------
(* A sync passes over no height.  While a batch is awaited its heights are   *)
(* being counted or settled, so when all its calls are over it is settled;   *)
(* a call settles its height before it reads back, not when it ends.         *)

Covered(h) == h \in settled \/ h <= Pruned \/ pc[<<"sync", h>>] # "idle"

CoverInv ==
    /\ \A c \in Calls : pc[c] \in {"read", "set"} => c[2] \in settled
    /\ sync \in {"batch", "wait", "search"} => \A h \in began..(from - 1) : Covered(h)
    /\ sync = "wait" => \A h \in from..BatchEnd : Covered(h)

\* The heights the invariant is about are heights of the chain.
LEMMA SpanFact == SyncTyped => /\ began..(from - 1) \subseteq Heights
                              /\ from..BatchEnd \subseteq Heights
  BY ConstantsAssumption DEF SyncTyped, BatchEnd, Least, Heights, ConstantsAssumption

LEMMA SpanSplit ==
    \A a, b, c \in Int : \A h \in a..(c - 1) : h \in a..(b - 1) \/ h \in b..(c - 1)
  OBVIOUS

\* A step of a call that leaves the sync alone keeps heights covered.
LEMMA CoverKept ==
    ASSUME TypeInv, CoverInv, \A h \in Heights : Covered(h) => Covered(h)',
           UNCHANGED syncVars,
           \A c \in Calls : pc'[c] \in {"read", "set"} => c[2] \in settled'
    PROVE  CoverInv'
  <1> QED BY SpanFact DEF CoverInv, TypeInv, syncVars, BatchEnd, Least

LEMMA CoverInvStep == TypeInv /\ Called /\ CoverInv /\ [SignatureNext]_signatureVars => CoverInv'
  <1> SUFFICES ASSUME TypeInv, Called, CoverInv, [SignatureNext]_signatureVars PROVE CoverInv'
    OBVIOUS
  <1> USE DEF TypeInv, CallsTyped, Steps
  <1>1. ASSUME NEW c \in Calls, Handle(c) PROVE CoverInv'
    <2>1. PICK s \in Steps :
            /\ settled \subseteq settled' /\ UNCHANGED syncVars
            /\ pc' = [pc EXCEPT ![c] = s]
            /\ s \in {"idle", "read", "set"} => c[2] \in settled'
      BY <1>1 DEF Handle, Find, Create, Increment, CountOthers, ReadBack, SetTotals, CallFails,
                  CoverInv, LastSignedBlocks, history, syncVars
    <2>2. ASSUME NEW h \in Heights, Covered(h) PROVE Covered(h)'
      <3>1. <<"sync", h>> \in Calls /\ <<"sync", h>>[2] = h
        BY DEF Calls
      <3>2. CASE <<"sync", h>> = c
        <4>1. pc'[<<"sync", h>>] = s /\ (s = "idle" => h \in settled')
          BY <2>1, <3>1, <3>2
        <4> QED BY <4>1 DEF Covered
      <3>3. CASE <<"sync", h>> # c
        <4>1. pc'[<<"sync", h>>] = pc[<<"sync", h>>]
          BY <2>1, <3>3
        <4> QED BY <2>1, <2>2, <4>1 DEF Covered
      <3> QED BY <3>2, <3>3
    <2>3. ASSUME NEW b \in Calls, pc'[b] \in {"read", "set"} PROVE b[2] \in settled'
      <3>1. CASE b = c
        <4>1. pc'[b] = s
          BY <2>1, <3>1
        <4> QED BY <2>1, <2>3, <3>1, <4>1
      <3>2. CASE b # c
        <4>1. pc'[b] = pc[b]
          BY <2>1, <3>2
        <4> QED BY <2>1, <2>3, <4>1 DEF CoverInv
      <3> QED BY <3>1, <3>2
    <2> QED BY <2>1, <2>2, <2>3, CoverKept
  <1>2. CASE NodeCommits
    <2>1. \A c \in Calls : pc'[c] = pc[c] \/ (pc[c] = "idle" /\ pc'[c] = "find")
      BY <1>2, LaunchFact
    <2>2. settled' = settled /\ UNCHANGED syncVars
      BY <1>2 DEF NodeCommits
    <2>3. \A h \in Heights : Covered(h) => Covered(h)'
      BY <2>1, <2>2 DEF Covered, Calls
    <2> QED BY <2>1, <2>2, <2>3, CoverKept DEF CoverInv
  <1>3. CASE RunBatch
    <2>1. \A c \in Calls : pc'[c] = pc[c] \/ (pc[c] = "idle" /\ pc'[c] = "find")
      BY <1>3, LaunchFact
    <2>2. PICK unfetched \in SUBSET {h \in from..BatchEnd : h > Pruned} :
            /\ settled' = settled \cup unfetched
            /\ pc' = [c \in Calls |->
                     IF c[1] = "sync" /\ c[2] \in (from..BatchEnd) \ unfetched /\ c[2] > Pruned
                     THEN "find" ELSE pc[c]]
      BY <1>3 DEF RunBatch
    <2>3. sync = "batch" /\ sync' \in {"wait", "search"} /\ UNCHANGED <<from, upTo, began>>
      BY <1>3 DEF RunBatch
    <2>4. \A h \in Heights : Covered(h) => Covered(h)'
      BY <2>1, <2>2 DEF Covered, Calls
    <2>5. \A h \in began..(from - 1) : Covered(h)'
      BY <2>3, <2>4, SpanFact DEF CoverInv
    <2>6. \A h \in from..BatchEnd : Covered(h)'
      <3>1. ASSUME NEW h \in from..BatchEnd, h \notin unfetched, h > Pruned
            PROVE  pc'[<<"sync", h>>] # "idle"
        <4>1. <<"sync", h>> \in Calls
          BY SpanFact DEF Calls
        <4> QED BY <2>2, <3>1, <4>1
      <3>2. \A h \in from..BatchEnd : h > Pruned \/ h <= Pruned
        BY SpanFact, ConstantsAssumption DEF Heights, ConstantsAssumption
      <3> QED BY <2>2, <3>1, <3>2 DEF Covered
    <2>7. \A c \in Calls : pc'[c] \in {"read", "set"} => c[2] \in settled'
      BY <2>1, <2>2 DEF CoverInv
    <2>8. BatchEnd' = BatchEnd
      BY <2>3 DEF BatchEnd, Least
    <2> QED BY <2>3, <2>5, <2>6, <2>7, <2>8 DEF CoverInv
  <1>4. CASE BatchDone
    <2>1. /\ sync = "wait" /\ sync' = "batch" /\ from' = BatchEnd + 1
          /\ UNCHANGED <<pc, settled, began>>
      BY <1>4 DEF BatchDone, NextBatch, history
    <2>2. \A h \in began..(from' - 1) : h \in began..(from - 1) \/ h \in from..BatchEnd
      BY <2>1, ConstantsAssumption DEF SyncTyped, BatchEnd, Least, ConstantsAssumption
    <2> QED BY <2>1, <2>2 DEF CoverInv, Covered
  <1>5. CASE Search
    <2>1. /\ sync = "search" /\ sync' \in {"batch", "idle"} /\ settled \subseteq settled'
          /\ UNCHANGED <<pc, began>>
      BY <1>5 DEF Search
    <2>2. CASE sync' = "idle"
      BY <2>1, <2>2 DEF CoverInv
    <2>3. CASE sync' = "batch"
      <3>1. from' \in Int /\ \A h \in from..(from' - 1) : h <= Pruned \/ h \in settled'
        BY <1>5, <2>3, ConstantsAssumption DEF Search, SyncTyped, Greatest, ConstantsAssumption
      <3>2. \A h \in began..(from' - 1) : h \in began..(from - 1) \/ h \in from..(from' - 1)
        <4>1. from \in Int /\ began \in Int /\ from' \in Int
          BY <3>1 DEF SyncTyped
        <4> QED BY <4>1, SpanSplit
      <3> QED BY <2>1, <2>3, <3>1, <3>2 DEF CoverInv, Covered
    <2> QED BY <2>1, <2>2, <2>3
  <1>6. CASE GetLast
    BY <1>6 DEF GetLast, StartHeight, Greatest, SyncTyped, CoverInv, history
  <1>7. CASE StartSync \/ GetHeight \/ SyncDone \/ UNCHANGED signatureVars
    BY <1>7 DEF StartSync, GetHeight, SyncDone, signatureVars, syncVars, history, CoverInv, Covered, BatchEnd, Least
  <1> QED BY <1>1, <1>2, <1>3, <1>4, <1>5, <1>6, <1>7 DEF SignatureNext

\* A sync passes over no height of its range
\* (ValidatorHistoricalSyncService.startSync).
THEOREM SyncCoversHolds == SignatureSpec => []SyncCovers
  <1> DEFINE IInv == TypeInv /\ Called /\ CoverInv
  <1>1. SignatureInit => IInv
    <2>1. SignatureInit => Called /\ CoverInv
      BY DEF SignatureInit, Called, Calls, CoverInv
    <2> QED BY <2>1, TypeInit
  <1>2. IInv /\ [SignatureNext]_signatureVars => IInv'
    BY TypeStep, CalledStep, CoverInvStep
  <1>3. IInv => SyncCovers
    <2> SUFFICES ASSUME IInv, sync \in {"batch", "wait", "search"},
                        NEW h \in began..(from - 1)
                 PROVE  h \in settled \cup 1..Pruned \/ pc[<<"sync", h>>] # "idle"
      BY DEF SyncCovers
    <2>1. Covered(h) /\ h \in Heights
      BY SpanFact DEF CoverInv, TypeInv
    <2> QED BY <2>1, ConstantsAssumption DEF Covered, Heights, ConstantsAssumption
  <1> QED BY <1>1, <1>2, <1>3, PTL DEF SignatureSpec

-----------------------------------------------------------------------------
(* One block at a time the streaks are true.  From the increment of a call   *)
(* to its overwrite the document is one block behind the outcomes counted,   *)
(* and what the overwrite will write is already determined.                  *)

\* One more outcome extends the run of that outcome and ends the other.
RunIn(s, o) == Cardinality({i \in DOMAIN s : \A j \in i..Len(s) : s[j] = o})

LEMMA RunFact ==
    ASSUME NEW s \in Seq(BOOLEAN), NEW x \in BOOLEAN, NEW o \in BOOLEAN
    PROVE  RunIn(s, o) \in Nat /\ RunIn(Append(s, x), o) = IF x = o THEN RunIn(s, o) + 1 ELSE 0
  <1> DEFINE a == Append(s, x)
             n == Len(s)
             R == {i \in DOMAIN s : \A j \in i..n : s[j] = o}
             Q == {i \in DOMAIN a : \A j \in i..Len(a) : a[j] = o}
  <1>1. /\ n \in Nat /\ Len(a) = n + 1 /\ a[n + 1] = x /\ \A i \in 1..n : a[i] = s[i]
        /\ DOMAIN s = 1..n /\ DOMAIN a = 1..(n + 1)
    BY AppendProperties, LenProperties
  <1>2. IsFiniteSet(R) /\ Cardinality(R) \in Nat /\ n + 1 \notin R
    <2>1. IsFiniteSet(1..n) /\ R \subseteq 1..n
      BY <1>1, FS_Interval
    <2>2. n + 1 \notin R
      BY <1>1
    <2> HIDE DEF R
    <2> QED BY <2>1, <2>2, FS_Subset, FS_CardinalityType
  <1>3. CASE x = o
    <2>1. Q = R \cup {n + 1}
      <3>1. ASSUME NEW i \in Q PROVE i \in R \cup {n + 1}
        <4>1. i \in 1..(n + 1) /\ \A j \in i..(n + 1) : a[j] = o
          BY <1>1, <3>1
        <4>2. i \in 1..n => \A j \in i..n : s[j] = o
          BY <1>1, <4>1
        <4> QED BY <1>1, <4>1, <4>2
      <3>2. ASSUME NEW i \in R \cup {n + 1} PROVE i \in Q
        <4>1. i \in 1..(n + 1)
          BY <1>1
        <4>2. \A j \in i..(n + 1) : a[j] = o
          BY <1>1, <1>3
        <4> QED BY <1>1, <4>1, <4>2
      <3> QED BY <3>1, <3>2
    <2> HIDE DEF R, Q
    <2>2. Cardinality(Q) = Cardinality(R) + 1
      BY <1>2, <2>1, FS_AddElement
    <2> QED BY <1>2, <1>3, <2>2 DEF R, Q, RunIn
  <1>4. CASE x # o
    <2>1. Q = {}
      BY <1>1, <1>4
    <2>2. Cardinality(Q) = 0
      BY <2>1, FS_EmptySet
    <2> HIDE DEF R
    <2> QED BY <1>2, <1>4, <2>2 DEF R, RunIn
  <1> QED BY <1>3, <1>4

RunsAre(a, b) == RunOf(TRUE) = a /\ RunOf(FALSE) = b

\* The streaks after a last outcome, from those before it.
Extended(last, d) ==
    /\ RunOf(TRUE) = IF last THEN d.streak + 1 ELSE 0
    /\ RunOf(FALSE) = IF last THEN 0 ELSE d.misses + 1

Quiet(c) == pc[c] \notin {"read", "set"}

OneCall ==
    /\ \A b, c \in Calls : pc[b] # "idle" /\ pc[c] # "idle" => b = c
    /\ (\A c \in Calls : Quiet(c)) => RunsAre(streak, misses)
    /\ \A c \in Calls :
         /\ pc[c] = "read" => Extended(recent[Len(recent)], Document)
         /\ pc[c] = "set" => Extended(snap[c].recent[Len(snap[c].recent)], snap[c])

StreakInv == alone => OneCall

\* At most one element: all are the same.
LEMMA OneAtMost ==
    ASSUME NEW S, IsFiniteSet(S), Cardinality(S) <= 1
    PROVE  \A x, y \in S : x = y
  <1> SUFFICES ASSUME NEW x \in S, NEW y \in S, x # y PROVE FALSE
    OBVIOUS
  <1>1. /\ IsFiniteSet(S \ {x}) /\ Cardinality(S \ {x}) = Cardinality(S) - 1
        /\ Cardinality(S \ {x}) \in Nat /\ Cardinality(S) \in Nat
    BY FS_RemoveElement, FS_CardinalityType
  <1>2. Cardinality(S \ {x}) = 0
    BY <1>1
  <1>3. S \ {x} = {}
    BY <1>1, <1>2, FS_EmptySet
  <1> QED BY <1>3

\* A step that begins or loses calls, and changes no document.
LEMMA StreakOverlaps ==
    ASSUME TypeInv, TypeInv', StreakInv, Overlaps, UNCHANGED <<doc, snap>>,
           \A c \in Calls : pc'[c] = pc[c] \/ (pc[c] = "idle" /\ pc'[c] = "find")
    PROVE  StreakInv'
  <1> SUFFICES ASSUME alone' PROVE OneCall'
    BY DEF StreakInv, OneCall
  <1>1. alone /\ seen' = seen /\ Cardinality(InFlight') <= 1
    BY OverlapsFact DEF TypeInv, HistoryTyped
  <1>2. \A b, c \in Calls : pc'[b] # "idle" /\ pc'[c] # "idle" => b = c
    <2>1. InFlight' = {c \in Calls : pc'[c] # "idle"}
      BY DEF InFlight, Running, Calls
    <2>2. IsFiniteSet(InFlight')
      BY <2>1, FiniteCalls
    <2>3. \A b, c \in InFlight' : b = c
      BY <1>1, <2>2, OneAtMost
    <2> QED BY <2>1, <2>3
  <1>3. UNCHANGED <<streak, misses, recent, snap, Document>>
        /\ \A o : RunOf(o)' = RunOf(o)
    BY <1>1 DEF doc, Document, RunOf
  <1> QED BY <1>1, <1>2, <1>3 DEF StreakInv, OneCall, Quiet, RunsAre, Extended

\* A step that leaves the calls and the documents alone.
LEMMA StreakQuiet ==
    ASSUME StreakInv, UNCHANGED <<doc, snap, pc, alone, seen>>
    PROVE  StreakInv'
  <1>1. \A o : RunOf(o)' = RunOf(o)
    BY DEF RunOf
  <1> QED BY <1>1 DEF StreakInv, OneCall, Quiet, RunsAre, Extended, doc, Document

LEMMA StreakInvStep == TypeInv /\ TypeInv' /\ Called /\ StreakInv /\ [SignatureNext]_signatureVars => StreakInv'
  <1> SUFFICES ASSUME TypeInv, TypeInv', Called, StreakInv, [SignatureNext]_signatureVars PROVE StreakInv'
    OBVIOUS
  <1> USE DEF TypeInv, CallsTyped, Steps
  <1>1. ASSUME NEW c \in Calls, Find(c) \/ Create(c) \/ CountOthers(c) PROVE StreakInv'
    <2>1. /\ UNCHANGED <<signed, totalBlocks, recent, streak, misses, snap, alone, seen>>
          /\ \E s \in {"create", "inc", "others", "idle"} : pc' = [pc EXCEPT ![c] = s]
          /\ pc[c] \in {"find", "create", "others"}
      BY <1>1 DEF Find, Create, CountOthers, doc, history
    <2>2. UNCHANGED Document /\ \A o : RunOf(o)' = RunOf(o)
      BY <2>1 DEF Document, RunOf
    <2>3. \A b \in Calls : /\ pc'[b] # "idle" => pc[b] # "idle"
                           /\ (pc'[b] \in {"read", "set"} \/ pc[b] \in {"read", "set"})
                                => pc'[b] = pc[b]
      BY <2>1
    <2> QED BY <2>1, <2>2, <2>3 DEF StreakInv, OneCall, Quiet, RunsAre, Extended
  <1>2. ASSUME NEW c \in Calls, Increment(c) PROVE StreakInv'
    <2> SUFFICES ASSUME alone' PROVE OneCall'
      BY DEF StreakInv, OneCall
    <2> DEFINE x == signs[c[2]]
    <2>1. /\ pc[c] = "inc" /\ pc' = [pc EXCEPT ![c] = "read"] /\ alone
          /\ recent' = LastN(Append(recent, x), RecentLimit) /\ seen' = Append(seen, x)
          /\ UNCHANGED <<streak, misses, snap>>
      BY <1>2 DEF Increment
    <2>2. x \in BOOLEAN /\ seen \in Seq(BOOLEAN) /\ recent \in Seq(BOOLEAN)
      BY HeightFact DEF SyncTyped, HistoryTyped, DocTyped, Document, DocumentType
    <2>3. recent'[Len(recent')] = x
      BY <2>1, <2>2, PushFact
    <2>4. \A b \in Calls : b # c => pc[b] = "idle" /\ pc'[b] = "idle"
      BY <2>1 DEF StreakInv, OneCall
    <2>5. RunsAre(streak, misses)
      BY <2>1, <2>4 DEF StreakInv, OneCall, Quiet
    <2>6. \A o \in BOOLEAN : RunOf(o)' = IF x = o THEN RunOf(o) + 1 ELSE 0
      <3>1. RunOf(TRUE) = RunIn(seen, TRUE) /\ RunOf(FALSE) = RunIn(seen, FALSE)
        BY DEF RunOf, RunIn
      <3>2. /\ RunOf(TRUE)' = RunIn(Append(seen, x), TRUE)
            /\ RunOf(FALSE)' = RunIn(Append(seen, x), FALSE)
        BY <2>1 DEF RunOf, RunIn
      <3> QED BY <2>2, <3>1, <3>2, RunFact
    <2>7. Document'.streak = streak /\ Document'.misses = misses
      BY <2>1 DEF Document
    <2>8. Extended(recent[Len(recent)], Document)'
      BY <2>2, <2>3, <2>5, <2>6, <2>7 DEF Extended, RunsAre
    <2>9. pc'[c] = "read"
      BY <2>1
    <2> QED BY <2>4, <2>8, <2>9 DEF OneCall, Quiet
  <1>3. ASSUME NEW c \in Calls, ReadBack(c) PROVE StreakInv'
    <2> SUFFICES ASSUME alone' PROVE OneCall'
      BY DEF StreakInv, OneCall
    <2>1. /\ pc[c] = "read" /\ pc' = [pc EXCEPT ![c] = "set"] /\ alone
          /\ snap' = [snap EXCEPT ![c] = Document] /\ UNCHANGED <<doc, seen>>
      BY <1>3 DEF ReadBack, history
    <2>2. \A b \in Calls : b # c => pc[b] = "idle" /\ pc'[b] = "idle"
      BY <2>1 DEF StreakInv, OneCall
    <2>3. Extended(recent[Len(recent)], Document)
      BY <2>1 DEF StreakInv, OneCall
    <2>4. snap'[c] = Document /\ Document.recent = recent
      BY <2>1 DEF DocTyped, Document
    <2>5. Extended(snap[c].recent[Len(snap[c].recent)], snap[c])'
      BY <2>1, <2>3, <2>4 DEF Extended, RunOf
    <2>6. pc'[c] = "set"
      BY <2>1
    <2> QED BY <2>2, <2>5, <2>6 DEF OneCall, Quiet
  <1>4. ASSUME NEW c \in Calls, SetTotals(c) PROVE StreakInv'
    <2> SUFFICES ASSUME alone' PROVE OneCall'
      BY DEF StreakInv, OneCall
    <2>1. /\ pc[c] = "set" /\ pc' = [pc EXCEPT ![c] = "idle"] /\ alone
          /\ streak' = Streak(c) /\ misses' = Misses(c) /\ UNCHANGED seen
      BY <1>4 DEF SetTotals, history
    <2>2. \A b \in Calls : pc'[b] = "idle"
      BY <2>1 DEF StreakInv, OneCall
    <2>3. Extended(snap[c].recent[Len(snap[c].recent)], snap[c])
      BY <2>1 DEF StreakInv, OneCall
    <2>4. RunsAre(streak, misses)'
      BY <2>1, <2>3 DEF Extended, RunsAre, RunOf, Streak, Misses
    <2> QED BY <2>2, <2>4 DEF OneCall
  <1>5. ASSUME NEW c \in Calls, CallFails(c) PROVE StreakInv'
    <2>1. errors' # errors
      BY <1>5 DEF CallFails, HistoryTyped
    <2>2. ~ alone'
      BY <1>5, <2>1, OverlapsFact DEF CallFails, HistoryTyped
    <2> QED BY <2>2 DEF StreakInv, OneCall
  <1>6. CASE NodeCommits \/ RunBatch
    BY <1>6, LaunchFact, StreakOverlaps DEF NodeCommits, RunBatch
  <1>7. CASE StartSync \/ GetHeight \/ GetLast \/ BatchDone \/ Search \/ SyncDone \/ UNCHANGED signatureVars
    BY <1>7, StreakQuiet DEF StartSync, GetHeight, GetLast, BatchDone, Search, SyncDone, signatureVars, history
  <1> QED BY <1>1, <1>2, <1>3, <1>4, <1>5, <1>6, <1>7 DEF SignatureNext, Handle

\* One block at a time, without errors, consecutiveSigned and consecutiveMissed
\* are the run at the end of all outcomes ever counted
\* (ValidatorSignatureService.handleNewBlock).
THEOREM StreaksAreTrueHolds == SignatureSpec => []StreaksAreTrue
  <1> DEFINE IInv == TypeInv /\ Called /\ StreakInv
  <1>1. SignatureInit => IInv
    <2> SUFFICES ASSUME SignatureInit PROVE Called /\ StreakInv
      BY TypeInit
    <2>1. Called
      BY DEF SignatureInit, Called, Calls
    <2>2. \A c \in Calls : pc[c] = "idle"
      BY DEF SignatureInit
    <2>3. \A o : RunOf(o) = 0
      <3>1. seen = <<>> /\ DOMAIN seen = {}
        BY EmptySeq DEF SignatureInit
      <3>2. \A o : {i \in DOMAIN seen : \A j \in i..Len(seen) : seen[j] = o} = {}
        BY <3>1
      <3> QED BY <3>2, FS_EmptySet DEF RunOf
    <2> QED BY <2>1, <2>2, <2>3 DEF StreakInv, OneCall, RunsAre, SignatureInit
  <1>2. IInv /\ [SignatureNext]_signatureVars => IInv'
    BY TypeStep, CalledStep, StreakInvStep
  <1>3. IInv => StreaksAreTrue
    BY DEF StreaksAreTrue, StreakInv, OneCall, RunsAre, Quiet, InFlight, Running, Calls
  <1> QED BY <1>1, <1>2, <1>3, PTL DEF SignatureSpec

\* What a document says of a validator: totals that bound each other whatever
\* overlaps, and streaks that are true while nothing does.
THEOREM StatisticsHoldAlways == SignatureSpec => []StatisticsHold
  BY TotalsBoundedHolds, StreaksAreTrueHolds, PTL DEF StatisticsHold


-----------------------------------------------------------------------------
(* The chain, and whose step it is.                                          *)

NodeTyped ==
    /\ chain \in Chains /\ sent \in 0..Len(chain.messages) /\ faults \in 0..MaxFaults

\* The messages sent are numbered from 1.
LEMMA SentFacts ==
    ASSUME NodeTyped
    PROVE  /\ sent \in Nat /\ 1..sent \subseteq DOMAIN chain.messages
           /\ Len(chain.messages) \in Nat
<1>1. chain.messages \in Seq({chain.messages[n] : n \in DOMAIN chain.messages})
  BY MessagesAssumption DEF NodeTyped
<1>2. Len(chain.messages) \in Nat /\ DOMAIN chain.messages = 1..Len(chain.messages)
  BY <1>1
<1> QED BY <1>2 DEF NodeTyped

LEMMA NodeInit == Init => NodeTyped
<1> SUFFICES ASSUME Init PROVE NodeTyped
  OBVIOUS
<1>1. chain \in Chains /\ sent = 0 /\ faults = 0 /\ MaxFaults \in Nat
  BY MessagesAssumption DEF Init, MessagesInit
<1>2. chain.messages \in Seq({chain.messages[n] : n \in DOMAIN chain.messages})
  BY <1>1, MessagesAssumption
<1>3. Len(chain.messages) \in Nat
  BY <1>2
<1> QED BY <1>1, <1>3 DEF NodeTyped

CkptAny == EpochStep \/ StatusStep \/ \E d \in Deliveries : CkptStart(d) \/ CkptStep(d)
GovAny == SyncStep \/ CheckStep \/ \E d \in Deliveries : GovStart(d) \/ GovStep(d)
CovAny == \E d \in Deliveries : CovStart(d) \/ CovStep(d)
TxAny ==
    \/ \E d \in Deliveries : TxStart(d) \/ TxStep(d) \/ SyncTx(d[1])
    \/ HourPasses \/ AskTotal \/ FindStats
    \/ \E k \in Counters : CounterStep(k)

\* Every step is one of each component's, or leaves it alone; the history
\* that takes place is settled from the start.
LEMMA StepSplit ==
    ASSUME [Next]_vars
    PROVE  /\ CovAny \/ UNCHANGED covVars
           /\ GovAny \/ UNCHANGED govVars
           /\ CkptAny \/ UNCHANGED ckptVars
           /\ TxAny \/ UNCHANGED txVars
           /\ chain' = chain
           /\ \/ sent' = sent
              \/ sent < Len(chain.messages) /\ sent' = sent + 1
<1> USE DEF node
<1>1. CASE NodeSends
  BY <1>1 DEF NodeSends, Sends
<1>2. ASSUME NEW d \in Deliveries, ProcessMessage(d)
      PROVE  /\ CovAny /\ GovAny /\ CkptAny /\ TxAny /\ chain' = chain /\ sent' = sent
  BY <1>2 DEF ProcessMessage, CovAny, GovAny, CkptAny, TxAny
<1>3. ASSUME NEW d \in Deliveries, Covenants(d)
      PROVE  CovAny /\ UNCHANGED <<chain, sent, govVars, ckptVars, txVars>>
  BY <1>3 DEF Covenants, CovAny
<1>4. CASE Proposals
  BY <1>4 DEF Proposals, GovAny
<1>5. CASE EpochCheckpoints
  BY <1>5 DEF EpochCheckpoints, CkptAny
<1>6. CASE Transactions
  BY <1>6 DEF Transactions, TxAny
<1>7. CASE UNCHANGED vars
  BY <1>7 DEF vars
<1> QED BY <1>1, <1>2, <1>3, <1>4, <1>5, <1>6, <1>7 DEF Next

\* A step costs one error or none.
LEMMA FaultsStep ==
    ASSUME [Next]_vars
    PROVE  faults' = faults \/ Costs
<1>1. CASE NodeSends
  BY <1>1 DEF NodeSends, Sends
<1>2. ASSUME NEW d \in Deliveries, ProcessMessage(d) \/ Covenants(d)
      PROVE  faults' = faults \/ Costs
  BY <1>2 DEF ProcessMessage, Covenants, CovStart, CovStep, CreatePending, FindToSign,
              MarkAsSigned, FindToMiss, MarkAsMissed, MissedAll, CovFails
<1>3. CASE Proposals
  BY <1>3 DEF Proposals, SyncStep, CheckStep, GovStep, FindVotes, SaveVote, FetchProposal,
              UpdateProposal, ChangeStatus, GovFails, ListProposals, UpsertProposal, ListVotes,
              FindProposalVotes, ProcessVotes, SyncFails, CheckEnded, UpdateEnded
<1>4. CASE EpochCheckpoints
  BY <1>4 DEF EpochCheckpoints, EpochStep, StatusStep, CkptStep, FindCheckpoint,
              CreateCheckpoint, UpdateCheckpoint, FetchCheckpoint, StoreVotes, CkptFails,
              ListEpochs, FetchEpoch, StoreEpochVotes, EpochSyncFails, ListStatuses, AskStatus,
              WriteStatus, StatusSyncFails
<1>5. CASE Transactions
  BY <1>5 DEF Transactions, TxStep, ProcessTx, SaveAgain, TxFails, SyncTx, HourPasses, AskTotal,
              FindStats, CounterStep, CountTxs, WriteStats, CountFails
<1>6. CASE UNCHANGED vars
  BY <1>6 DEF vars
<1> QED BY <1>1, <1>2, <1>3, <1>4, <1>5, <1>6 DEF Next

LEMMA NodeStep ==
    ASSUME NodeTyped, [Next]_vars
    PROVE  NodeTyped'
<1>1. faults' \in 0..MaxFaults
  BY FaultsStep, MessagesAssumption DEF NodeTyped, Costs
<1>2. sent' \in 0..Len(chain.messages) /\ chain' = chain
  <2>1. /\ chain' = chain
        /\ \/ sent' = sent
           \/ sent < Len(chain.messages) /\ sent' = sent + 1
    BY StepSplit
  <2>2. sent \in 0..Len(chain.messages) /\ Len(chain.messages) \in Nat
    BY SentFacts DEF NodeTyped
  <2> QED BY <2>1, <2>2
<1> QED BY <1>1, <1>2 DEF NodeTyped

-----------------------------------------------------------------------------
(* The covenant's document.  A copy nobody has outdated is the document;     *)
(* what is pending in the document is pending in every copy, so the last     *)
(* entry of a copy that was pending takes the document's with it.            *)

\* A call that has loaded the document.
Holds(d) == covCalls[d].pc \in {"signing", "missing"}

CopyOf(c) ==
    /\ record
    /\ c.fresh => c.state = state /\ c.signed = signedCount /\ c.missed = missedCount
    /\ With(state, "PENDING") \subseteq With(c.state, "PENDING")

CovInv ==
    /\ CovTypeOK /\ CountsAgree /\ NothingPending
    /\ \A d \in Deliveries : Holds(d) => CopyOf(covCalls[d].copy)
    /\ record \/ (state = AllPending /\ ~closed)

\* The members of one state can be counted.
LEMMA WithFacts ==
    ASSUME NEW s, NEW st
    PROVE  With(s, st) \subseteq Members
           /\ Cardinality(With(s, st)) \in 0..Cardinality(Members)
<1>1. With(s, st) \subseteq Members
  BY DEF With
<1>2. IsFiniteSet(Members)
  BY CovenantAssumption
<1>3. /\ Cardinality(With(s, st)) \in Nat /\ Cardinality(Members) \in Nat
      /\ Cardinality(With(s, st)) <= Cardinality(Members)
  BY <1>1, <1>2, FS_Subset, FS_CardinalityType
<1> QED BY <1>1, <1>3

LEMMA NothingIsSigned ==
    Cardinality(With(AllPending, "SIGNED")) = 0 /\ Cardinality(With(AllPending, "MISSED")) = 0
<1>1. With(AllPending, "SIGNED") = {} /\ With(AllPending, "MISSED") = {}
  BY DEF With, AllPending
<1> QED BY <1>1, FS_EmptySet

CovSteps == {"none", "create", "sign", "signing", "state", "missing", "done"}

\* What follows each look for an event.
LEMMA CovNextSteps ==
    ASSUME NEW d
    PROVE  /\ AfterSign(d) \in {"state", "done"}
           /\ AfterCreate(d) \in {"sign", "state", "done"}
           /\ FirstCall(d) \in {"create", "sign", "state", "done"}
BY DEF AfterSign, AfterCreate, FirstCall

LEMMA CovTyped ==
    ASSUME CovInv
    PROVE  /\ covCalls \in [Deliveries -> [pc : CovSteps, copy : Copies]]
           /\ CovNoCopy \in Copies /\ CovLoaded \in Copies
<1>1. signedCount \in Nat /\ missedCount \in Nat
  BY CovenantAssumption, FS_CardinalityType DEF CovInv, CovTypeOK
<1>2. state \in [Members -> {"PENDING", "SIGNED", "MISSED"}]
  BY DEF CovInv, CovTypeOK
<1> QED BY <1>1, <1>2 DEF CovInv, CovTypeOK, CovSteps, CovNoCopy, CovLoaded, AllPending, Copies

\* A call goes on to another look, without a copy; the document stays.
LEMMA CovGoesOn ==
    ASSUME CovInv, NEW d \in Deliveries, NEW place \in CovSteps \ {"signing", "missing"},
           covCalls' = CovGoto(d, place), UNCHANGED <<covDocument, miscounted>>,
           \/ closed' = closed
           \/ record /\ With(state, "PENDING") = {} /\ closed' = TRUE
    PROVE  CovInv'
<1>1. covCalls \in [Deliveries -> [pc : CovSteps, copy : Copies]] /\ CovNoCopy \in Copies
  BY CovTyped
<1>2. CovGoto(d, place) \in [Deliveries -> [pc : CovSteps, copy : Copies]]
      /\ CovGoto(d, place)[d].pc = place
      /\ \A e \in Deliveries \ {d} : CovGoto(d, place)[e] = covCalls[e]
  BY <1>1 DEF CovGoto, CovIdle
<1>3. UNCHANGED <<record, state, signedCount, missedCount, miscounted>>
  BY DEF covDocument
<1>4. CovTypeOK'
  BY <1>2, <1>3 DEF CovInv, CovTypeOK, CovSteps
<1>5. CountsAgree' /\ NothingPending'
  BY <1>3 DEF CovInv, CountsAgree, NothingPending, With
<1>6. ASSUME NEW e \in Deliveries, Holds(e)' PROVE CopyOf(covCalls[e].copy)'
  <2>1. e # d
    BY <1>2, <1>6 DEF Holds
  <2> QED BY <1>2, <1>3, <1>6, <2>1 DEF CovInv, CopyOf, Holds, With
<1>7. (record \/ (state = AllPending /\ ~closed))'
  BY <1>3 DEF CovInv, AllPending
<1> QED BY <1>4, <1>5, <1>6, <1>7 DEF CovInv

\* A call loads the document.
LEMMA CovLoads ==
    ASSUME CovInv, NEW d \in Deliveries, NEW place \in {"signing", "missing"}, record,
           covCalls' = CovLoad(d, place), UNCHANGED <<covDocument, covHistory>>
    PROVE  CovInv'
<1>1. covCalls \in [Deliveries -> [pc : CovSteps, copy : Copies]] /\ CovLoaded \in Copies
  BY CovTyped
<1>2. /\ covCalls' \in [Deliveries -> [pc : CovSteps, copy : Copies]]
      /\ covCalls'[d].copy = CovLoaded
      /\ \A e \in Deliveries \ {d} : covCalls'[e] = covCalls[e]
  BY <1>1 DEF CovLoad, CovSteps
<1>3. UNCHANGED <<record, state, signedCount, missedCount, miscounted, closed>>
  BY DEF covDocument, covHistory
<1>4. CovTypeOK' /\ CountsAgree' /\ NothingPending'
  BY <1>2, <1>3 DEF CovInv, CovTypeOK, CovSteps, CountsAgree, NothingPending, With
<1>5. ASSUME NEW e \in Deliveries, Holds(e)' PROVE CopyOf(covCalls[e].copy)'
  <2>1. CASE e = d
    BY <1>2, <1>3, <2>1 DEF CopyOf, CovLoaded, With
  <2>2. CASE e # d
    BY <1>2, <1>3, <1>5, <2>2 DEF CovInv, CopyOf, Holds, With
  <2> QED BY <2>1, <2>2
<1> QED BY <1>3, <1>4, <1>5 DEF CovInv, AllPending

\* A call saves one entry: a copy that was up to date is the document again,
\* every other one is outdated, and nothing becomes pending.
LEMMA CovSaves ==
    ASSUME CovInv, NEW d \in Deliveries, Holds(d), NEW m, NEW st \in {"SIGNED", "MISSED"},
           SaveEntry(d, m, st), closed' = closed
    PROVE  CovInv'
<1> DEFINE copy == covCalls[d].copy
           own  == [copy.state EXCEPT ![m] = st]
           s    == Cardinality(With(own, "SIGNED"))
           n    == Cardinality(With(own, "MISSED"))
           kept == [state |-> own, signed |-> s, missed |-> n, fresh |-> copy.fresh]
           ends == [pc |-> IF st = "SIGNED" THEN AfterSign(d) ELSE "missing",
                    copy |-> IF st = "SIGNED" THEN CovNoCopy ELSE kept]
<1>1. /\ covCalls \in [Deliveries -> [pc : CovSteps, copy : Copies]]
      /\ CovNoCopy \in Copies /\ AfterSign(d) \in {"state", "done"}
  BY CovTyped, CovNextSteps
<1>2. copy \in Copies /\ CopyOf(copy) /\ record
  BY <1>1 DEF CovInv, CopyOf
<1>3. /\ copy.state \in [Members -> {"PENDING", "SIGNED", "MISSED"}]
      /\ copy.signed \in Nat /\ copy.missed \in Nat /\ copy.fresh \in BOOLEAN
  BY <1>2 DEF Copies
<1>4. /\ state \in [Members -> {"PENDING", "SIGNED", "MISSED"}]
      /\ signedCount \in 0..Cardinality(Members) /\ missedCount \in 0..Cardinality(Members)
  BY DEF CovInv, CovTypeOK
<1>5. own \in [Members -> {"PENDING", "SIGNED", "MISSED"}]
      /\ s \in 0..Cardinality(Members) /\ n \in 0..Cardinality(Members)
  <2>1. own \in [Members -> {"PENDING", "SIGNED", "MISSED"}]
    BY <1>3
  <2> HIDE DEF own
  <2> QED BY <2>1, WithFacts
<1>6. s \in Nat /\ n \in Nat
  BY <1>5, CovenantAssumption, FS_CardinalityType
<1>7. /\ record' = record
      /\ state' = IF copy.state[m] = st THEN state ELSE [state EXCEPT ![m] = st]
      /\ signedCount' = IF s = copy.signed THEN signedCount ELSE s
      /\ missedCount' = IF n = copy.missed THEN missedCount ELSE n
      /\ miscounted' = ~copy.fresh
  BY DEF SaveEntry
<1>8. covCalls' = [e \in Deliveries |->
                     IF e = d THEN ends ELSE CovOutdated(e, covDocument' # covDocument)]
  BY DEF SaveEntry
<1>9. kept \in Copies
  BY <1>3, <1>5, <1>6 DEF Copies
<1>10. ends \in [pc : CovSteps, copy : Copies]
  <2> HIDE DEF kept
  <2> QED BY <1>1, <1>9 DEF CovSteps
<1>11. \A e \in Deliveries, b \in BOOLEAN : CovOutdated(e, b) \in [pc : CovSteps, copy : Copies]
  BY <1>1 DEF CovOutdated, Copies
<1>12. covCalls' \in [Deliveries -> [pc : CovSteps, copy : Copies]]
  <2> HIDE DEF ends
  <2> QED BY <1>8, <1>10, <1>11
<1>13. state' \in [Members -> {"PENDING", "SIGNED", "MISSED"}]
  BY <1>4, <1>7
<1>14. CovTypeOK'
  <2>1. /\ record' \in BOOLEAN /\ miscounted' \in BOOLEAN /\ closed' \in BOOLEAN
        /\ signedCount' \in 0..Cardinality(Members)
        /\ missedCount' \in 0..Cardinality(Members)
    <3> HIDE DEF s, n, copy
    <3> QED BY <1>3, <1>4, <1>5, <1>7 DEF CovInv, CovTypeOK
  <2> QED BY <1>12, <1>13, <2>1 DEF CovTypeOK, CovSteps
<1>15. copy.fresh => state' = own /\ signedCount' = s /\ missedCount' = n
  <2> SUFFICES ASSUME copy.fresh PROVE state' = own /\ signedCount' = s /\ missedCount' = n
    OBVIOUS
  <2>1. copy.state = state /\ copy.signed = signedCount /\ copy.missed = missedCount
    BY <1>2 DEF CopyOf
  <2>2. state' = own
    <3>1. copy.state[m] = st => own = copy.state
      BY <1>3
    <3> QED BY <1>7, <2>1, <3>1
  <2> HIDE DEF own, s, n, copy
  <2> QED BY <1>7, <2>1, <2>2
<1>16. CountsAgree'
  <2>1. CASE copy.fresh
    <3>1. With(state', "SIGNED") = With(own, "SIGNED") /\ With(state', "MISSED") = With(own, "MISSED")
      BY <1>15, <2>1
    <3> QED BY <1>15, <2>1, <3>1 DEF CountsAgree, With
  <2>2. CASE ~copy.fresh
    BY <1>7, <2>2 DEF CountsAgree
  <2> QED BY <2>1, <2>2
<1>17. /\ With(state', "PENDING") \subseteq With(state, "PENDING")
       /\ With(state', "PENDING") \subseteq With(own, "PENDING")
  <2>1. ASSUME NEW x \in Members, state'[x] = "PENDING" PROVE state[x] = "PENDING" /\ own[x] = "PENDING"
    <3>1. state[x] = "PENDING"
      BY <1>4, <1>7, <2>1
    <3>2. copy.state[x] = "PENDING"
      BY <1>2, <3>1 DEF CopyOf, With
    <3>3. x # m
      BY <1>4, <1>7, <2>1, <3>2
    <3> QED BY <1>3, <3>1, <3>2, <3>3
  <2> HIDE DEF own
  <2> QED BY <2>1 DEF With
<1>18. NothingPending'
  BY <1>17 DEF CovInv, NothingPending, With
<1>19. ASSUME NEW e \in Deliveries, Holds(e)' PROVE CopyOf(covCalls[e].copy)'
  <2>1. CASE e = d
    <3>1. st = "MISSED" /\ covCalls'[e].copy = kept
      BY <1>1, <1>8, <1>19, <2>1 DEF Holds
    <3>2. kept.state = own /\ kept.signed = s /\ kept.missed = n /\ kept.fresh = copy.fresh
      OBVIOUS
    <3> HIDE DEF kept, own, s, n, copy
    <3> QED BY <1>2, <1>7, <1>15, <1>17, <3>1, <3>2 DEF CopyOf, With
  <2>2. CASE e # d
    <3>1. covCalls'[e] = CovOutdated(e, covDocument' # covDocument)
      BY <1>8, <2>2
    <3>2. covCalls'[e].pc = covCalls[e].pc /\ covCalls'[e].copy.state = covCalls[e].copy.state
          /\ covCalls'[e].copy.signed = covCalls[e].copy.signed
          /\ covCalls'[e].copy.missed = covCalls[e].copy.missed
      BY <1>1, <3>1 DEF CovOutdated, Copies
    <3>3. Holds(e) /\ CopyOf(covCalls[e].copy)
      BY <1>19, <3>2 DEF Holds, CovInv
    <3>4. covCalls'[e].copy.fresh => covCalls[e].copy.fresh /\ covDocument' = covDocument
      BY <1>1, <3>1, <3>3 DEF CovOutdated, Copies, Holds
    <3>5. covDocument' = covDocument =>
            UNCHANGED <<state, signedCount, missedCount>>
      BY DEF covDocument
    <3> QED BY <1>2, <1>7, <1>17, <3>2, <3>3, <3>4, <3>5 DEF CopyOf, With
  <2> QED BY <2>1, <2>2
<1> QED BY <1>2, <1>7, <1>14, <1>16, <1>18, <1>19 DEF CovInv

LEMMA CovInvInit == Init => CovInv
<1> SUFFICES ASSUME Init PROVE CovInv
  OBVIOUS
<1>1. /\ record = FALSE /\ state = AllPending /\ signedCount = 0 /\ missedCount = 0
      /\ covCalls = [d \in Deliveries |-> CovIdle] /\ miscounted = FALSE /\ closed = FALSE
  BY DEF Init, CovInit
<1>2. CovNoCopy \in Copies
  BY DEF CovNoCopy, Copies, AllPending
<1>3. CovTypeOK
  <2>1. 0 \in 0..Cardinality(Members)
    BY CovenantAssumption, FS_CardinalityType
  <2> QED BY <1>1, <1>2, <2>1 DEF CovTypeOK, CovIdle, AllPending
<1> QED BY <1>1, <1>3, NothingIsSigned DEF CovInv, CountsAgree, NothingPending, Holds, CovIdle

LEMMA CovInvStep ==
    ASSUME CovInv, [Next]_vars
    PROVE  CovInv'
<1>1. ASSUME NEW d \in Deliveries, CovStart(d) PROVE CovInv'
  <2> DEFINE place == IF d[2] \in TxQueries THEN FirstCall(d) ELSE "done"
  <2>1. place \in CovSteps \ {"signing", "missing"}
    BY CovNextSteps DEF CovSteps
  <2>2. covCalls' = CovGoto(d, place) /\ UNCHANGED <<covDocument, miscounted, closed>>
    BY <1>1 DEF CovStart, covHistory
  <2> HIDE DEF place
  <2> QED BY <2>1, <2>2, CovGoesOn
<1>2. ASSUME NEW d \in Deliveries, CreatePending(d) PROVE CovInv'
  <2>0. AfterCreate(d) \in CovSteps \ {"signing", "missing"}
    BY CovNextSteps DEF CovSteps
  <2>1. CASE record
    <3>1. covCalls' = CovGoto(d, AfterCreate(d)) /\ UNCHANGED <<covDocument, miscounted, closed>>
      BY <1>2, <2>1 DEF CreatePending, covDocument
    <3> QED BY <2>0, <3>1, CovGoesOn
  <2>2. CASE ~record
    <3>1. /\ covCalls' = CovGoto(d, AfterCreate(d)) /\ record' = TRUE
          /\ state' = AllPending /\ signedCount' = 0 /\ missedCount' = 0
          /\ miscounted' = FALSE /\ closed' = FALSE
      BY <1>2, <2>2 DEF CreatePending, CovInv, CovTypeOK
    <3>2. \A e \in Deliveries : ~Holds(e)
      BY <2>2 DEF CovInv, CopyOf
    <3>3. covCalls \in [Deliveries -> [pc : CovSteps, copy : Copies]] /\ CovNoCopy \in Copies
      BY CovTyped
    <3>4. /\ covCalls' \in [Deliveries -> [pc : CovSteps, copy : Copies]]
          /\ \A e \in Deliveries : ~Holds(e)'
      BY <2>0, <3>1, <3>2, <3>3 DEF CovGoto, CovIdle, Holds
    <3>5. CovTypeOK'
      <4>1. 0 \in 0..Cardinality(Members)
        BY CovenantAssumption, FS_CardinalityType
      <4>2. AllPending \in [Members -> {"PENDING", "SIGNED", "MISSED"}]
        BY DEF AllPending
      <4> QED BY <3>1, <3>4, <4>1, <4>2 DEF CovTypeOK, CovSteps
    <3>6. CountsAgree' /\ NothingPending'
      BY <3>1, NothingIsSigned DEF CountsAgree, NothingPending, With
    <3> QED BY <3>1, <3>4, <3>5, <3>6 DEF CovInv
  <2> QED BY <2>1, <2>2
<1>3. ASSUME NEW d \in Deliveries, FindToSign(d) PROVE CovInv'
  <2>0. AfterSign(d) \in CovSteps \ {"signing", "missing"}
    BY CovNextSteps DEF CovSteps
  <2>1. UNCHANGED <<covDocument, covHistory>> /\ UNCHANGED <<covDocument, miscounted, closed>>
    BY <1>3 DEF FindToSign, covHistory
  <2>2. CASE record
    <3>1. covCalls' = CovLoad(d, "signing")
      BY <1>3, <2>2 DEF FindToSign
    <3> QED BY <2>1, <2>2, <3>1, CovLoads
  <2>3. CASE ~record
    <3>1. covCalls' = CovGoto(d, AfterSign(d))
      BY <1>3, <2>3 DEF FindToSign
    <3> QED BY <2>0, <2>1, <3>1, CovGoesOn
  <2> QED BY <2>2, <2>3
<1>4. ASSUME NEW d \in Deliveries, MarkAsSigned(d) PROVE CovInv'
  BY <1>4, CovSaves DEF MarkAsSigned, Holds
<1>5. ASSUME NEW d \in Deliveries, FindToMiss(d) PROVE CovInv'
  <2>1. UNCHANGED <<covDocument, covHistory>> /\ UNCHANGED <<covDocument, miscounted, closed>>
    BY <1>5 DEF FindToMiss, covHistory
  <2>2. CASE record /\ The(d, StateUpdate).what = "ACTIVE"
    <3>1. covCalls' = CovLoad(d, "missing")
      BY <1>5, <2>2 DEF FindToMiss
    <3> QED BY <2>1, <2>2, <3>1, CovLoads
  <2>3. CASE ~(record /\ The(d, StateUpdate).what = "ACTIVE")
    <3>1. covCalls' = CovGoto(d, "done")
      BY <1>5, <2>3 DEF FindToMiss
    <3> QED BY <2>1, <3>1, CovGoesOn DEF CovSteps
  <2> QED BY <2>2, <2>3
<1>6. ASSUME NEW d \in Deliveries, MarkAsMissed(d) PROVE CovInv'
  <2>1. \E m : SaveEntry(d, m, "MISSED")
    BY <1>6 DEF MarkAsMissed
  <2> QED BY <1>6, <2>1, CovSaves DEF MarkAsMissed, Holds
<1>7. ASSUME NEW d \in Deliveries, MissedAll(d) PROVE CovInv'
  <2>1. CopyOf(covCalls[d].copy) /\ With(covCalls[d].copy.state, "PENDING") = {}
    BY <1>7 DEF MissedAll, CovInv, Holds
  <2>2. record /\ With(state, "PENDING") = {}
    BY <2>1 DEF CopyOf
  <2>3. covCalls' = CovGoto(d, "done") /\ closed' = TRUE
        /\ UNCHANGED <<covDocument, miscounted>>
    BY <1>7 DEF MissedAll
  <2> QED BY <2>2, <2>3, CovGoesOn DEF CovSteps
<1>8. ASSUME NEW d \in Deliveries, CovFails(d) PROVE CovInv'
  BY <1>8, CovGoesOn DEF CovFails, CovSteps
<1>9. CASE UNCHANGED covVars
  BY <1>9 DEF covVars, covDocument, covHistory, CovInv, CovTypeOK, CountsAgree, NothingPending,
              With, Holds, CopyOf
<1> QED BY <1>1, <1>2, <1>3, <1>4, <1>5, <1>6, <1>7, <1>8, <1>9, StepSplit DEF CovAny, CovStep

\* What a step may do to a recorded signature.
LEMMA SignatureStep ==
    ASSUME CovInv, [Next]_vars, NEW m \in Members, state[m] = "SIGNED", state'[m] # "SIGNED"
    PROVE  \E d \in Deliveries : /\ covCalls[d].pc = "missing"
                                 /\ covCalls[d].copy.state[m] = "PENDING"
<1>1. state' # state
  OBVIOUS
<1>2. state \in [Members -> {"PENDING", "SIGNED", "MISSED"}]
  BY DEF CovInv, CovTypeOK
<1>3. CASE \E d \in Deliveries : CreatePending(d)
  BY <1>1, <1>3 DEF CreatePending, CovInv
<1>4. ASSUME NEW d \in Deliveries, MarkAsSigned(d) PROVE FALSE
  BY <1>2, <1>4 DEF MarkAsSigned, SaveEntry
<1>5. ASSUME NEW d \in Deliveries, MarkAsMissed(d)
      PROVE  covCalls[d].pc = "missing" /\ covCalls[d].copy.state[m] = "PENDING"
  <2> DEFINE left == With(covCalls[d].copy.state, "PENDING")
             x    == CHOOSE y \in left : TRUE
  <2>1. covCalls[d].pc = "missing" /\ left # {} /\ SaveEntry(d, x, "MISSED")
    BY <1>5 DEF MarkAsMissed
  <2>2. x \in left
    BY <2>1
  <2> HIDE DEF x
  <2>3. x = m
    BY <1>2, <2>1 DEF SaveEntry
  <2> QED BY <2>1, <2>2, <2>3 DEF With
<1>6. CASE \E d \in Deliveries : \/ CovStart(d) \/ FindToSign(d) \/ FindToMiss(d)
                                 \/ MissedAll(d) \/ CovFails(d)
  BY <1>1, <1>6 DEF CovStart, FindToSign, FindToMiss, MissedAll, CovFails, covDocument
<1>7. CASE UNCHANGED covVars
  BY <1>1, <1>7 DEF covVars, covDocument
<1> QED BY <1>3, <1>4, <1>5, <1>6, <1>7, StepSplit DEF CovAny, CovStep

\* A recorded signature is taken back only by an ACTIVE update that had loaded
\* the document before it (CovenantSignatureService.handleStateChange).
THEOREM KeepsSignaturesHolds == Spec => KeepsSignatures
<1>1. CovInv /\ [Next]_vars => CovInv'
  BY CovInvStep
<1>2. CovInv /\ [Next]_vars =>
        [\A m \in Members : state[m] = "SIGNED" /\ state'[m] # "SIGNED" =>
           \E d \in Deliveries : /\ covCalls[d].pc = "missing"
                                 /\ covCalls[d].copy.state[m] = "PENDING"]_covVars
  BY SignatureStep
<1> QED BY <1>1, <1>2, CovInvInit, PTL DEF Spec, KeepsSignatures

-----------------------------------------------------------------------------
(* The votes of a proposal: again, a copy nobody has outdated is the         *)
(* document, and what is saved is counted over the copy.                     *)

GovCopies == [new : BOOLEAN, votes : VoteChoices, counts : [Countable -> Nat],
              count : Nat, fresh : BOOLEAN]
GovSteps == {"none", "vote", "save", "submit", "store", "status", "done"}
GovCallType == [pc : GovSteps, fetched : Statuses, copy : GovCopies]
IndexSteps == {"off", "none", "upsert", "votes", "find", "save", "done"}

GovTyped ==
    /\ votesDoc \in BOOLEAN /\ votes \in VoteChoices
    /\ voteCounts \in [Countable -> Nat] /\ voteCount \in Nat
    /\ status \in Statuses /\ checked \in Statuses /\ miscast \in BOOLEAN
    /\ govCalls \in [Deliveries -> GovCallType]
    /\ indexer = [pc |-> indexer.pc, listed |-> indexer.listed, votes |-> indexer.votes,
                  again |-> indexer.again, copy |-> indexer.copy]
    /\ indexer.pc \in IndexSteps /\ indexer.listed \in Statuses /\ indexer.copy \in GovCopies

UpToDate(c) ==
    c.fresh => /\ c.new = ~votesDoc /\ c.votes = votes
               /\ c.counts = voteCounts /\ c.count = voteCount

GovInv ==
    /\ GovTyped /\ TallyAgrees
    /\ \A d \in Deliveries : govCalls[d].pc = "save" => UpToDate(govCalls[d].copy)
    /\ indexer.pc = "save" => UpToDate(indexer.copy)
    /\ \A d \in Deliveries : govCalls[d].pc # "none" => d[1] <= sent
    /\ \A d \in Deliveries : govCalls[d].pc = "status" => Has(d, StatusChange)

LEMMA GovTypeFact == GovTyped => GovTypeOK
BY DEF GovTyped, GovTypeOK, GovCallType, GovSteps, IndexSteps, GovCopies, CopyOK

\* Counting votes gives a power for each option, and a number of voters.
LEMMA CountFacts ==
    ASSUME NEW vs
    PROVE  CountOf(vs) \in [Countable -> Nat] /\ Cardinality(Cast(vs)) \in Nat
<1>1. ASSUME NEW o PROVE SumFunctionOnSet(Power, {v \in Voters : vs[v] = o}) \in Nat
  <2> DEFINE S == {v \in Voters : vs[v] = o}
  <2>1. IsFiniteSet(S) /\ \A v \in S : Power[v] \in Nat
    BY GovernanceAssumption, FS_Subset
  <2> HIDE DEF S
  <2>2. SumFunctionOnSet(Power, S) \in Nat
    BY <2>1, SumNat
  <2> QED BY <2>2 DEF S
<1>2. Cardinality(Cast(vs)) \in Nat
  <2>1. Cast(vs) \subseteq Voters
    BY DEF Cast
  <2> QED BY <2>1, GovernanceAssumption, FS_Subset, FS_CardinalityType
<1> QED BY <1>1, <1>2 DEF CountOf

LEMMA NobodyVoted ==
    CountOf(NoVotes) = NoCounts /\ Cardinality(Cast(NoVotes)) = 0 /\ NoVotes \in VoteChoices
    /\ NoCounts \in [Countable -> Nat]
<1>1. \A o \in Countable : {v \in Voters : NoVotes[v] = o} = {}
  BY GovernanceAssumption DEF NoVotes, Countable, Options
<1>2. \A o \in Countable : SumFunctionOnSet(Power, {v \in Voters : NoVotes[v] = o}) = 0
  BY <1>1, SumEmpty
<1>3. CountOf(NoVotes) = NoCounts
  BY <1>2 DEF CountOf, NoCounts
<1>4. Cast(NoVotes) = {}
  BY DEF Cast, NoVotes
<1> QED BY <1>3, <1>4, FS_EmptySet DEF NoVotes, VoteChoices, NoCounts

\* A set of numbers that is bounded and not empty has a greatest.
LEMMA GreatestOf ==
    ASSUME NEW n \in Nat, NEW S \in SUBSET (0..n), S # {}
    PROVE  \E m \in S : \A k \in S : k <= m
<1> DEFINE G == {b \in Nat : \A T \in SUBSET (0..b) : T # {} => \E m \in T : \A k \in T : k <= m}
<1>1. 0 \in G
  <2>1. ASSUME NEW T \in SUBSET (0..0), T # {} PROVE \E m \in T : \A k \in T : k <= m
    <3>1. \A k \in T : k = 0
      OBVIOUS
    <3>2. 0 \in T
      BY <2>1, <3>1
    <3> QED BY <3>1, <3>2
  <2> QED BY <2>1
<1>2. ASSUME NEW b \in Nat, b \in G PROVE b + 1 \in G
  <2> SUFFICES ASSUME NEW T \in SUBSET (0..(b + 1)), T # {}
               PROVE  \E m \in T : \A k \in T : k <= m
    OBVIOUS
  <2>1. CASE b + 1 \in T
    <3>1. \A k \in T : k <= b + 1
      OBVIOUS
    <3> QED BY <2>1, <3>1
  <2>2. CASE b + 1 \notin T
    <3>1. T \in SUBSET (0..b)
      BY <2>2
    <3> QED BY <1>2, <3>1
  <2> QED BY <2>1, <2>2
<1>3. n \in G
  <2> HIDE DEF G
  <2> QED BY <1>1, <1>2, NumberInduction
<1> QED BY <1>3

\* The messages are numbered from 1, and a delivery is one of a message.
LEMMA DeliveryFact == \A d \in Deliveries : d[1] \in Nat /\ d[1] >= 1
<1>1. ASSUME NEW c \in Chains, NEW n \in DOMAIN c.messages PROVE n \in Nat /\ n >= 1
  <2>1. c.messages \in Seq({c.messages[i] : i \in DOMAIN c.messages})
    BY MessagesAssumption
  <2>2. Len(c.messages) \in Nat /\ DOMAIN c.messages = 1..Len(c.messages)
    BY <2>1
  <2> QED BY <2>2
<1> QED BY <1>1 DEF Deliveries

\* The statuses the chain has are those it may have.
LEMMA StatusAtFact ==
    ASSUME NodeTyped
    PROVE  StatusAt(sent) \in Statuses
<1> DEFINE ended == EventsUpTo(sent, StatusChange)
           latest == CHOOSE p \in ended : \A q \in ended : q[2] <= p[2]
           S == {p[2] : p \in ended}
<1>1. sent \in Nat /\ 1..sent \subseteq DOMAIN chain.messages
  BY SentFacts
<1>2. \A p \in ended : p[1].what \in Statuses /\ p[2] \in 0..sent
  <2>1. ASSUME NEW n \in 1..sent, NEW e \in EventsOf(n), e.type = StatusChange
        PROVE  e.what \in Statuses
    BY <1>1, <2>1, GovernanceAssumption DEF NodeTyped, EventsOf
  <2> QED BY <1>1, <2>1 DEF EventsUpTo
<1>3. ASSUME ended # {} PROVE \E p \in ended : \A q \in ended : q[2] <= p[2]
  <2>1. S \in SUBSET (0..sent) /\ S # {}
    BY <1>2, <1>3
  <2>2. PICK m \in S : \A k \in S : k <= m
    <3> HIDE DEF S
    <3> QED BY <1>1, <2>1, GreatestOf
  <2> QED BY <2>2
<1>4. ended # {} => latest[1].what \in Statuses
  <2> HIDE DEF ended
  <2> QED BY <1>2, <1>3
<1>5. StatusAt(sent) = IF EventsUpTo(sent, Submission) = {} THEN "none"
                       ELSE IF ended = {} THEN "VOTING" ELSE latest[1].what
  BY DEF StatusAt
<1> HIDE DEF ended, latest
<1> QED BY <1>4, <1>5 DEF Statuses

\* A message of a status names one.
LEMMA StatusOfFact ==
    ASSUME NodeTyped, NEW d \in Deliveries, d[1] <= sent, Has(d, StatusChange)
    PROVE  The(d, StatusChange).what \in Statuses
<1>1. d[1] \in DOMAIN chain.messages
  BY DeliveryFact, SentFacts
<1>2. \A e \in EventsOf(d[1]) : e.type = StatusChange => e.what \in Statuses
  BY <1>1, GovernanceAssumption DEF NodeTyped, EventsOf
<1> QED BY <1>2 DEF Has, The

\* What follows each look for an event.
LEMMA GovNextSteps ==
    ASSUME NEW d
    PROVE  \A place \in {AfterSubmit(d), AfterVote(d), FirstStage(d), AfterStage(d)} :
             /\ place \in {"vote", "submit", "status", "done"}
             /\ place = "status" => Has(d, StatusChange)
<1>1. AfterSubmit(d) \in {"status", "done"} /\ (AfterSubmit(d) = "status" => Has(d, StatusChange))
  BY DEF AfterSubmit
<1>2. /\ AfterVote(d) \in {"submit", "status", "done"}
      /\ AfterVote(d) = "status" => Has(d, StatusChange)
  BY <1>1 DEF AfterVote
<1>3. FirstStage(d) \in {"vote", "submit", "status", "done"}
      /\ (FirstStage(d) = "status" => Has(d, StatusChange))
  BY <1>2 DEF FirstStage
<1>4. AfterStage(d) \in {AfterVote(d), AfterSubmit(d), "done"}
  BY DEF AfterStage
<1> QED BY <1>1, <1>2, <1>3, <1>4

LEMMA GovCopyTypes ==
    ASSUME GovTyped
    PROVE  /\ GovNoCopy \in GovCopies /\ GovLoaded \in GovCopies /\ UpToDate(GovLoaded)
           /\ GovIdle \in GovCallType
<1>1. GovNoCopy \in GovCopies
  BY NobodyVoted DEF GovNoCopy, GovCopies
<1>2. GovLoaded \in GovCopies /\ UpToDate(GovLoaded)
  BY DEF GovTyped, GovLoaded, GovCopies, UpToDate
<1>3. GovIdle \in GovCallType
  BY <1>1 DEF GovIdle, GovCallType, GovSteps, Statuses
<1> QED BY <1>1, <1>2, <1>3

\* Saving: the document is that of the copy with the votes put in, or the copy
\* was outdated.
LEMMA SaveVotesFacts ==
    ASSUME GovTyped, TallyAgrees, NEW c \in GovCopies, UpToDate(c), NEW vs,
           vs = [v \in Voters |-> vs[v]], NEW set, SaveVotes(c, vs, set),
           \A v \in Voters \ set : vs[v] = c.votes[v]
    PROVE  /\ votesDoc' \in BOOLEAN /\ votes' \in VoteChoices
           /\ voteCounts' \in [Countable -> Nat] /\ voteCount' \in Nat
           /\ miscast' \in BOOLEAN /\ TallyAgrees'
<1>1. CASE ~Saves(c, vs)
  <2>1. UNCHANGED <<votesDoc, votes, voteCounts, voteCount, miscast>>
    BY <1>1 DEF SaveVotes, votesVars
  <2> QED BY <2>1 DEF GovTyped, TallyAgrees, CountOf, Cast
<1>2. CASE Saves(c, vs)
  <2>1. /\ votesDoc' = TRUE
        /\ votes' = [v \in Voters |-> IF v \in set THEN vs[v] ELSE votes[v]]
        /\ voteCounts' = IF CountOf(vs) = c.counts THEN voteCounts ELSE CountOf(vs)
        /\ voteCount' = IF Cardinality(Cast(vs)) = c.count THEN voteCount
                        ELSE Cardinality(Cast(vs))
        /\ miscast' = ~c.fresh
    BY <1>2 DEF SaveVotes
  <2>2. \A v \in Voters : vs[v] \in Countable \cup {Nothing}
    BY <1>2 DEF Saves, CanCount, Cast
  <2>3. votes \in VoteChoices /\ voteCounts \in [Countable -> Nat] /\ voteCount \in Nat
    BY DEF GovTyped
  <2>4. votes' \in VoteChoices
    BY <2>1, <2>2, <2>3 DEF VoteChoices
  <2>5. voteCounts' \in [Countable -> Nat] /\ voteCount' \in Nat
    BY <2>1, <2>3, CountFacts
  <2>6. miscast' \in BOOLEAN
    BY <2>1
  <2>7. TallyAgrees'
    <3>1. CASE c.fresh
      <4>1. c.votes = votes /\ c.counts = voteCounts /\ c.count = voteCount
        BY <3>1 DEF UpToDate
      <4>2. votes' = [v \in Voters |-> vs[v]]
        BY <2>1, <4>1
      <4>3. votes' = vs
        BY <4>2
      <4>4. voteCounts' = CountOf(vs) /\ voteCount' = Cardinality(Cast(vs))
        BY <2>1, <4>1
      <4>5. CountOf(vs) = CountOf(votes') /\ Cast(vs) = Cast(votes')
        BY <4>3
      <4> QED BY <4>4, <4>5 DEF TallyAgrees, CountOf, Cast
    <3>2. CASE ~c.fresh
      BY <2>1, <3>2 DEF TallyAgrees
    <3> QED BY <3>1, <3>2
  <2> QED BY <2>1, <2>4, <2>5, <2>6, <2>7
<1> QED BY <1>1, <1>2

\* A copy beside a save: outdated, unless the save changed nothing.
LEMMA OutdateFacts ==
    ASSUME NEW c \in GovCopies, UpToDate(c)
    PROVE  /\ Outdate(c) \in GovCopies
           /\ Outdate(c).fresh => /\ Outdate(c).new = ~votesDoc' /\ Outdate(c).votes = votes'
                                 /\ Outdate(c).counts = voteCounts'
                                 /\ Outdate(c).count = voteCount'
<1> DEFINE b == c.fresh /\ votesVars' = votesVars
<1>1. c.fresh \in BOOLEAN /\ b \in BOOLEAN
  BY DEF GovCopies
<1>2. Outdate(c) = [c EXCEPT !.fresh = b]
  BY DEF Outdate
<1>3. Outdate(c) \in GovCopies
  <2> HIDE DEF b
  <2> QED BY <1>1, <1>2 DEF GovCopies
<1>4. /\ Outdate(c).fresh = b /\ Outdate(c).new = c.new /\ Outdate(c).votes = c.votes
      /\ Outdate(c).counts = c.counts /\ Outdate(c).count = c.count
  <2> HIDE DEF b
  <2> QED BY <1>2 DEF GovCopies
<1>5. b => c.fresh /\ UNCHANGED <<votesDoc, votes, voteCounts, voteCount>>
  BY DEF votesVars
<1>6. ASSUME b
      PROVE  /\ c.new = ~votesDoc' /\ c.votes = votes'
             /\ c.counts = voteCounts' /\ c.count = voteCount'
  <2>1. /\ c.new = ~votesDoc /\ c.votes = votes
        /\ c.counts = voteCounts /\ c.count = voteCount
    BY <1>5, <1>6 DEF UpToDate
  <2> HIDE DEF b
  <2> QED BY <1>5, <1>6, <2>1
<1> HIDE DEF b
<1> QED BY <1>3, <1>4, <1>6

LEMMA GovInvInit == Init => GovInv
<1> SUFFICES ASSUME Init PROVE GovInv
  OBVIOUS
<1>1. /\ votesDoc = FALSE /\ votes = NoVotes /\ voteCounts = NoCounts /\ voteCount = 0
      /\ status = "none" /\ checked = "none" /\ miscast = FALSE
      /\ govCalls = [d \in Deliveries |-> GovIdle]
      /\ indexer = [SyncIdle EXCEPT !.pc = IF Runs("proposals") THEN @ ELSE "off"]
  BY DEF Init, GovInit
<1>2. GovNoCopy \in GovCopies
  BY NobodyVoted DEF GovNoCopy, GovCopies
<1>3. GovIdle \in GovCallType
  BY <1>2 DEF GovIdle, GovCallType, GovSteps, Statuses
<1>4. /\ indexer = [pc |-> indexer.pc, listed |-> indexer.listed, votes |-> indexer.votes,
                    again |-> indexer.again, copy |-> indexer.copy]
      /\ indexer.pc \in {"none", "off"} /\ indexer.listed = "none" /\ indexer.copy = GovNoCopy
  BY <1>1 DEF SyncIdle
<1>5. GovTyped
  BY <1>1, <1>2, <1>3, <1>4, NobodyVoted DEF GovTyped, Statuses, IndexSteps
<1>6. TallyAgrees
  BY <1>1, NobodyVoted DEF TallyAgrees
<1> QED BY <1>1, <1>4, <1>5, <1>6 DEF GovInv, GovIdle

\* The documents stay, and the calls hold no copy they did not hold: what is
\* left to see is that the variables are typed.
LEMMA GovKeeps ==
    ASSUME GovInv, NodeTyped, [Next]_vars, GovTyped', UNCHANGED votesVars,
           \A d \in Deliveries : \/ govCalls'[d] = govCalls[d]
                                 \/ /\ govCalls'[d].pc # "save"
                                    /\ govCalls'[d].pc # "none" => d[1] <= sent
                                    /\ govCalls'[d].pc = "status" => Has(d, StatusChange)
                                 \/ /\ govCalls'[d].pc = "save" /\ govCalls[d].pc = "vote"
                                    /\ govCalls'[d].copy = GovLoaded,
           \/ indexer' = indexer
           \/ indexer'.pc # "save"
           \/ indexer'.copy = GovLoaded
    PROVE  GovInv'
<1>1. UNCHANGED <<votesDoc, votes, voteCounts, voteCount, miscast>>
  BY DEF votesVars
<1>2. TallyAgrees'
  BY <1>1 DEF GovInv, TallyAgrees, CountOf, Cast
<1>3. UpToDate(GovLoaded)
  BY GovCopyTypes DEF GovInv
<1>4. ASSUME NEW c, UpToDate(c) PROVE c.fresh => /\ c.new = ~votesDoc' /\ c.votes = votes'
                                                 /\ c.counts = voteCounts' /\ c.count = voteCount'
  BY <1>1, <1>4 DEF UpToDate
<1>5. ASSUME NEW d \in Deliveries, govCalls'[d].pc = "save" PROVE UpToDate(govCalls[d].copy)'
  <2>1. \/ govCalls'[d] = govCalls[d]
        \/ govCalls'[d].copy = GovLoaded
    BY <1>5
  <2>2. UpToDate(govCalls'[d].copy)
    BY <1>3, <1>5, <2>1 DEF GovInv
  <2> QED BY <1>4, <2>2 DEF UpToDate
<1>6. ASSUME indexer'.pc = "save" PROVE UpToDate(indexer.copy)'
  <2>1. UpToDate(indexer'.copy)
    BY <1>3, <1>6 DEF GovInv
  <2> QED BY <1>4, <2>1 DEF UpToDate
<1>7. sent \in Nat /\ chain' = chain /\ (sent' = sent \/ sent' = sent + 1)
  BY StepSplit, SentFacts
<1>8. ASSUME NEW d \in Deliveries, govCalls'[d].pc # "none" PROVE d[1] <= sent'
  <2>1. d[1] <= sent
    BY <1>8 DEF GovInv
  <2> QED BY <1>7, <2>1, DeliveryFact
<1>9. ASSUME NEW d \in Deliveries, govCalls'[d].pc = "status" PROVE Has(d, StatusChange)'
  <2>1. Has(d, StatusChange)
    BY <1>9 DEF GovInv
  <2> QED BY <1>7, <2>1 DEF Has, EventsOf, StatusChange
<1> QED BY <1>2, <1>5, <1>6, <1>8, <1>9 DEF GovInv

\* A call goes on without a copy.
LEMMA GovGoesOn ==
    ASSUME GovInv, NodeTyped, [Next]_vars, NEW d \in Deliveries, NEW place \in GovSteps \ {"save"},
           NEW was, d[1] <= sent, place = "status" => Has(d, StatusChange),
           govCalls' = [govCalls EXCEPT ![d] = [pc |-> place, fetched |-> was, copy |-> GovNoCopy]],
           was \in Statuses, UNCHANGED <<votesVars, indexer, checked>>, status' \in Statuses
    PROVE  GovInv'
<1>1. GovNoCopy \in GovCopies
  BY GovCopyTypes DEF GovInv
<1>2. [pc |-> place, fetched |-> was, copy |-> GovNoCopy] \in GovCallType
  BY <1>1 DEF GovCallType
<1>3. govCalls \in [Deliveries -> GovCallType]
  BY DEF GovInv, GovTyped
<1>4. govCalls' \in [Deliveries -> GovCallType]
  BY <1>2, <1>3
<1>5. GovTyped'
  BY <1>4 DEF GovInv, GovTyped, votesVars, VoteChoices, Countable, GovCopies, GovCallType,
              IndexSteps, GovSteps, Statuses
<1>6. \A e \in Deliveries : \/ govCalls'[e] = govCalls[e]
                            \/ /\ govCalls'[e].pc # "save"
                               /\ govCalls'[e].pc # "none" => e[1] <= sent
                               /\ govCalls'[e].pc = "status" => Has(e, StatusChange)
  BY <1>3
<1> QED BY <1>5, <1>6, GovKeeps

\* A copy is saved: every other one is outdated, unless nothing was changed.
LEMMA GovSaves ==
    ASSUME GovInv, NodeTyped, [Next]_vars, NEW c \in GovCopies, UpToDate(c),
           NEW vs, vs = [v \in Voters |-> vs[v]], NEW set, SaveVotes(c, vs, set),
           \A v \in Voters \ set : vs[v] = c.votes[v],
           UNCHANGED <<status, checked>>,
           govCalls' \in [Deliveries -> GovCallType],
           \A d \in Deliveries :
             \/ govCalls'[d] = govCalls[d] /\ govCalls[d].pc # "save"
             \/ /\ govCalls'[d].pc \in {"submit", "status", "done"} /\ d[1] <= sent
                /\ govCalls'[d].pc = "status" => Has(d, StatusChange)
             \/ /\ govCalls[d].pc = "save" /\ govCalls'[d].pc = "save"
                /\ govCalls'[d].copy = Outdate(govCalls[d].copy),
           indexer' = [pc |-> indexer'.pc, listed |-> indexer'.listed,
                       votes |-> indexer'.votes, again |-> indexer'.again,
                       copy |-> indexer'.copy],
           indexer'.pc \in IndexSteps, indexer'.listed \in Statuses, indexer'.copy \in GovCopies,
           \/ indexer'.pc # "save"
           \/ indexer.pc = "save" /\ indexer'.copy = Outdate(indexer.copy)
    PROVE  GovInv'
<1>1. /\ votesDoc' \in BOOLEAN /\ votes' \in VoteChoices
      /\ voteCounts' \in [Countable -> Nat] /\ voteCount' \in Nat
      /\ miscast' \in BOOLEAN /\ TallyAgrees'
  BY SaveVotesFacts DEF GovInv
<1>2. GovTyped'
  BY <1>1 DEF GovInv, GovTyped, VoteChoices, Countable, GovCopies, GovCallType, IndexSteps,
              GovSteps, Statuses
<1>3. ASSUME NEW d \in Deliveries, govCalls'[d].pc = "save" PROVE UpToDate(govCalls[d].copy)'
  <2>1. govCalls[d].pc = "save" /\ govCalls'[d].copy = Outdate(govCalls[d].copy)
    BY <1>3
  <2>2. govCalls[d].copy \in GovCopies /\ UpToDate(govCalls[d].copy)
    BY <2>1 DEF GovInv, GovTyped, GovCallType
  <2> QED BY <2>1, <2>2, OutdateFacts DEF UpToDate
<1>4. ASSUME indexer'.pc = "save" PROVE UpToDate(indexer.copy)'
  <2>1. indexer.pc = "save" /\ indexer'.copy = Outdate(indexer.copy)
    BY <1>4
  <2>2. indexer.copy \in GovCopies /\ UpToDate(indexer.copy)
    BY <2>1 DEF GovInv, GovTyped
  <2> QED BY <2>1, <2>2, OutdateFacts DEF UpToDate
<1>5. sent \in Nat /\ chain' = chain /\ (sent' = sent \/ sent' = sent + 1)
  BY StepSplit, SentFacts
<1>6. ASSUME NEW d \in Deliveries, govCalls'[d].pc # "none" PROVE d[1] <= sent'
  <2>1. d[1] <= sent
    BY <1>6 DEF GovInv
  <2> QED BY <1>5, <2>1, DeliveryFact
<1>7. ASSUME NEW d \in Deliveries, govCalls'[d].pc = "status" PROVE Has(d, StatusChange)'
  <2>1. Has(d, StatusChange)
    BY <1>7 DEF GovInv
  <2> QED BY <1>5, <2>1 DEF Has, EventsOf, StatusChange
<1> QED BY <1>1, <1>2, <1>3, <1>4, <1>6, <1>7 DEF GovInv

\* The initial sync goes on, with the votes listed or without, holding no
\* copy but the document.
LEMMA IndexerGoesOn ==
    ASSUME GovInv, NodeTyped, [Next]_vars, UNCHANGED <<votesVars, govCalls>>,
           status' \in Statuses, checked' \in Statuses,
           indexer' = [pc |-> indexer'.pc, listed |-> indexer'.listed,
                       votes |-> indexer'.votes, again |-> indexer'.again,
                       copy |-> indexer'.copy],
           indexer'.pc \in IndexSteps, indexer'.listed \in Statuses,
           \/ indexer'.pc # "save" /\ indexer'.copy \in {indexer.copy, GovNoCopy}
           \/ indexer'.copy = GovLoaded
           \/ indexer' = indexer
    PROVE  GovInv'
<1>1. indexer'.copy \in GovCopies
  BY GovCopyTypes DEF GovInv, GovTyped
<1>2. GovTyped'
  BY <1>1 DEF GovInv, GovTyped, votesVars, VoteChoices, Countable, GovCopies, GovCallType,
              IndexSteps, GovSteps, Statuses
<1> QED BY <1>2, GovKeeps

LEMMA GovGotoFact ==
    ASSUME NEW d, NEW place
    PROVE  GovGoto(d, place) =
             [govCalls EXCEPT ![d] = [pc |-> place, fetched |-> "none", copy |-> GovNoCopy]]
<1>1. [GovIdle EXCEPT !.pc = place] = [pc |-> place, fetched |-> "none", copy |-> GovNoCopy]
  BY DEF GovIdle
<1> QED BY <1>1 DEF GovGoto

LEMMA GovInvStep ==
    ASSUME GovInv, NodeTyped, [Next]_vars
    PROVE  GovInv'
<1> USE DEF GovIdle
<1>0. /\ govCalls \in [Deliveries -> GovCallType] /\ GovIdle \in GovCallType
      /\ status \in Statuses /\ checked \in Statuses /\ StatusAt(sent) \in Statuses
      /\ "none" \in Statuses /\ GovNoCopy \in GovCopies /\ GovLoaded \in GovCopies
  BY GovCopyTypes, StatusAtFact DEF GovInv, GovTyped, Statuses
<1>1. ASSUME NEW d \in Deliveries, GovStart(d) PROVE GovInv'
  <2> DEFINE place == IF d[2] = "governance" THEN FirstStage(d) ELSE "done"
  <2>1. place \in GovSteps \ {"save"} /\ (place = "status" => Has(d, StatusChange))
    BY GovNextSteps DEF GovSteps
  <2>2. govCalls' = GovGoto(d, place) /\ d[1] <= sent
        /\ UNCHANGED <<votesVars, indexer, checked, status>>
    BY <1>1 DEF GovStart, Arrives
  <2> HIDE DEF place
  <2>3. govCalls' = [govCalls EXCEPT ![d] = [pc |-> place, fetched |-> "none", copy |-> GovNoCopy]]
    BY <2>2, GovGotoFact
  <2> QED BY <1>0, <2>1, <2>2, <2>3, GovGoesOn
<1>2. ASSUME NEW d \in Deliveries, FindVotes(d) PROVE GovInv'
  <2>1. /\ govCalls[d].pc = "vote" /\ UNCHANGED <<votesVars, status, indexer, checked>>
        /\ govCalls' = [govCalls EXCEPT ![d].pc = "save", ![d].copy = GovLoaded]
    BY <1>2 DEF FindVotes
  <2>2. govCalls'[d].pc = "save" /\ govCalls'[d].copy = GovLoaded
        /\ \A e \in Deliveries \ {d} : govCalls'[e] = govCalls[e]
    BY <1>0, <2>1 DEF GovCallType
  <2>3. govCalls' \in [Deliveries -> GovCallType]
    BY <1>0, <2>1 DEF GovCallType, GovSteps
  <2>4. GovTyped'
    BY <2>1, <2>3 DEF GovInv, GovTyped, votesVars, VoteChoices, Countable, GovCopies, GovCallType,
              IndexSteps, GovSteps, Statuses
  <2> QED BY <2>1, <2>2, <2>4, GovKeeps
<1>3. ASSUME NEW d \in Deliveries, SaveVote(d) PROVE GovInv'
  <2> DEFINE copy == govCalls[d].copy
             e    == The(d, Vote)
             vs   == [copy.votes EXCEPT ![e.who] = e.what]
             set  == {e.who}
             ends == [GovIdle EXCEPT !.pc = AfterVote(d)]
  <2>1. /\ govCalls[d].pc = "save" /\ SaveVotes(copy, vs, set) /\ UNCHANGED <<status, checked>>
        /\ govCalls' = [x \in Deliveries |->
             IF x = d THEN ends
             ELSE IF govCalls[x].pc # "save" THEN govCalls[x]
             ELSE [govCalls[x] EXCEPT !.copy = Outdate(@)]]
        /\ indexer' = IF indexer.pc = "save" THEN [indexer EXCEPT !.copy = Outdate(@)]
                      ELSE indexer
    BY <1>3 DEF SaveVote
  <2>2. copy \in GovCopies /\ UpToDate(copy) /\ d[1] <= sent
    BY <1>0, <2>1 DEF GovInv, GovCallType
  <2>3. vs = [v \in Voters |-> vs[v]] /\ \A v \in Voters \ set : vs[v] = copy.votes[v]
    BY <2>2 DEF GovCopies, VoteChoices
  <2>4. /\ AfterVote(d) \in {"submit", "status", "done"}
        /\ AfterVote(d) = "status" => Has(d, StatusChange)
    BY DEF AfterVote, AfterSubmit
  <2>5. ends \in GovCallType /\ ends.pc = AfterVote(d)
    BY <1>0, <2>4 DEF GovCallType, GovSteps
  <2>6. ASSUME NEW x \in Deliveries, govCalls[x].pc = "save"
        PROVE  /\ [govCalls[x] EXCEPT !.copy = Outdate(@)] \in GovCallType
               /\ [govCalls[x] EXCEPT !.copy = Outdate(@)].pc = "save"
               /\ [govCalls[x] EXCEPT !.copy = Outdate(@)].copy = Outdate(govCalls[x].copy)
    <3>1. govCalls[x].copy \in GovCopies /\ UpToDate(govCalls[x].copy)
      BY <1>0, <2>6 DEF GovInv, GovCallType
    <3>2. Outdate(govCalls[x].copy) \in GovCopies
      BY <3>1, OutdateFacts
    <3> QED BY <1>0, <2>6, <3>2 DEF GovCallType
  <2>7. /\ indexer' = [pc |-> indexer'.pc, listed |-> indexer'.listed,
                       votes |-> indexer'.votes, again |-> indexer'.again,
                       copy |-> indexer'.copy]
        /\ indexer'.pc \in IndexSteps /\ indexer'.listed \in Statuses
        /\ indexer'.copy \in GovCopies
        /\ \/ indexer'.pc # "save"
           \/ indexer.pc = "save" /\ indexer'.copy = Outdate(indexer.copy)
    <3>1. CASE indexer.pc = "save"
      <4>1. indexer.copy \in GovCopies /\ UpToDate(indexer.copy)
        BY <3>1 DEF GovInv, GovTyped
      <4>2. Outdate(indexer.copy) \in GovCopies
        BY <4>1, OutdateFacts
      <4>3. indexer' = [indexer EXCEPT !.copy = Outdate(@)]
        BY <2>1, <3>1
      <4> QED BY <3>1, <4>2, <4>3 DEF GovInv, GovTyped
    <3>2. CASE indexer.pc # "save"
      BY <2>1, <3>2 DEF GovInv, GovTyped
    <3> QED BY <3>1, <3>2
  <2> HIDE DEF copy, vs, ends
  <2>8. govCalls' \in [Deliveries -> GovCallType]
    BY <1>0, <2>1, <2>5, <2>6
  <2>9. \A x \in Deliveries :
          \/ govCalls'[x] = govCalls[x] /\ govCalls[x].pc # "save"
          \/ /\ govCalls'[x].pc \in {"submit", "status", "done"} /\ x[1] <= sent
             /\ govCalls'[x].pc = "status" => Has(x, StatusChange)
          \/ /\ govCalls[x].pc = "save" /\ govCalls'[x].pc = "save"
             /\ govCalls'[x].copy = Outdate(govCalls[x].copy)
    BY <2>1, <2>2, <2>4, <2>5, <2>6
  <2> QED BY <2>1, <2>2, <2>3, <2>7, <2>8, <2>9, GovSaves
<1>4. ASSUME NEW d \in Deliveries, FetchProposal(d) PROVE GovInv'
  <2>1. /\ govCalls[d].pc = "submit" /\ UNCHANGED <<votesVars, status, indexer, checked>>
        /\ govCalls' = [govCalls EXCEPT ![d].pc = "store", ![d].fetched = StatusAt(sent)]
    BY <1>4 DEF FetchProposal
  <2>2. /\ govCalls'[d].pc = "store"
        /\ \A e \in Deliveries \ {d} : govCalls'[e] = govCalls[e]
    BY <1>0, <2>1 DEF GovCallType
  <2>3. govCalls' \in [Deliveries -> GovCallType]
    BY <1>0, <2>1 DEF GovCallType, GovSteps
  <2>4. GovTyped'
    BY <2>1, <2>3 DEF GovInv, GovTyped, votesVars, VoteChoices, Countable, GovCopies, GovCallType,
              IndexSteps, GovSteps, Statuses
  <2>5. d[1] <= sent
    BY <2>1 DEF GovInv
  <2> QED BY <2>1, <2>2, <2>4, <2>5, GovKeeps
<1>5. ASSUME NEW d \in Deliveries, UpdateProposal(d) PROVE GovInv'
  <2>1. /\ govCalls[d].pc = "store" /\ UNCHANGED <<votesVars, indexer, checked>>
        /\ status' = govCalls[d].fetched /\ govCalls' = GovGoto(d, AfterSubmit(d))
    BY <1>5 DEF UpdateProposal
  <2>2. status' \in Statuses /\ d[1] <= sent
    BY <1>0, <2>1 DEF GovInv, GovCallType
  <2>3. AfterSubmit(d) \in GovSteps \ {"save"}
        /\ (AfterSubmit(d) = "status" => Has(d, StatusChange))
    BY DEF AfterSubmit, GovSteps
  <2>4. govCalls' = [govCalls EXCEPT ![d] = [pc |-> AfterSubmit(d), fetched |-> "none",
                                             copy |-> GovNoCopy]]
    BY <2>1, GovGotoFact
  <2> QED BY <1>0, <2>1, <2>2, <2>3, <2>4, GovGoesOn
<1>6. ASSUME NEW d \in Deliveries, ChangeStatus(d) PROVE GovInv'
  <2>1. /\ govCalls[d].pc = "status" /\ UNCHANGED <<votesVars, indexer, checked>>
        /\ status' = IF status = "none" THEN status ELSE The(d, StatusChange).what
        /\ govCalls' = GovGoto(d, "done")
    BY <1>6 DEF ChangeStatus
  <2>2. d[1] <= sent /\ Has(d, StatusChange)
    BY <2>1 DEF GovInv
  <2>3. status' \in Statuses
    BY <1>0, <2>1, <2>2, StatusOfFact
  <2>4. govCalls' = [govCalls EXCEPT ![d] = [pc |-> "done", fetched |-> "none",
                                             copy |-> GovNoCopy]]
    BY <2>1, GovGotoFact
  <2> QED BY <1>0, <2>1, <2>2, <2>3, <2>4, GovGoesOn DEF GovSteps
<1>7. ASSUME NEW d \in Deliveries, GovFails(d) PROVE GovInv'
  <2>1. /\ govCalls[d].pc # "none" /\ UNCHANGED <<votesVars, status, indexer, checked>>
        /\ govCalls' = GovGoto(d, AfterStage(d))
    BY <1>7 DEF GovFails
  <2>2. d[1] <= sent
    BY <2>1 DEF GovInv
  <2>3. AfterStage(d) \in GovSteps \ {"save"}
        /\ (AfterStage(d) = "status" => Has(d, StatusChange))
    BY GovNextSteps DEF GovSteps
  <2>4. govCalls' = [govCalls EXCEPT ![d] = [pc |-> AfterStage(d), fetched |-> "none",
                                             copy |-> GovNoCopy]]
    BY <2>1, GovGotoFact
  <2> QED BY <1>0, <2>1, <2>2, <2>3, <2>4, GovGoesOn
<1>8. CASE ListProposals \/ ListVotes \/ UpsertProposal
  <2>1. UNCHANGED <<votesVars, govCalls, checked>>
    BY <1>8 DEF ListProposals, ListVotes, UpsertProposal
  <2>2. status' \in Statuses
    BY <1>0, <1>8 DEF ListProposals, ListVotes, UpsertProposal, GovInv, GovTyped
  <2>3. /\ indexer' = [pc |-> indexer'.pc, listed |-> indexer'.listed,
                       votes |-> indexer'.votes, again |-> indexer'.again,
                       copy |-> indexer'.copy]
        /\ indexer'.pc \in {"done", "upsert", "votes", "find"} /\ indexer'.listed \in Statuses
        /\ indexer'.copy = indexer.copy
    BY <1>0, <1>8 DEF ListProposals, ListVotes, UpsertProposal, GovInv, GovTyped
  <2> QED BY <1>0, <2>1, <2>2, <2>3, IndexerGoesOn DEF IndexSteps
<1>9. CASE FindProposalVotes
  <2>1. UNCHANGED <<votesVars, govCalls, checked, status>>
    BY <1>9 DEF FindProposalVotes
  <2>2. /\ indexer' = [pc |-> indexer'.pc, listed |-> indexer'.listed,
                       votes |-> indexer'.votes, again |-> indexer'.again,
                       copy |-> indexer'.copy]
        /\ indexer'.pc = "save" /\ indexer'.listed \in Statuses
        /\ indexer'.copy = GovLoaded
    BY <1>9 DEF FindProposalVotes, GovInv, GovTyped
  <2> QED BY <1>0, <2>1, <2>2, IndexerGoesOn DEF IndexSteps
<1>10. CASE ProcessVotes
  <2> DEFINE copy == indexer.copy
             vs   == Listed
             set  == indexer.again \cup {v \in Voters : Listed[v] # indexer.copy.votes[v]}
  <2>1. /\ indexer.pc = "save" /\ SaveVotes(copy, vs, set) /\ UNCHANGED <<status, checked>>
        /\ indexer' = [SyncIdle EXCEPT !.pc = "done"]
        /\ govCalls' = [x \in Deliveries |->
             IF govCalls[x].pc # "save" THEN govCalls[x]
             ELSE [govCalls[x] EXCEPT !.copy = Outdate(@)]]
    BY <1>10 DEF ProcessVotes
  <2>2. copy \in GovCopies /\ UpToDate(copy)
    BY <2>1 DEF GovInv, GovTyped
  <2>3. vs = [v \in Voters |-> vs[v]] /\ \A v \in Voters \ set : vs[v] = copy.votes[v]
    BY DEF Listed
  <2>4. ASSUME NEW x \in Deliveries, govCalls[x].pc = "save"
        PROVE  /\ [govCalls[x] EXCEPT !.copy = Outdate(@)] \in GovCallType
               /\ [govCalls[x] EXCEPT !.copy = Outdate(@)].pc = "save"
               /\ [govCalls[x] EXCEPT !.copy = Outdate(@)].copy = Outdate(govCalls[x].copy)
    <3>1. govCalls[x].copy \in GovCopies /\ UpToDate(govCalls[x].copy)
      BY <1>0, <2>4 DEF GovInv, GovCallType
    <3>2. Outdate(govCalls[x].copy) \in GovCopies
      BY <3>1, OutdateFacts
    <3> QED BY <1>0, <2>4, <3>2 DEF GovCallType
  <2>5. /\ indexer' = [pc |-> indexer'.pc, listed |-> indexer'.listed,
                       votes |-> indexer'.votes, again |-> indexer'.again,
                       copy |-> indexer'.copy]
        /\ indexer'.pc = "done" /\ indexer'.listed = "none" /\ indexer'.copy = GovNoCopy
    BY <2>1 DEF SyncIdle
  <2> HIDE DEF copy, vs, set
  <2>6. govCalls' \in [Deliveries -> GovCallType]
    BY <1>0, <2>1, <2>4
  <2>7. \A x \in Deliveries :
          \/ govCalls'[x] = govCalls[x] /\ govCalls[x].pc # "save"
          \/ /\ govCalls[x].pc = "save" /\ govCalls'[x].pc = "save"
             /\ govCalls'[x].copy = Outdate(govCalls[x].copy)
    BY <2>1, <2>4
  <2> QED BY <1>0, <2>1, <2>2, <2>3, <2>5, <2>6, <2>7, GovSaves DEF IndexSteps
<1>11. CASE SyncFails
  <2>1. UNCHANGED <<votesVars, govCalls, checked, status>>
    BY <1>11 DEF SyncFails
  <2>2. /\ indexer' = [pc |-> indexer'.pc, listed |-> indexer'.listed,
                       votes |-> indexer'.votes, again |-> indexer'.again,
                       copy |-> indexer'.copy]
        /\ indexer'.pc = "done" /\ indexer'.listed = "none" /\ indexer'.copy = GovNoCopy
    BY <1>11 DEF SyncFails, SyncIdle
  <2> QED BY <1>0, <2>1, <2>2, IndexerGoesOn DEF IndexSteps
<1>12. CASE CheckStep
  <2>1. UNCHANGED <<votesVars, govCalls, indexer>> /\ status' \in Statuses /\ checked' \in Statuses
    BY <1>0, <1>12 DEF CheckStep, CheckEnded, UpdateEnded
  <2> QED BY <2>1, IndexerGoesOn DEF GovInv, GovTyped
<1>13. CASE UNCHANGED govVars
  <2>1. UNCHANGED <<votesVars, govCalls, indexer, status, checked>>
    BY <1>13 DEF govVars
  <2> QED BY <1>0, <2>1, IndexerGoesOn DEF GovInv, GovTyped
<1> QED BY <1>1, <1>2, <1>3, <1>4, <1>5, <1>6, <1>7, <1>8, <1>9, <1>10, <1>11, <1>12, <1>13,
           StepSplit DEF GovAny, GovStep, SyncStep

-----------------------------------------------------------------------------
(* The checkpoint: every status written is one the chain has reached, and a  *)
(* status that was asked for is not older than the one it replaces, unless   *)
(* others have written meanwhile.                                            *)

CkptCallSteps == {"none", "find", "create", "update", "fetch", "votes", "done"}

\* What a call knows of its event.
CkptCallKnows(d, place) ==
    /\ place # "none" => d[1] <= sent
    /\ place \in {"find", "create", "update", "fetch"} => Has(d, Checkpoint)
    /\ place = "update" => StatusOf(d) # "ACCUMULATING"
    /\ place = "fetch" => StatusOf(d) = "SEALED"

\* What the sync of statuses knows of the document and of the chain.
StatusSyncKnows ==
    /\ statusSync = [pc |-> statusSync.pc, listed |-> statusSync.listed,
                     answer |-> statusSync.answer]
    /\ statusSync.pc \in {"ask", "write"} =>
         /\ statusSync.listed \in Reached \ {"ACCUMULATING"}
         /\ disturbed \/ ckpt = statusSync.listed
    /\ statusSync.pc = "write" =>
         statusSync.answer \in Reached /\ Rank(statusSync.listed) <= Rank(statusSync.answer)

CkptInv ==
    /\ CkptTypeOK /\ FetchedHasVotes
    /\ ckpt # "none" => ckpt \in Reached
    /\ \A d \in Deliveries : CkptCallKnows(d, ckptCalls[d])
    /\ StatusSyncKnows

\* The statuses in their order.
LEMMA RankFacts ==
    /\ States = {"ACCUMULATING", "SEALED", "SUBMITTED", "CONFIRMED", "FINALIZED"}
    /\ Rank("none") = 0
    /\ \A st \in States : /\ Rank(st) \in 1..5
                          /\ Rank(st) = 1 => st = "ACCUMULATING"
    /\ Rank("ACCUMULATING") = 1
<1>1. /\ DOMAIN Lifecycle = 1..5
      /\ Lifecycle[1] = "ACCUMULATING" /\ Lifecycle[2] = "SEALED" /\ Lifecycle[3] = "SUBMITTED"
      /\ Lifecycle[4] = "CONFIRMED" /\ Lifecycle[5] = "FINALIZED"
  BY DEF Lifecycle
<1>2. 1..5 = {1, 2, 3, 4, 5}
  OBVIOUS
<1>3. States = {"ACCUMULATING", "SEALED", "SUBMITTED", "CONFIRMED", "FINALIZED"}
  <2> HIDE DEF Lifecycle
  <2> QED BY <1>1, <1>2 DEF States
<1>4. ASSUME NEW st \in States
      PROVE  Rank(st) \in 1..5 /\ Lifecycle[Rank(st)] = st
  <2>1. \E i \in DOMAIN Lifecycle : Lifecycle[i] = st
    BY DEF States
  <2>2. st # "none"
    BY <1>3
  <2>3. Rank(st) = CHOOSE i \in DOMAIN Lifecycle : Lifecycle[i] = st
    BY <2>2 DEF Rank
  <2>4. Rank(st) \in DOMAIN Lifecycle /\ Lifecycle[Rank(st)] = st
    BY <2>1, <2>3
  <2> QED BY <1>1, <2>4
<1>5. Rank("none") = 0
  BY DEF Rank
<1>6. \A st \in States : Rank(st) = 1 => st = "ACCUMULATING"
  BY <1>1, <1>4
<1>7. Rank("ACCUMULATING") = 1
  <2>1. "ACCUMULATING" \in States
    BY <1>3
  <2> DEFINE r == Rank("ACCUMULATING")
  <2>2. r \in 1..5 /\ Lifecycle[r] = "ACCUMULATING"
    BY <1>4, <2>1
  <2> HIDE DEF r
  <2>3. r \in {1, 2, 3, 4, 5}
    BY <1>2, <2>2
  <2>4. r = 1
    BY <1>1, <2>2, <2>3
  <2> QED BY <2>4 DEF r
<1> QED BY <1>3, <1>4, <1>5, <1>6, <1>7

\* The chain reaches states, the one of each event sent among them.
LEMMA ReachedFacts ==
    ASSUME NodeTyped
    PROVE  /\ Reached \subseteq States
           /\ \A d \in Deliveries : d[1] <= sent /\ Has(d, Checkpoint) => StatusOf(d) \in Reached
           /\ [Next]_vars => Reached \subseteq Reached'
<1>1. sent \in Nat /\ 1..sent \subseteq DOMAIN chain.messages
  BY SentFacts
<1>2. Reached \subseteq States
  <2>1. ASSUME NEW k \in 1..sent, NEW e \in EventsOf(k), e.type = Checkpoint PROVE e.what \in States
    BY <1>1, <2>1, CheckpointsAssumption DEF NodeTyped, EventsOf
  <2> QED BY <2>1 DEF Reached, ReachedBy
<1>3. ASSUME NEW d \in Deliveries, d[1] <= sent, Has(d, Checkpoint) PROVE StatusOf(d) \in Reached
  <2>1. d[1] \in 1..sent
    BY <1>1, <1>3, DeliveryFact
  <2>2. The(d, Checkpoint) \in EventsOf(d[1]) /\ The(d, Checkpoint).type = Checkpoint
    BY <1>3 DEF Has, The
  <2> QED BY <2>1, <2>2 DEF StatusOf, Reached, ReachedBy
<1>4. ASSUME [Next]_vars PROVE Reached \subseteq Reached'
  <2>1. chain' = chain /\ (sent' = sent \/ sent' = sent + 1)
    BY <1>4, StepSplit
  <2>2. 1..sent \subseteq 1..sent' /\ \A k : EventsOf(k)' = EventsOf(k)
    BY <1>1, <2>1 DEF EventsOf
  <2> QED BY <2>2 DEF Reached, ReachedBy, Checkpoint
<1> QED BY <1>2, <1>3, <1>4

\* The status on the chain is the last one reached.
LEMMA ChainStatusFact ==
    ASSUME NodeTyped, Reached # {}
    PROVE  ChainStatus \in Reached /\ \A r \in Reached : Rank(r) <= Rank(ChainStatus)
<1> DEFINE S == {Rank(r) : r \in Reached}
<1>1. S \in SUBSET (0..5) /\ S # {}
  BY ReachedFacts, RankFacts
<1>2. PICK m \in S : \A k \in S : k <= m
  <2> HIDE DEF S
  <2> QED BY <1>1, GreatestOf
<1>3. \E st \in Reached : \A r \in Reached : Rank(r) <= Rank(st)
  BY <1>2
<1>4. ChainStatus = CHOOSE st \in Reached : \A r \in Reached : Rank(r) <= Rank(st)
  BY DEF ChainStatus
<1> QED BY <1>3, <1>4

\* The parts of the invariant after a step that writes a status reached, and
\* lets calls and the sync go on with what they know.
LEMMA CkptKeeps ==
    ASSUME CkptInv, NodeTyped, [Next]_vars, CkptTypeOK', FetchedHasVotes',
           ckpt' = ckpt \/ ckpt' \in Reached,
           \A d \in Deliveries : CkptCallKnows(d, ckptCalls'[d]),
           statusSync' = [pc |-> statusSync'.pc, listed |-> statusSync'.listed,
                          answer |-> statusSync'.answer],
           statusSync'.pc \in {"ask", "write"} =>
             /\ statusSync'.listed \in Reached \ {"ACCUMULATING"}
             /\ disturbed' \/ ckpt' = statusSync'.listed,
           statusSync'.pc = "write" =>
             /\ statusSync'.answer \in Reached
             /\ Rank(statusSync'.listed) <= Rank(statusSync'.answer)
    PROVE  CkptInv'
<1>1. Reached \subseteq Reached'
  BY ReachedFacts
<1>2. sent \in Nat /\ chain' = chain /\ (sent' = sent \/ sent' = sent + 1)
  BY StepSplit, SentFacts
<1>3. ASSUME NEW d \in Deliveries PROVE CkptCallKnows(d, ckptCalls[d])'
  <2>1. CkptCallKnows(d, ckptCalls'[d])
    OBVIOUS
  <2>2. Has(d, Checkpoint)' = Has(d, Checkpoint) /\ StatusOf(d)' = StatusOf(d)
    BY <1>2 DEF Has, The, StatusOf, EventsOf, Checkpoint
  <2>3. d[1] \in Nat /\ (d[1] <= sent => d[1] <= sent')
    BY <1>2, DeliveryFact
  <2> QED BY <2>1, <2>2, <2>3 DEF CkptCallKnows
<1>4. ckpt' # "none" => ckpt' \in Reached'
  BY <1>1 DEF CkptInv
<1>5. StatusSyncKnows'
  BY <1>1 DEF StatusSyncKnows, Rank, Lifecycle
<1> QED BY <1>3, <1>4, <1>5 DEF CkptInv

LEMMA CkptInvInit == Init => CkptInv
BY DEF Init, CkptInit, CkptInv, CkptTypeOK, FetchedHasVotes, CkptCallKnows, StatusSyncKnows,
       StatusIdle

\* A call goes on; what else it does is seen by the caller of this lemma.
LEMMA CkptCallGoesOn ==
    ASSUME CkptInv, NEW d \in Deliveries, NEW place \in CkptCallSteps,
           ckptCalls' = [ckptCalls EXCEPT ![d] = place], CkptCallKnows(d, place)
    PROVE  /\ ckptCalls' \in [Deliveries -> CkptCallSteps]
           /\ \A e \in Deliveries : CkptCallKnows(e, ckptCalls'[e])
           /\ \A e \in Deliveries \ {d} : ckptCalls'[e] = ckptCalls[e]
           /\ ckptCalls'[d] = place
<1>1. ckptCalls \in [Deliveries -> CkptCallSteps]
  BY DEF CkptInv, CkptTypeOK, CkptCallSteps
<1>2. ckptCalls'[d] = place /\ \A e \in Deliveries \ {d} : ckptCalls'[e] = ckptCalls[e]
  BY <1>1
<1> QED BY <1>1, <1>2 DEF CkptInv

\* The sync of statuses is not concerned by the writes of the others.
LEMMA SyncUndisturbed ==
    ASSUME CkptInv, statusSync' = statusSync,
           \/ UNCHANGED <<ckpt, disturbed>>
           \/ disturbed' = TRUE
    PROVE  /\ statusSync' = [pc |-> statusSync'.pc, listed |-> statusSync'.listed,
                             answer |-> statusSync'.answer]
           /\ statusSync'.pc \in {"ask", "write"} =>
                /\ statusSync'.listed \in Reached \ {"ACCUMULATING"}
                /\ disturbed' \/ ckpt' = statusSync'.listed
           /\ statusSync'.pc = "write" =>
                /\ statusSync'.answer \in Reached
                /\ Rank(statusSync'.listed) <= Rank(statusSync'.answer)
BY DEF CkptInv, StatusSyncKnows

LEMMA CkptInvStep ==
    ASSUME CkptInv, NodeTyped, [Next]_vars
    PROVE  CkptInv'
<1>0. /\ ckptCalls \in [Deliveries -> CkptCallSteps]
      /\ \A d \in Deliveries : CkptCallKnows(d, ckptCalls[d])
      /\ "none" \notin States /\ "SEALED" \in States
  BY RankFacts DEF CkptInv, CkptTypeOK, CkptCallSteps
<1>1. ASSUME NEW d \in Deliveries, CkptStart(d) PROVE CkptInv'
  <2> DEFINE place == IF ~Has(d, Checkpoint) THEN "done"
                   ELSE CASE d[2] = "new_block" /\ StatusOf(d) # "SEALED" -> "find"
                          [] d[2] = "checkpoint_for_bls" /\ StatusOf(d) = "SEALED" -> "fetch"
                          [] OTHER -> "done"
  <2>1. /\ ckptCalls[d] = "none" /\ d[1] <= sent /\ ckptCalls' = [ckptCalls EXCEPT ![d] = place]
        /\ UNCHANGED <<ckpt, ckptVotes, epochSync, statusSync, fetched, unvoted, disturbed>>
    BY <1>1 DEF CkptStart, Arrives, ckptHistory
  <2>2. /\ place \in {"done", "find", "fetch"}
        /\ place \in {"find", "fetch"} => Has(d, Checkpoint)
        /\ place = "fetch" => StatusOf(d) = "SEALED"
    <3>1. CASE ~Has(d, Checkpoint)
      BY <3>1
    <3>2. CASE Has(d, Checkpoint) /\ d[2] = "new_block" /\ StatusOf(d) # "SEALED"
      <4>1. place = "find"
        BY <3>2
      <4> QED BY <3>2, <4>1
    <3>3. CASE Has(d, Checkpoint) /\ ~(d[2] = "new_block" /\ StatusOf(d) # "SEALED")
      BY <3>3
    <3> QED BY <3>1, <3>2, <3>3
  <2> HIDE DEF place
  <2>3. CkptCallKnows(d, place) /\ place \in CkptCallSteps
    BY <2>1, <2>2 DEF CkptCallKnows, CkptCallSteps
  <2>4. /\ ckptCalls' \in [Deliveries -> CkptCallSteps]
        /\ \A e \in Deliveries : CkptCallKnows(e, ckptCalls'[e])
        /\ \A e \in Deliveries \ {d} : ckptCalls'[e] = ckptCalls[e]
    BY <2>1, <2>3, CkptCallGoesOn
  <2>5. CkptTypeOK'
    BY <2>1, <2>4 DEF CkptInv, CkptTypeOK, CkptCallSteps, States, Lifecycle
  <2>6. FetchedHasVotes'
    BY <2>1, <2>4 DEF CkptInv, FetchedHasVotes
  <2> QED BY <2>1, <2>4, <2>5, <2>6, SyncUndisturbed, CkptKeeps
<1>2. ASSUME NEW d \in Deliveries, FindCheckpoint(d) PROVE CkptInv'
  <2> DEFINE place == CASE ckpt = "none" -> "create"
                     [] ckpt # "none" /\ StatusOf(d) = "ACCUMULATING" -> "done"
                     [] OTHER -> "update"
  <2>1. /\ ckptCalls[d] = "find" /\ ckptCalls' = [ckptCalls EXCEPT ![d] = place]
        /\ UNCHANGED <<ckpt, ckptVotes, epochSync, statusSync, fetched, unvoted, disturbed>>
    BY <1>2 DEF FindCheckpoint, ckptHistory
  <2>2. /\ place \in {"create", "done", "update"}
        /\ place = "update" => StatusOf(d) # "ACCUMULATING"
    OBVIOUS
  <2> HIDE DEF place
  <2>3. CkptCallKnows(d, place) /\ place \in CkptCallSteps
    BY <1>0, <2>1, <2>2 DEF CkptCallKnows, CkptCallSteps
  <2>4. /\ ckptCalls' \in [Deliveries -> CkptCallSteps]
        /\ \A e \in Deliveries : CkptCallKnows(e, ckptCalls'[e])
        /\ \A e \in Deliveries \ {d} : ckptCalls'[e] = ckptCalls[e]
    BY <2>1, <2>3, CkptCallGoesOn
  <2>5. CkptTypeOK'
    BY <2>1, <2>4 DEF CkptInv, CkptTypeOK, CkptCallSteps, States, Lifecycle
  <2>6. FetchedHasVotes'
    BY <2>1, <2>4 DEF CkptInv, FetchedHasVotes
  <2> QED BY <2>1, <2>4, <2>5, <2>6, SyncUndisturbed, CkptKeeps
<1>3. ASSUME NEW d \in Deliveries, CreateCheckpoint(d) \/ UpdateCheckpoint(d) PROVE CkptInv'
  <2>1. /\ ckptCalls[d] \in {"create", "update"} /\ ckptCalls' = [ckptCalls EXCEPT ![d] = "done"]
        /\ UNCHANGED <<ckptVotes, epochSync, statusSync, fetched, unvoted>>
    BY <1>3 DEF CreateCheckpoint, UpdateCheckpoint
  <2>2. /\ CkptCallKnows(d, ckptCalls[d]) /\ CkptCallKnows(d, "done") /\ "done" \in CkptCallSteps
        /\ d[1] <= sent /\ Has(d, Checkpoint)
    BY <1>0, <2>1 DEF CkptCallKnows, CkptCallSteps
  <2>3. /\ ckptCalls' \in [Deliveries -> CkptCallSteps]
        /\ \A e \in Deliveries : CkptCallKnows(e, ckptCalls'[e])
        /\ \A e \in Deliveries \ {d} : ckptCalls'[e] = ckptCalls[e]
    BY <2>1, <2>2, CkptCallGoesOn
  <2>4. \/ UNCHANGED <<ckpt, disturbed>>
        \/ ckpt' = StatusOf(d) /\ disturbed' = TRUE /\ StatusOf(d) # "ACCUMULATING"
    BY <1>3, <2>2 DEF CreateCheckpoint, UpdateCheckpoint, Creatable, Stores, CkptCallKnows
  <2>5. StatusOf(d) \in Reached /\ Reached \subseteq States
    BY <2>2, ReachedFacts
  <2>6. CkptTypeOK'
    BY <2>1, <2>3, <2>4, <2>5 DEF CkptInv, CkptTypeOK, CkptCallSteps, States, Lifecycle
  <2>7. FetchedHasVotes'
    BY <2>1, <2>3 DEF CkptInv, FetchedHasVotes
  <2>8. ckpt' = ckpt \/ ckpt' \in Reached
    BY <2>4, <2>5
  <2>9. UNCHANGED <<ckpt, disturbed>> \/ disturbed' = TRUE
    BY <2>4
  <2> QED BY <2>1, <2>3, <2>6, <2>7, <2>8, <2>9, SyncUndisturbed, CkptKeeps
<1>4. ASSUME NEW d \in Deliveries, FetchCheckpoint(d) PROVE CkptInv'
  <2>1. /\ ckptCalls[d] = "fetch" /\ ckptCalls' = [ckptCalls EXCEPT ![d] = "votes"]
        /\ ckpt' = "SEALED" /\ disturbed' = TRUE /\ fetched' = TRUE
        /\ UNCHANGED <<ckptVotes, epochSync, statusSync, unvoted>>
    BY <1>4 DEF FetchCheckpoint, Stores
  <2>2. /\ CkptCallKnows(d, "votes") /\ "votes" \in CkptCallSteps
        /\ d[1] <= sent /\ Has(d, Checkpoint) /\ StatusOf(d) = "SEALED"
    BY <1>0, <2>1 DEF CkptCallKnows, CkptCallSteps
  <2>3. /\ ckptCalls' \in [Deliveries -> CkptCallSteps]
        /\ \A e \in Deliveries : CkptCallKnows(e, ckptCalls'[e])
        /\ ckptCalls'[d] = "votes"
    BY <2>1, <2>2, CkptCallGoesOn
  <2>4. ckpt' \in Reached
    BY <2>1, <2>2, ReachedFacts
  <2>5. CkptTypeOK'
    BY <1>0, <2>1, <2>3 DEF CkptInv, CkptTypeOK, CkptCallSteps, States, Lifecycle
  <2>6. FetchedHasVotes'
    BY <2>3 DEF FetchedHasVotes
  <2> QED BY <2>1, <2>3, <2>4, <2>5, <2>6, SyncUndisturbed, CkptKeeps
<1>5. ASSUME NEW d \in Deliveries, StoreVotes(d) \/ CkptFails(d) PROVE CkptInv'
  <2>1. /\ ckptCalls[d] # "none" /\ ckptCalls' = [ckptCalls EXCEPT ![d] = "done"]
        /\ UNCHANGED <<ckpt, epochSync, statusSync, fetched, disturbed>>
        /\ \/ ckptVotes' = TRUE /\ unvoted' = unvoted
           \/ ckptVotes' = ckptVotes /\ unvoted' = (unvoted \/ ckptCalls[d] = "votes")
        /\ ckptCalls[d] = "votes" => ckptVotes' \/ unvoted'
        /\ ckptVotes => ckptVotes'
        /\ unvoted => unvoted'
    <3>1. CASE StoreVotes(d)
      BY <3>1 DEF StoreVotes, ckptHistory
    <3>2. CASE CkptFails(d)
      <4>1. unvoted' = (unvoted \/ ckptCalls[d] = "votes")
        BY <3>2 DEF CkptFails
      <4>2. /\ ckptCalls[d] # "none" /\ ckptCalls' = [ckptCalls EXCEPT ![d] = "done"]
            /\ UNCHANGED <<ckpt, epochSync, statusSync, fetched, disturbed, ckptVotes>>
        BY <3>2 DEF CkptFails
      <4>3. ckptCalls[d] = "votes" => unvoted'
        BY <4>1
      <4>4. unvoted => unvoted'
        BY <4>1
      <4>5. ckptVotes' = ckptVotes
        BY <4>2
      <4> QED BY <4>1, <4>2, <4>3, <4>4, <4>5
    <3> QED BY <1>5, <3>1, <3>2
  <2>2. CkptCallKnows(d, "done") /\ "done" \in CkptCallSteps
    BY <1>0, <2>1 DEF CkptCallKnows, CkptCallSteps
  <2>3. /\ ckptCalls' \in [Deliveries -> CkptCallSteps]
        /\ \A e \in Deliveries : CkptCallKnows(e, ckptCalls'[e])
        /\ \A e \in Deliveries \ {d} : ckptCalls'[e] = ckptCalls[e]
    BY <2>1, <2>2, CkptCallGoesOn
  <2>4. ckptVotes' \in BOOLEAN /\ unvoted' \in BOOLEAN
    BY <2>1 DEF CkptInv, CkptTypeOK
  <2>5. CkptTypeOK'
    BY <2>1, <2>3, <2>4 DEF CkptInv, CkptTypeOK, CkptCallSteps, States, Lifecycle
  <2>6. FetchedHasVotes'
    BY <2>1, <2>3 DEF CkptInv, FetchedHasVotes
  <2> QED BY <2>1, <2>3, <2>5, <2>6, SyncUndisturbed, CkptKeeps
<1>6. CASE EpochStep
  <2>1. UNCHANGED <<ckptCalls, statusSync>> /\ epochSync' \in {"fetch", "votes", "done"}
    BY <1>6 DEF EpochStep, ListEpochs, FetchEpoch, StoreEpochVotes, EpochSyncFails
  <2>2. \/ UNCHANGED <<ckpt, disturbed>>
        \/ ckpt' = "SEALED" /\ disturbed' = TRUE /\ "SEALED" \in Reached
    BY <1>6 DEF EpochStep, ListEpochs, FetchEpoch, StoreEpochVotes, EpochSyncFails, Stores,
                ckptHistory
  <2>3. /\ ckptVotes' \in BOOLEAN /\ unvoted' \in BOOLEAN /\ fetched' \in BOOLEAN
        /\ fetched' = fetched \/ epochSync' = "votes"
        /\ ckptVotes => ckptVotes'
        /\ unvoted => unvoted'
        /\ epochSync = "votes" => ckptVotes' \/ unvoted'
    BY <1>6 DEF EpochStep, ListEpochs, FetchEpoch, StoreEpochVotes, EpochSyncFails, ckptHistory,
                CkptInv, CkptTypeOK
  <2>4. CkptTypeOK'
    BY <1>0, <2>1, <2>2, <2>3 DEF CkptInv, CkptTypeOK, CkptCallSteps, States, Lifecycle
  <2>5. FetchedHasVotes'
    BY <2>1, <2>3 DEF CkptInv, FetchedHasVotes
  <2>6. /\ ckpt' = ckpt \/ ckpt' \in Reached
        /\ UNCHANGED <<ckpt, disturbed>> \/ disturbed' = TRUE
    BY <2>2
  <2> QED BY <1>0, <2>1, <2>4, <2>5, <2>6, SyncUndisturbed, CkptKeeps
<1>7. CASE ListStatuses
  <2>1. /\ UNCHANGED <<ckpt, ckptVotes, ckptCalls, epochSync, fetched, unvoted>>
        /\ disturbed' = FALSE
        /\ statusSync' = [statusSync EXCEPT !.listed = ckpt,
                            !.pc = IF ckpt \in {"none", "FINALIZED"} THEN "done" ELSE "ask"]
    BY <1>7 DEF ListStatuses
  <2>2. /\ statusSync' = [pc |-> statusSync'.pc, listed |-> statusSync'.listed,
                          answer |-> statusSync'.answer]
        /\ statusSync'.listed = ckpt /\ statusSync'.answer = statusSync.answer
        /\ statusSync'.pc \in {"done", "ask"} /\ (statusSync'.pc = "ask" => ckpt # "none")
    BY <2>1 DEF CkptInv, StatusSyncKnows
  <2>3. CkptTypeOK'
    BY <2>1, <2>2 DEF CkptInv, CkptTypeOK, States, Lifecycle
  <2>4. FetchedHasVotes'
    BY <2>1 DEF CkptInv, FetchedHasVotes
  <2>5. statusSync'.pc = "ask" => ckpt \in Reached \ {"ACCUMULATING"}
    BY <2>2 DEF CkptInv, CkptTypeOK
  <2> QED BY <1>0, <2>1, <2>2, <2>3, <2>4, <2>5, CkptKeeps
<1>8. CASE AskStatus
  <2>1. /\ UNCHANGED <<ckpt, ckptVotes, ckptCalls, epochSync, fetched, unvoted, disturbed>>
        /\ statusSync.pc = "ask"
        /\ statusSync' = [statusSync EXCEPT !.pc = "write", !.answer = ChainStatus]
    BY <1>8 DEF AskStatus, ckptHistory
  <2>2. /\ statusSync.listed \in Reached \ {"ACCUMULATING"}
        /\ disturbed \/ ckpt = statusSync.listed
    BY <2>1 DEF CkptInv, StatusSyncKnows
  <2>3. ChainStatus \in Reached /\ Rank(statusSync.listed) <= Rank(ChainStatus)
        /\ ChainStatus \in States
    BY <2>2, ChainStatusFact, ReachedFacts
  <2>4. /\ statusSync' = [pc |-> statusSync'.pc, listed |-> statusSync'.listed,
                          answer |-> statusSync'.answer]
        /\ statusSync'.listed = statusSync.listed /\ statusSync'.answer = ChainStatus
        /\ statusSync'.pc = "write"
    BY <2>1 DEF CkptInv, StatusSyncKnows
  <2>5. CkptTypeOK'
    BY <2>1, <2>3, <2>4 DEF CkptInv, CkptTypeOK, States, Lifecycle
  <2>6. FetchedHasVotes'
    BY <2>1 DEF CkptInv, FetchedHasVotes
  <2> QED BY <1>0, <2>1, <2>2, <2>3, <2>4, <2>5, <2>6, CkptKeeps
<1>9. CASE WriteStatus
  <2>1. /\ UNCHANGED <<ckptVotes, ckptCalls, epochSync, fetched, unvoted, disturbed>>
        /\ statusSync.pc = "write" /\ statusSync' = [statusSync EXCEPT !.pc = "done"]
        /\ ckpt' = IF statusSync.answer = statusSync.listed THEN ckpt ELSE statusSync.answer
    BY <1>9 DEF WriteStatus, ckptHistory
  <2>2. /\ statusSync' = [pc |-> statusSync'.pc, listed |-> statusSync'.listed,
                          answer |-> statusSync'.answer]
        /\ statusSync'.listed = statusSync.listed /\ statusSync'.answer = statusSync.answer
        /\ statusSync'.pc = "done"
    BY <2>1 DEF CkptInv, StatusSyncKnows
  <2>3. /\ statusSync.listed \in Reached \ {"ACCUMULATING"} /\ statusSync.answer \in Reached
        /\ Rank(statusSync.listed) <= Rank(statusSync.answer)
    BY <2>1 DEF CkptInv, StatusSyncKnows
  <2>4. statusSync.answer # "ACCUMULATING" /\ statusSync.answer \in States
    <3>1. statusSync.listed \in States /\ statusSync.answer \in States
      BY <2>3, ReachedFacts
    <3>2. Rank(statusSync.listed) \in 1..5 /\ Rank(statusSync.listed) # 1
      BY <2>3, <3>1, RankFacts
    <3>3. Rank(statusSync.answer) # 1
      BY <2>3, <3>1, <3>2, RankFacts
    <3> QED BY <3>1, <3>3, RankFacts
  <2>5. CkptTypeOK'
    BY <2>1, <2>2, <2>4 DEF CkptInv, CkptTypeOK, States, Lifecycle
  <2>6. FetchedHasVotes'
    BY <2>1 DEF CkptInv, FetchedHasVotes
  <2>7. ckpt' = ckpt \/ ckpt' \in Reached
    BY <2>1, <2>3
  <2> QED BY <1>0, <2>1, <2>2, <2>5, <2>6, <2>7, CkptKeeps
<1>10. CASE StatusSyncFails
  <2>1. /\ UNCHANGED <<ckpt, ckptVotes, ckptCalls, epochSync, fetched, unvoted, disturbed>>
        /\ statusSync' = [StatusIdle EXCEPT !.pc = "done"]
    BY <1>10 DEF StatusSyncFails, ckptHistory
  <2>2. statusSync' = [pc |-> "done", listed |-> "none", answer |-> "none"]
    BY <2>1 DEF StatusIdle
  <2>3. CkptTypeOK'
    BY <2>1, <2>2 DEF CkptInv, CkptTypeOK, States, Lifecycle
  <2>4. FetchedHasVotes'
    BY <2>1 DEF CkptInv, FetchedHasVotes
  <2> QED BY <1>0, <2>1, <2>2, <2>3, <2>4, CkptKeeps
<1>11. CASE UNCHANGED ckptVars
  <2>1. UNCHANGED <<ckpt, ckptVotes, ckptCalls, epochSync, statusSync, fetched, unvoted, disturbed>>
    BY <1>11 DEF ckptVars, ckptHistory
  <2>2. CkptTypeOK' /\ FetchedHasVotes'
    BY <2>1 DEF CkptInv, CkptTypeOK, FetchedHasVotes, States, Lifecycle
  <2> QED BY <1>0, <2>1, <2>2, SyncUndisturbed, CkptKeeps
<1> QED BY <1>1, <1>2, <1>3, <1>4, <1>5, <1>6, <1>7, <1>8, <1>9, <1>10, <1>11, StepSplit
        DEF CkptAny, CkptStep, StatusStep

\* A status falls back only by the handler of an older event, by the sync of
\* missing epochs, or by the sync of statuses when others wrote since it
\* listed (CheckpointStatusHandler, BLSCheckpointFetcher, CheckpointStatusFetcher).
THEOREM FallsBackByLateWriterHolds == Spec => FallsBackByLateWriter
<1> DEFINE Late == Rank(ckpt') < Rank(ckpt) =>
         \/ \E d \in Deliveries : /\ ckptCalls[d] \in {"update", "fetch"}
                                  /\ ckptCalls'[d] # ckptCalls[d]
                                  /\ Rank(StatusOf(d)) < Rank(ckpt)
         \/ epochSync = "fetch" /\ epochSync' = "votes"
         \/ statusSync.pc = "write" /\ disturbed
<1>1. ASSUME CkptInv, NodeTyped, [Next]_vars PROVE [Late]_ckptVars
  <2> SUFFICES ASSUME Rank(ckpt') < Rank(ckpt)
               PROVE  \/ \E d \in Deliveries : /\ ckptCalls[d] \in {"update", "fetch"}
                                               /\ ckptCalls'[d] # ckptCalls[d]
                                               /\ Rank(StatusOf(d)) < Rank(ckpt)
                      \/ epochSync = "fetch" /\ epochSync' = "votes"
                      \/ statusSync.pc = "write" /\ disturbed
    OBVIOUS
  <2>0. /\ Rank(ckpt) \in 0..5 /\ Rank("none") = 0
        /\ Rank(ckpt) = 0 => ckpt = "none"
        /\ ckptCalls \in [Deliveries -> CkptCallSteps]
        /\ \A d \in Deliveries : CkptCallKnows(d, ckptCalls[d])
    BY <1>1, RankFacts DEF CkptInv, CkptTypeOK, CkptCallSteps
  <2>1. ckpt' # ckpt
    BY <2>0
  <2>2. ASSUME NEW d \in Deliveries, CkptStep(d)
        PROVE  ckptCalls[d] \in {"update", "fetch"} /\ ckptCalls'[d] # ckptCalls[d]
               /\ Rank(StatusOf(d)) < Rank(ckpt)
    <3>1. CASE CreateCheckpoint(d)
      <4>1. ckpt = "none" /\ ckpt' = StatusOf(d) /\ ckptCalls[d] = "create"
        BY <2>1, <3>1 DEF CreateCheckpoint, Creatable, Stores
      <4>2. StatusOf(d) \in States
        BY <1>1, <2>0, <4>1, ReachedFacts DEF CkptCallKnows
      <4> QED BY <2>0, <4>1, <4>2, RankFacts
    <3>2. CASE UpdateCheckpoint(d)
      BY <2>0, <3>2 DEF UpdateCheckpoint, Stores
    <3>3. CASE FetchCheckpoint(d)
      <4>1. ckptCalls[d] = "fetch" /\ ckptCalls'[d] = "votes" /\ ckpt' = "SEALED"
        BY <2>0, <3>3 DEF FetchCheckpoint, Stores
      <4>2. StatusOf(d) = "SEALED"
        BY <2>0, <4>1 DEF CkptCallKnows
      <4> QED BY <4>1, <4>2
    <3>4. CASE FindCheckpoint(d) \/ StoreVotes(d) \/ CkptFails(d)
      BY <2>1, <3>4 DEF FindCheckpoint, StoreVotes, CkptFails
    <3> QED BY <2>2, <3>1, <3>2, <3>3, <3>4 DEF CkptStep
  <2>3. CASE EpochStep
    <3>1. CASE FetchEpoch
      BY <2>1, <3>1 DEF FetchEpoch
    <3>2. CASE ListEpochs \/ StoreEpochVotes \/ EpochSyncFails
      BY <2>1, <3>2 DEF ListEpochs, StoreEpochVotes, EpochSyncFails
    <3> QED BY <2>3, <3>1, <3>2 DEF EpochStep
  <2>4. CASE StatusStep
    <3>1. CASE WriteStatus
      <4>1. statusSync.pc = "write" /\ ckpt' = statusSync.answer
        BY <2>1, <3>1 DEF WriteStatus
      <4>2. /\ Rank(statusSync.listed) <= Rank(statusSync.answer)
            /\ disturbed \/ ckpt = statusSync.listed
            /\ statusSync.answer \in States
        BY <1>1, <4>1, ReachedFacts DEF CkptInv, StatusSyncKnows
      <4>3. Rank(statusSync.answer) \in 1..5
        BY <4>2, RankFacts
      <4> QED BY <2>0, <4>1, <4>2, <4>3
    <3>2. CASE ListStatuses \/ AskStatus \/ StatusSyncFails
      BY <2>1, <3>2 DEF ListStatuses, AskStatus, StatusSyncFails
    <3> QED BY <2>4, <3>1, <3>2 DEF StatusStep
  <2>5. ASSUME NEW d \in Deliveries, CkptStart(d) PROVE FALSE
    BY <2>1, <2>5 DEF CkptStart
  <2>6. CASE UNCHANGED ckptVars
    BY <2>1, <2>6 DEF ckptVars
  <2> QED BY <1>1, <2>2, <2>3, <2>4, <2>5, <2>6, StepSplit DEF CkptAny
<1>2. CkptInv /\ NodeTyped /\ [Next]_vars => (CkptInv /\ NodeTyped)'
  BY CkptInvStep, NodeStep
<1> HIDE DEF Late
<1>3. Spec => [][Late]_ckptVars
  BY <1>1, <1>2, CkptInvInit, NodeInit, PTL DEF Spec
<1> QED BY <1>3 DEF Late, FallsBackByLateWriter

-----------------------------------------------------------------------------
(* The transactions: what is saved is a transaction.                         *)

TxInv ==
    /\ TxTypeOK
    /\ \A d \in Deliveries : txCalls[d] \in {"process", "save"} => TxOf(d[1]) # Nothing

\* Saving a transaction once more keeps the set of them finite.
LEMMA SavedTxs ==
    ASSUME NEW S, IsFiniteSet(S), Nothing \notin S, NEW tx, tx # Nothing
    PROVE  IsFiniteSet(S \cup {tx}) /\ Nothing \notin (S \cup {tx})
BY FS_AddElement

LEMMA TxInvInit == Init => TxInv
<1> SUFFICES ASSUME Init PROVE TxInv
  OBVIOUS
<1>1. /\ txs = {} /\ total = -1 /\ txCalls = [d \in Deliveries |-> "none"]
      /\ counters = [k \in Counters |->
            [CounterIdle EXCEPT !.pc = IF ~Runs("statistics") THEN "off"
                                       ELSE IF k = "boot" THEN "find" ELSE "idle"]]
  BY DEF Init, TxInit
<1>2. IsFiniteSet(txs) /\ Nothing \notin txs
  BY <1>1, FS_EmptySet
<1>3. counters \in [Counters -> [pc : {"off", "idle", "find", "count", "write"}, counted : Nat]]
  BY <1>1 DEF CounterIdle
<1> QED BY <1>1, <1>2, <1>3 DEF TxInv, TxTypeOK

LEMMA TxInvStep ==
    ASSUME TxInv, [Next]_vars
    PROVE  TxInv'
<1> DEFINE CounterType == [pc : {"off", "idle", "find", "count", "write"}, counted : Nat]
<1>0. /\ txCalls \in [Deliveries -> {"none", "process", "save", "done"}]
      /\ counters \in [Counters -> CounterType] /\ total \in Nat \cup {-1}
      /\ IsFiniteSet(txs) /\ Nothing \notin txs
      /\ CounterIdle \in CounterType
      /\ \A n : TxOf(n)' = TxOf(n)
  BY StepSplit DEF TxInv, TxTypeOK, CounterIdle, TxOf
<1>1. ASSUME txCalls' \in [Deliveries -> {"none", "process", "save", "done"}],
             counters' \in [Counters -> CounterType], total' \in Nat \cup {-1},
             IsFiniteSet(txs'), Nothing \notin txs',
             \A d \in Deliveries : txCalls'[d] \in {"process", "save"} => TxOf(d[1]) # Nothing
      PROVE  TxInv'
  BY <1>0, <1>1 DEF TxInv, TxTypeOK
<1>2. ASSUME NEW d \in Deliveries, TxStart(d) \/ TxStep(d) PROVE TxInv'
  <2>1. UNCHANGED <<total, counters>>
    BY <1>2 DEF TxStart, TxStep, ProcessTx, SaveAgain, TxFails, SaveTx
  <2>2. PICK place \in {"process", "save", "done"} :
          /\ txCalls' = [txCalls EXCEPT ![d] = place]
          /\ place # "done" => TxOf(d[1]) # Nothing
    BY <1>2 DEF TxInv, TxStart, TxStep, ProcessTx, SaveAgain, TxFails
  <2>3. txs' = txs \/ (txs' = txs \cup {TxOf(d[1])} /\ TxOf(d[1]) # Nothing)
    BY <1>2 DEF TxInv, TxStart, TxStep, ProcessTx, SaveAgain, TxFails, SaveTx
  <2>4. IsFiniteSet(txs') /\ Nothing \notin txs'
    <3>1. CASE txs' = txs
      BY <1>0, <3>1
    <3>2. CASE txs' = txs \cup {TxOf(d[1])} /\ TxOf(d[1]) # Nothing
      BY <1>0, <3>2, SavedTxs
    <3> QED BY <2>3, <3>1, <3>2
  <2>5. txCalls' \in [Deliveries -> {"none", "process", "save", "done"}]
    BY <1>0, <2>2
  <2>6. \A e \in Deliveries : txCalls'[e] \in {"process", "save"} => TxOf(e[1]) # Nothing
    BY <1>0, <2>2 DEF TxInv
  <2> HIDE DEF CounterType
  <2> QED BY <1>0, <1>1, <2>1, <2>4, <2>5, <2>6
<1>3. ASSUME NEW d \in Deliveries, SyncTx(d[1]) PROVE TxInv'
  <2>1. /\ UNCHANGED <<total, counters, txCalls>>
        /\ txs' = txs \cup {TxOf(d[1])} /\ TxOf(d[1]) # Nothing
    BY <1>3 DEF SyncTx, SaveTx
  <2>2. IsFiniteSet(txs') /\ Nothing \notin txs'
    BY <1>0, <2>1, SavedTxs
  <2> HIDE DEF CounterType
  <2> QED BY <1>0, <1>1, <2>1, <2>2 DEF TxInv
<1>4. ASSUME NEW k \in Counters, NEW place \in {"count", "idle"},
             Counter(k, place), UNCHANGED <<txs, total, txCalls>>
      PROVE  TxInv'
  <2>1. counters' \in [Counters -> CounterType]
    BY <1>0, <1>4 DEF Counter
  <2> HIDE DEF CounterType
  <2> QED BY <1>0, <1>1, <1>4, <2>1 DEF TxInv
<1>5. CASE HourPasses \/ AskTotal \/ FindStats
  BY <1>4, <1>5 DEF HourPasses, AskTotal, FindStats, Counters
<1>6. ASSUME NEW k \in Counters, CounterStep(k) PROVE TxInv'
  <2>1. UNCHANGED <<txs, txCalls>>
    BY <1>6 DEF CounterStep, CountTxs, WriteStats, CountFails
  <2>2. Cardinality(txs) \in Nat
    BY <1>0, FS_CardinalityType
  <2>3. counters' \in [Counters -> CounterType]
    BY <1>0, <1>6, <2>2 DEF CounterStep, CountTxs, WriteStats, CountFails
  <2>4. total' \in Nat \cup {-1}
    BY <1>0, <1>6 DEF CounterStep, CountTxs, WriteStats, CountFails
  <2> HIDE DEF CounterType
  <2> QED BY <1>0, <1>1, <2>1, <2>3, <2>4 DEF TxInv
<1>7. CASE UNCHANGED txVars
  BY <1>0, <1>1, <1>7 DEF txVars, TxInv
<1> QED BY <1>2, <1>3, <1>5, <1>6, <1>7, StepSplit DEF TxAny

-----------------------------------------------------------------------------
(* The message service: its components' invariants together.                 *)

ServiceInv == NodeTyped /\ CovInv /\ GovInv /\ CkptInv /\ TxInv

LEMMA ServiceInvHolds == Spec => []ServiceInv
<1>1. Init => ServiceInv
  BY NodeInit, CovInvInit, GovInvInit, CkptInvInit, TxInvInit DEF ServiceInv
<1>2. ServiceInv /\ [Next]_vars => ServiceInv'
  BY NodeStep, CovInvStep, GovInvStep, CkptInvStep, TxInvStep DEF ServiceInv
<1> QED BY <1>1, <1>2, PTL DEF Spec

\* Every variable of every component keeps its type, whatever messages are
\* lost, repeated or late (WebSocketMessageService.processMessage).
THEOREM TypeCorrect == Spec => []TypeOK
<1>1. ServiceInv => TypeOK
  BY GovTypeFact DEF ServiceInv, TypeOK, NodeTyped, CovInv, GovInv, CkptInv, TxInv
<1> QED BY <1>1, ServiceInvHolds, PTL

\* The documents agree with themselves, whatever calls save them side by
\* side: the covenant's counts are those of its entries and nobody is left
\* pending in a document that was closed, the counts of a proposal are those
\* of its votes, and a checkpoint that was fetched has its votes
\* (CovenantSignatureService, GovernanceEventHandler, BLSCheckpointFetcher).
THEOREM DocumentsHoldAlways == Spec => []DocumentsHold
<1>1. ServiceInv => DocumentsHold
  BY GovTypeFact DEF ServiceInv, DocumentsHold, TypeOK, NodeTyped, CovInv, GovInv, CkptInv, TxInv
<1> QED BY <1>1, ServiceInvHolds, PTL
=============================================================================
