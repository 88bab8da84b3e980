---------------------------- MODULE WasmVerifier ----------------------------
(***************************************************************************)
(* Verification of a code against its source, beside the passes of the     *)
(* indexer.  A submission is accepted while the code is not verified, so   *)
(* several may run for one code; each builds the source for minutes, then  *)
(* writes its record, the code, the contracts and the source, one after    *)
(* the other.  Archive and repository are handled by the same steps.       *)
(***************************************************************************)
EXTENDS WasmIndex

CONSTANT Jobs   \* submissions

VARIABLES
    job,        \* job[j]: where submission j is, and its code
    record,     \* record[j]: the status in its Verification document
    verified,   \* codes whose document says verified
    schema,     \* contracts whose methods are those of the verified source
    source,     \* source[k]: the submission whose source tree is stored, if any
    files,      \* files[k]: submissions with files among those stored
    broken,     \* history: submissions stopped, or failed after their verdict
    crossed     \* history: submissions that stored their source side by side

verifierVars == <<job, record, verified, schema, source, files, broken, crossed>>
allVars == <<indexVars, verifierVars>>

Storing == {"purgeSource", "purgeFiles", "source", "files"}
Ended == {"none", "end"}

VerifierInit ==
    /\ IndexInit
    /\ job = [j \in Jobs |-> [at |-> "none", code |-> None]]
    /\ record = [j \in Jobs |-> "none"]
    /\ verified = {} /\ schema = {} /\ broken = {} /\ crossed = {}
    /\ source = [k \in Codes |-> {}] /\ files = [k \in Codes |-> {}]

JobGoes(j, at) == job' = [job EXCEPT ![j].at = at]
AtStep(j, at) == job[j].at = at /\ UNCHANGED indexVars

\* verifyContract, verifyContractFromGitHub
Submit(j, k) ==
    /\ AtStep(j, "none") /\ j \in wasmScene.jobs
    /\ k \in StoredCodes \ verified
    /\ job' = [job EXCEPT ![j] = [at |-> "build", code |-> k]]
    /\ record' = [record EXCEPT ![j] = "pending"]
    /\ UNCHANGED <<verified, schema, source, files, broken, crossed>>

\* What buildContract gives: a binary with the hash of the chain, one with
\* another hash, or an error.
BuildResults == {"same", "other", "error"}

Build(j) ==
    /\ AtStep(j, "build")
    /\ \E result \in BuildResults :
         /\ JobGoes(j, CASE result = "same" -> "mark"
                        [] result = "other" -> "end"
                        [] result = "error" -> "fail")
         /\ record' = CASE result = "same" -> [record EXCEPT ![j] = "success"]
                        [] result = "other" -> [record EXCEPT ![j] = "failed"]
                        [] result = "error" -> record
    /\ UNCHANGED <<verified, schema, source, files, broken, crossed>>

MarkCode(j) ==
    /\ AtStep(j, "mark") /\ JobGoes(j, "methods")
    /\ verified' = verified \cup {job[j].code}
    /\ UNCHANGED <<record, schema, source, files, broken, crossed>>

\* Only the contracts stored by now get the methods of the schema.
SetMethods(j) ==
    /\ AtStep(j, "methods") /\ JobGoes(j, "purgeSource")
    /\ schema' = schema \cup ContractsOf(job[j].code)
    /\ LET beside == {i \in Jobs \ {j} : job[i].code = job[j].code /\ job[i].at \in Storing}
       IN crossed' = IF beside = {} THEN crossed ELSE crossed \cup beside \cup {j}
    /\ UNCHANGED <<record, verified, source, files, broken>>

\* parseAndStoreSourceCode: one tree for a code, one file for a path of it
PurgeSource(j) ==
    /\ AtStep(j, "purgeSource") /\ JobGoes(j, "purgeFiles")
    /\ source' = [source EXCEPT ![job[j].code] = {}]
    /\ UNCHANGED <<record, verified, schema, files, broken, crossed>>

PurgeFiles(j) ==
    /\ AtStep(j, "purgeFiles") /\ JobGoes(j, "source")
    /\ files' = [files EXCEPT ![job[j].code] = {}]
    /\ UNCHANGED <<record, verified, schema, source, broken, crossed>>

StoreSource(j) ==
    /\ AtStep(j, "source")
    /\ IF source[job[j].code] = {}
       THEN JobGoes(j, "files") /\ source' = [source EXCEPT ![job[j].code] = {j}]
       ELSE JobGoes(j, "end") /\ UNCHANGED source
    /\ UNCHANGED <<record, verified, schema, files, broken, crossed>>

\* A path stored by another submission is refused, the others are written.
StoreFiles(j) ==
    /\ AtStep(j, "files") /\ JobGoes(j, "end")
    /\ LET k == job[j].code IN
       \E all \in {files[k], files[k] \cup {j}} :
          /\ files[k] = {} => j \in all
          /\ files' = [files EXCEPT ![k] = all]
    /\ UNCHANGED <<record, verified, schema, source, broken, crossed>>

\* The catch of the whole verification, its record read again and saved.
RecordFailure(j) ==
    /\ AtStep(j, "fail") /\ JobGoes(j, "end")
    /\ record' = [record EXCEPT ![j] = "failed"]
    /\ UNCHANGED <<verified, schema, source, files, broken, crossed>>

\* Mutant: an error after the verdict leaves the record as it is
JobFailsQuietly(j) ==
    /\ job[j].at \notin Ended /\ failures > 0 /\ failures' = failures - 1
    /\ JobGoes(j, "end")
    /\ broken' = IF job[j].at \in {"fail", "files"} THEN broken \cup {j} ELSE broken
    /\ UNCHANGED <<wasmScene, migrations, chainVars, dbVars, started, pass, worker, historyVars>>
    /\ UNCHANGED <<record, verified, schema, source, files, crossed>>

\* An error of a step goes to that catch, one of the source is swallowed.
JobFails(j) ==
    /\ job[j].at \notin Ended /\ failures > 0 /\ failures' = failures - 1
    /\ JobGoes(j, IF job[j].at \in Storing \cup {"fail"} THEN "end" ELSE "fail")
    /\ broken' = IF job[j].at \in {"fail", "files"} THEN broken \cup {j} ELSE broken
    /\ UNCHANGED <<wasmScene, migrations, chainVars, dbVars, started, pass, worker, historyVars>>
    /\ UNCHANGED <<record, verified, schema, source, files, crossed>>

\* Nothing takes a submission up again after a stop.
StopJobs ==
    /\ Restart
    /\ broken' = broken \cup {j \in Jobs : job[j].at \notin Ended}
    /\ job' = [j \in Jobs |-> IF job[j].at = "none" THEN job[j] ELSE [job[j] EXCEPT !.at = "end"]]
    /\ UNCHANGED <<record, verified, schema, source, files, crossed>>

JobStep(j) ==
    \/ Build(j) \/ MarkCode(j) \/ SetMethods(j) \/ RecordFailure(j)
    \/ PurgeSource(j) \/ PurgeFiles(j) \/ StoreSource(j) \/ StoreFiles(j)

IndexStep ==
    /\ \/ WasmMoves
       \/ \E p \in Passes : \/ Start(p) \/ \E full \in BOOLEAN : Tick(p, full)
                            \/ Works(p) \/ Fails(p)
    /\ UNCHANGED verifierVars

VerifierNext ==
    \/ IndexStep \/ StopJobs
    \/ \E j \in Jobs : JobStep(j) \/ JobFails(j) \/ \E k \in Codes : Submit(j, k)

VerifierSpec == VerifierInit /\ [][VerifierNext]_allVars

\* Calls return, and the timers fire whatever runs: that only so many passes
\* run at once is a bound of the model, hence SF.
FairVerifierSpec ==
    /\ VerifierSpec
    /\ WF_allVars(\E p \in Passes : Start(p) /\ UNCHANGED verifierVars)
    /\ SF_allVars(\E p \in Passes : Tick(p, TRUE) /\ UNCHANGED verifierVars)
    /\ \A p \in Passes : WF_allVars(Works(p) /\ UNCHANGED verifierVars)

-----------------------------------------------------------------------------
VerifierTypeOK ==
    /\ IndexTypeOK
    /\ job \in [Jobs -> [at : Storing \cup Ended \cup {"build", "mark", "methods", "fail"},
                         code : 0..latest]]
    /\ record \in [Jobs -> {"none", "pending", "success", "failed"}]
    /\ verified \subseteq Codes /\ schema \subseteq Contracts
    /\ source \in [Codes -> SUBSET Jobs] /\ files \in [Codes -> SUBSET Jobs]
    /\ broken \subseteq Jobs /\ crossed \subseteq Jobs

\* A record never says success of a code that is not marked verified, and none
\* is left pending by a submission that has ended, unless it was stopped or
\* its failure could not be written (verifier.service.ts:81).
VerdictHolds ==
    \A j \in Jobs \ broken :
        /\ record[j] = "success" =>
             job[j].code \in verified \/ job[j].at \in {"mark", "fail"}
        /\ record[j] = "pending" => job[j].at \notin Ended

\* The files stored for a code are those of the submission its source tree is
\* of, once that has ended, unless two stored theirs side by side: nothing
\* excludes that (source-code-parser.service.ts:32).
SourceOfOne ==
    \A k \in Codes : \A j \in Jobs \ (broken \cup crossed) :
        j \in source[k] /\ job[j].at = "end" => files[k] = {j}

\* What submissions for one code leave of each other's records and files.
VerifierHolds == VerifierTypeOK /\ VerdictHolds /\ SourceOfOne
=============================================================================
