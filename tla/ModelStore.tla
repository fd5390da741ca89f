----------------------------- MODULE ModelStore -----------------------------
(***************************************************************************)
(* Versioned model checkpoints (learning/store.py), one file operation at  *)
(* a time, with a crash between any two, and what the next process loads.  *)
(* A file holds a document [version, hash, body] or Torn; the body is the  *)
(* number of samples the model had learned.                                *)
(***************************************************************************)
EXTENDS Naturals, SequencesExt

CONSTANTS Models,        \* model names, in the order checkpoint() saves them
          Hashes,        \* feature fingerprints of the programs that run
          KeepVersions,  \* versions kept per model (10 in the code)
          MaxVersion,    \* bound on the saves of one model
          MaxLosses      \* bound on crashes and rollbacks together

ASSUME StoreAssumption ==
  /\ Models \in Seq(STRING) \ {<<>>} /\ KeepVersions \in Nat \ {0}
  /\ MaxVersion \in Nat /\ MaxLosses \in Nat

Names == {Models[i] : i \in DOMAIN Models}
Torn == [torn |-> TRUE]
Nothing == [nothing |-> TRUE]

VARIABLES stFile,      \* name -> version -> document (partial): the numbered files
          stLatest,    \* name -> document, Torn or Nothing: <name>.latest.json
          stDisk,      \* the index on disk: name -> sequence of versions
          stIndex,     \* the index in memory
          stHash,      \* fingerprint of the running program, "" when none runs
          stBody,      \* name -> what the running program has learned
          stTodo,      \* models the running checkpoint() still has to save
          stStep,      \* next file operation of the save under way
          stDropped,   \* versions _prune took out of the index in memory, still on disk
          stLosses,
          stSaved,     \* name -> documents whose numbered file was completed (history)
          stReused     \* a numbered file was replaced by another document (history)

stVars == <<stFile, stLatest, stDisk, stIndex, stHash, stBody, stTodo, stStep, stDropped,
            stLosses, stSaved, stReused>>

Doc(n, v) == [version |-> v, hash |-> stHash, body |-> stBody[n]]

StInit ==
  /\ stFile = [n \in Names |-> [v \in {} |-> Nothing]]
  /\ stLatest = [n \in Names |-> Nothing]
  /\ stDisk = [n \in Names |-> <<>>] /\ stIndex = stDisk
  /\ stHash = "" /\ stBody = [n \in Names |-> 0]
  /\ stTodo = <<>> /\ stStep = "idle" /\ stDropped = <<>> /\ stLosses = 0
  /\ stSaved = [n \in Names |-> {}] /\ stReused = FALSE

\* Mutant of Load: the fingerprint is not compared.
LoadAnyHash(n, hash) == IF stLatest[n] \in {Torn, Nothing} THEN Nothing ELSE stLatest[n]

\* load: the body of the latest document, unless it cannot be read or was trained on
\* other features; None is Nothing.
Load(n, hash) ==
  LET d == stLatest[n] IN
  IF d \in {Torn, Nothing} THEN Nothing
  ELSE IF hash # "" /\ d.hash # "" /\ d.hash # hash THEN Nothing ELSE d

Loaded(d) == IF d = Nothing THEN 0 ELSE d.body

\* A process starts: the index is read, every model is loaded or begins fresh.
Boot(hash) ==
  /\ stHash = ""
  /\ stHash' = hash
  /\ stIndex' = stDisk
  /\ stBody' = [n \in Names |-> Loaded(Load(n, hash))]
  /\ UNCHANGED <<stFile, stLatest, stDisk, stTodo, stStep, stDropped, stLosses, stSaved, stReused>>

\* Every model learns from a finished cycle.
Learn ==
  /\ stHash # "" /\ stTodo = <<>> /\ \A n \in Names : stBody[n] < MaxVersion
  /\ stBody' = [n \in Names |-> stBody[n] + 1]
  /\ UNCHANGED <<stFile, stLatest, stDisk, stIndex, stHash, stTodo, stStep, stDropped,
                 stLosses, stSaved, stReused>>

NextVersion(n) == IF stIndex[n] = <<>> THEN 1 ELSE Last(stIndex[n]) + 1

\* checkpoint(), on shutdown: one save after the other.
BeginCheckpoint ==
  /\ stHash # "" /\ stTodo = <<>> /\ stStep = "idle"
  /\ \A n \in Names : NextVersion(n) <= MaxVersion
  /\ stTodo' = Models /\ stStep' = "write"
  /\ UNCHANGED <<stFile, stLatest, stDisk, stIndex, stHash, stBody, stDropped, stLosses,
                 stSaved, stReused>>

Current == Head(stTodo)
\* The temporary file is written, synced and renamed over the numbered one.
ReplaceVersion ==
  /\ stStep = "write"
  /\ LET n == Current  v == NextVersion(n)  d == Doc(n, v) IN
     /\ stFile' = [stFile EXCEPT ![n] = [u \in DOMAIN @ \cup {v} |-> IF u = v THEN d ELSE @[u]]]
     /\ stSaved' = [stSaved EXCEPT ![n] = @ \cup {d}]
     /\ stReused' = (stReused \/ (v \in DOMAIN stFile[n] /\ stFile[n][v] # d))
  /\ stStep' = "copy"
  /\ UNCHANGED <<stLatest, stDisk, stIndex, stHash, stBody, stTodo, stDropped, stLosses>>

\* shutil.copy2 truncates the latest file, then fills it.
TruncateLatest ==
  /\ stStep = "copy"
  /\ stLatest' = [stLatest EXCEPT ![Current] = Torn]
  /\ stStep' = "fill"
  /\ UNCHANGED <<stFile, stDisk, stIndex, stHash, stBody, stTodo, stDropped, stLosses, stSaved, stReused>>

\* Mutant of FillLatest: pruning drops the newest version.
FillPrunesNewest ==
  /\ stStep = "fill"
  /\ LET n == Current
         all == Append(stIndex[n], NextVersion(n))
         keep == Min({KeepVersions, Len(all)})
     IN  /\ stLatest' = [stLatest EXCEPT ![n] = stFile[n][NextVersion(n)]]
         /\ stDropped' = SubSeq(all, keep + 1, Len(all))
         /\ stIndex' = [stIndex EXCEPT ![n] = SubSeq(all, 1, keep)]
  /\ stStep' = "unlink"
  /\ UNCHANGED <<stFile, stDisk, stHash, stBody, stTodo, stLosses, stSaved, stReused>>

\* The copy is complete; the version joins the index in memory, and _prune takes the
\* oldest ones out of it.
FillLatest ==
  /\ stStep = "fill"
  /\ LET n == Current
         all == Append(stIndex[n], NextVersion(n))
         excess == IF Len(all) > KeepVersions THEN Len(all) - KeepVersions ELSE 0
     IN  /\ stLatest' = [stLatest EXCEPT ![n] = stFile[n][NextVersion(n)]]
         /\ stDropped' = SubSeq(all, 1, excess)
         /\ stIndex' = [stIndex EXCEPT ![n] = SubSeq(all, excess + 1, Len(all))]
  /\ stStep' = "unlink"
  /\ UNCHANGED <<stFile, stDisk, stHash, stBody, stTodo, stLosses, stSaved, stReused>>

Unlink ==
  /\ stStep = "unlink" /\ stDropped # <<>>
  /\ stFile' = [stFile EXCEPT ![Current] = Restrict(@, DOMAIN @ \ {Head(stDropped)})]
  /\ stDropped' = Tail(stDropped)
  /\ UNCHANGED <<stLatest, stDisk, stIndex, stHash, stBody, stTodo, stStep, stLosses, stSaved, stReused>>

\* _save_index: a temporary file renamed over the index; then the next model, and
\* after the last one the process ends.
SaveIndex ==
  /\ stStep = "unlink" /\ stDropped = <<>>
  /\ stDisk' = stIndex
  /\ stTodo' = Tail(stTodo)
  /\ IF Len(stTodo) > 1 THEN stStep' = "write" /\ UNCHANGED stHash
     ELSE stStep' = "idle" /\ stHash' = ""
  /\ UNCHANGED <<stFile, stLatest, stIndex, stBody, stDropped, stLosses, stSaved, stReused>>

Crash ==
  /\ stHash # "" /\ stLosses < MaxLosses
  /\ stLosses' = stLosses + 1
  /\ stHash' = "" /\ stTodo' = <<>> /\ stStep' = "idle" /\ stDropped' = <<>>
  /\ UNCHANGED <<stFile, stLatest, stDisk, stIndex, stBody, stSaved, stReused>>

\* rollback: an older numbered file is copied over the latest one.
Rollback(n, v) ==
  /\ stHash # "" /\ stTodo = <<>> /\ stLosses < MaxLosses
  /\ v \in DOMAIN stFile[n]
  /\ stLosses' = stLosses + 1
  /\ stLatest' = [stLatest EXCEPT ![n] = stFile[n][v]]
  /\ UNCHANGED <<stFile, stDisk, stIndex, stHash, stBody, stTodo, stStep, stDropped, stSaved, stReused>>

StNext ==
  \/ \E h \in Hashes : Boot(h)
  \/ Learn \/ \E n \in Names, v \in 1..MaxVersion : Rollback(n, v)
  \/ BeginCheckpoint \/ ReplaceVersion \/ TruncateLatest \/ FillLatest \/ Unlink \/ SaveIndex
  \/ Crash

-----------------------------------------------------------------------------

\* What a process starts from was saved as a whole, for that model, by a program with
\* the same features: never a torn file, never weights of other features, whatever
\* crashes and rollbacks came before.  Code: load's checks, save's rename.
NothingForeignIsLoaded ==
  \A n \in Names : \A h \in Hashes :
    LET d == Load(n, h) IN d # Nothing => d \in stSaved[n] /\ d.hash = h

\* A checkpoint that ended left all its models behind: the next process finds, for
\* every model, the document of the newest version in the index, and the versions the
\* index lists are on disk.  Code: the order of save's operations and _prune.
CheckpointIsFound ==
  stHash = "" /\ stLosses = 0 =>
    \A n \in Names : stDisk[n] # <<>> =>
      /\ stLatest[n] = stFile[n][Last(stDisk[n])]
      /\ {stDisk[n][i] : i \in DOMAIN stDisk[n]} \subseteq DOMAIN stFile[n]

\* A crash in the middle of a checkpoint leaves something to load (the store's promise).
CrashKeepsACheckpoint == \A n \in Names : stHash = "" => stLatest[n] # Torn

\* A numbered checkpoint is never overwritten (the store's promise).
VersionsAreWrittenOnce == ~stReused
=============================================================================
