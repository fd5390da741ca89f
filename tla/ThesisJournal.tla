--------------------------- MODULE ThesisJournal ---------------------------
(***************************************************************************)
(* The vault's journal of calls: lines that are only appended, each call   *)
(* chained to the one before it by hash, outcomes on lines of their own.   *)
(* Every scribe (the HUD's server, a command on the shell) has its own     *)
(* copy in memory and appends to the one file.  An append can fail half    *)
(* way, or after its line is whole; a scribe can die and open the file     *)
(* again; someone can edit or take out a line.                             *)
(*                                                                         *)
(* A content hash is injective, so it is the content itself, with the hash *)
(* before it; << >> is GENESIS_HASH.                                       *)
(***************************************************************************)
EXTENDS Integers, Sequences, SequencesExt, FiniteSets

CONSTANTS
    Scribes,      \* the processes that open the journal
    Theses,       \* what a call can say
    Verdicts,     \* what a resolution can say
    MaxCalls,     \* bound on appends of a call
    MaxLines,     \* bound on the file
    MaxSecond,    \* bound on the clock an id is made from
    MaxTampers    \* bound on edits by hand

ASSUME JournalAssumption ==
    /\ MaxCalls \in Nat \ {0} /\ MaxLines \in Nat \ {0}
    /\ MaxSecond \in Nat /\ MaxTampers \in Nat

VARIABLES
    jFile,     \* the lines of the file
    jTorn,     \* the last line has no end: what is appended next joins it
    jMade,     \* history: the hashes of the calls ever made
    jMem,      \* what each scribe has in memory
    jSecond,
    jTampers

jVars == <<jFile, jTorn, jMade, jMem, jSecond, jTampers>>

Pending == "pending"
Genesis == << >>
Corrupt == [kind |-> "corrupt"]

Closed == [open |-> FALSE, order |-> << >>, records |-> << >>, outcome |-> << >>, head |-> Genesis]
Emptied == [Closed EXCEPT !.open = TRUE]

Put(f, x, v) == [y \in DOMAIN f \cup {x} |-> IF y = x THEN v ELSE f[y]]

-----------------------------------------------------------------------------

\* _compute_hash: over what the record says and the hash before it, never the outcome.
HashOf(record) == <<record.id, record.says, record.prev>>

\* Mutant of TakeCall: from_dict computes the hash again from what it read.
TakeCallRehashed(mem, record) ==
    [mem EXCEPT !.order = Append(@, record.id),
                !.records = Put(@, record.id, [record EXCEPT !.hash = HashOf(record)]),
                !.outcome = Put(@, record.id, Pending), !.head = HashOf(record)]

\* A call read from a line keeps the hash written there; the id is what it is known by.
TakeCall(mem, record) ==
    [mem EXCEPT !.order = Append(@, record.id), !.records = Put(@, record.id, record),
                !.outcome = Put(@, record.id, Pending), !.head = record.hash]

ApplyResolution(mem, line) ==
    IF line.id \notin DOMAIN mem.records THEN mem
    ELSE [mem EXCEPT !.outcome[line.id] = line.outcome]

\* A line that does not parse is skipped.
ReadLine(mem, line) ==
    CASE line.kind = "thesis" -> TakeCall(mem, line.record)
      [] line.kind = "resolution" -> ApplyResolution(mem, line)
      [] OTHER -> mem

\* load: every line in order.
Load(lines) ==
    LET read[n \in 0 .. Len(lines)] == IF n = 0 THEN Emptied ELSE ReadLine(read[n - 1], lines[n])
    IN  read[Len(lines)]

Verified(record) == HashOf(record) = record.hash

\* verify_chain
ChainHolds(mem) ==
    \A i \in DOMAIN mem.order :
        LET record == mem.records[mem.order[i]]
            previous == IF i = 1 THEN Genesis ELSE mem.records[mem.order[i - 1]].hash
        IN  record.prev = previous /\ Verified(record)

-----------------------------------------------------------------------------

\* _append: the line as it is on disk after a write that went through, or half of it.
Appended(line, whole) ==
    IF jTorn THEN [jFile EXCEPT ![Len(jFile)] = Corrupt]
    ELSE Append(jFile, IF whole THEN line ELSE Corrupt)

Room == Len(jFile) < MaxLines

OpenJournal(p) ==
    /\ ~jMem[p].open
    /\ jMem' = [jMem EXCEPT ![p] = Load(jFile)]
    /\ UNCHANGED <<jFile, jTorn, jMade, jSecond, jTampers>>

\* commit: "done", or it raised with the line whole on disk, or torn.
Commit(p, thesis, how) ==
    LET mem == jMem[p]
        made == [id |-> <<jSecond, Len(mem.order)>>, says |-> thesis, prev |-> mem.head, hash |-> Genesis]
        record == [made EXCEPT !.hash = HashOf(made)]
    IN  /\ mem.open /\ Room /\ Cardinality(jMade) < MaxCalls
        /\ jFile' = Appended([kind |-> "thesis", record |-> record], how # "torn")
        /\ jTorn' = (how = "torn")
        /\ jMade' = jMade \cup {HashOf(made)}
        /\ jMem' = IF how = "done" THEN [jMem EXCEPT ![p] = TakeCall(mem, record)] ELSE jMem
        /\ UNCHANGED <<jSecond, jTampers>>

\* resolve: refused for a call that is not known or already has an outcome.
Resolve(p, id, outcome, how) ==
    LET mem == jMem[p]
        line == [kind |-> "resolution", id |-> id, outcome |-> outcome]
    IN  /\ mem.open /\ Room
        /\ id \in DOMAIN mem.records /\ mem.outcome[id] = Pending
        /\ jFile' = Appended(line, how # "torn")
        /\ jTorn' = (how = "torn")
        /\ jMem' = IF how = "done" THEN [jMem EXCEPT ![p] = ApplyResolution(mem, line)] ELSE jMem
        /\ UNCHANGED <<jMade, jSecond, jTampers>>

\* The process ends, however it ends.
ScribeEnds(p) ==
    /\ jMem[p].open
    /\ jMem' = [jMem EXCEPT ![p] = Closed]
    /\ UNCHANGED <<jFile, jTorn, jMade, jSecond, jTampers>>

SecondPasses ==
    /\ jSecond < MaxSecond
    /\ jSecond' = jSecond + 1
    /\ UNCHANGED <<jFile, jTorn, jMade, jMem, jTampers>>

\* Someone changes what a call says, or takes its line out.
Tamper(i) ==
    /\ jTampers < MaxTampers
    /\ jFile[i].kind = "thesis"
    /\ \/ \E thesis \in Theses \ {jFile[i].record.says} :
              jFile' = [jFile EXCEPT ![i].record.says = thesis]
       \/ jFile' = RemoveAt(jFile, i) /\ (i = Len(jFile) => ~jTorn)
    /\ jTampers' = jTampers + 1
    /\ UNCHANGED <<jTorn, jMade, jMem, jSecond>>

JournalInit ==
    /\ jFile = << >> /\ jTorn = FALSE /\ jMade = {}
    /\ jMem = [p \in Scribes |-> Closed]
    /\ jSecond = 0 /\ jTampers = 0

JournalNext ==
    \/ \E p \in Scribes :
        \/ OpenJournal(p)
        \/ ScribeEnds(p)
        \/ \E how \in {"done", "failed", "torn"} :
               \/ \E thesis \in Theses : Commit(p, thesis, how)
               \/ \E id \in DOMAIN jMem[p].records, outcome \in Verdicts : Resolve(p, id, outcome, how)
    \/ \E i \in DOMAIN jFile : Tamper(i)
    \/ SecondPasses

-----------------------------------------------------------------------------

\* A chain that verifies holds calls as they were made, in the order they were made,
\* each next to the one it was made after: whatever was edited, taken out, torn, or
\* written by two scribes at once.  Code: the links of commit and load, verify_chain.
IntactMeansAsMade ==
    \A p \in Scribes :
        LET mem == jMem[p] IN
        mem.open /\ ChainHolds(mem) =>
            \A i \in DOMAIN mem.order :
                LET record == mem.records[mem.order[i]] IN
                /\ HashOf(record) \in jMade
                /\ i > 1 => record.prev = HashOf(mem.records[mem.order[i - 1]])

\* What the journal's error says of a line it skips: the chain does not verify past it.
\* A call joined to a torn line is gone, and the calls made after it verify.
SkippedLinesShow ==
    \A j, k \in DOMAIN jFile :
        j < k /\ jFile[j] = Corrupt /\ jFile[k].kind = "thesis" => ~ChainHolds(Load(jFile))

\* "a resolution is final": the outcome a scribe has recorded is the one the file gives.
ResolutionIsFinal ==
    \A p \in Scribes : \A id \in DOMAIN jMem[p].records :
        LET onDisk == Load(jFile) IN
        jMem[p].outcome[id] # Pending /\ id \in DOMAIN onDisk.records =>
            onDisk.outcome[id] = jMem[p].outcome[id]
=============================================================================
