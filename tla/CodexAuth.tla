------------------------------ MODULE CodexAuth ------------------------------
(***************************************************************************)
(* The credentials of `codex login` and their refresh:                     *)
(* proxy/openai_codex_auth.go and openai_codex_lock_unix.go.               *)
(*                                                                         *)
(* Several proxies share auth.json with the Codex CLI.  A proxy refreshes  *)
(* the document under a kernel file lock: it writes a journal with source  *)
(* and target beside the file, truncates and writes the file in place, and *)
(* removes the journal.  Whoever gets the lock next completes what a crash *)
(* left behind.  A login replaces the file without the lock; a process or  *)
(* the machine may crash between any two steps, and a machine forgets what *)
(* was not synced.  The authority rotates refresh tokens: one that was     *)
(* used is refused, so a successor that is lost is lost for good.          *)
(*                                                                         *)
(* A document is a number, in the order of issue; its digest is itself.    *)
(***************************************************************************)
EXTENDS Integers, FiniteSets

CONSTANTS
  Processes,           \* proxies on this machine that use the same auth.json
  Callers,             \* goroutines that ask for credentials
  Home,                \* the process of a caller
  MaxDocs,             \* documents issued after the first one (bound)
  MaxUpsets,           \* crashes of a process or the machine, and logouts (bound)
  OrderedMetadata      \* renames reach the disk before a later truncation

ASSUME HomeAssumption == Home \in [Callers -> Processes]
ASSUME BoundsAssumption == MaxDocs \in Nat /\ MaxUpsets \in Nat
ASSUME OrderedAssumption == OrderedMetadata \in BOOLEAN

Docs == 0..MaxDocs
NoDoc == -1
Idle == -1
NoProcess == "none"

VARIABLES
  \* the disk; saved and savedDir are what a crash of the machine leaves
  file, saved, dir, savedDir,
  \* the authority and the clock
  issued, spent, stale,
  \* a process
  cache, refresh, candidate, result,
  \* the holder of the lock
  tx,
  \* callers
  \* floor[c]: what a waiting caller may rely on, or Idle
  floor,
  upsets,
  \* history
  epoch, outdated, due, replaced

diskVars == <<file, saved, dir, savedDir>>
worldVars == <<issued, spent, stale, epoch>>
procVars == <<cache, refresh, candidate, result>>
callVars == <<floor, outdated>>
pastVars == <<due, replaced>>
vars == <<diskVars, worldVars, procVars, tx, callVars, upsets, pastVars>>

Full(d) == [form |-> "full", doc |-> d]
Part(d) == [form |-> "part", doc |-> d]
Empty == [form |-> "empty", doc |-> NoDoc]
Missing == [form |-> "missing", doc |-> NoDoc]
Files == {Full(d) : d \in Docs} \cup {Part(d) : d \in Docs} \cup {Empty, Missing}

\* A journal as its (source, target); src = NoDoc: there is none.
Journals == [src : Docs, tgt : Docs]
NoJournal == [src |-> NoDoc, tgt |-> NoDoc]
Artifacts == dir.orphans \cup ({dir.journal} \ {NoJournal})

\* openAICodexJournalApplies: the source, the target, or a prefix of the target.
Applies(j) ==
  \/ file.form = "full" /\ file.doc \in {j.src, j.tgt}
  \/ file.form = "part" /\ file.doc = j.tgt
  \/ file.form = "empty"

Applicable == {j \in Artifacts : Applies(j)}

Cached(d, at) == [doc |-> d, at |-> at]
NoState == Cached(NoDoc, NoDoc)

\* openAICodexPreferState: the cached state, if it is of this file and better.
Prefer(d, c) ==
  IF c.at = d /\ d \in stale /\ (c.doc \notin stale \/ c.doc > d) THEN c.doc ELSE d

Result(d, at, err, clear) == [doc |-> d, at |-> at, err |-> err, clear |-> clear]
Failed == Result(NoDoc, NoDoc, TRUE, FALSE)
Served(d, at) == Result(d, at, FALSE, FALSE)

\* What a locked transaction returns that ends on the document now in the file.
Current ==
  CASE file.form = "missing" -> Result(NoDoc, NoDoc, TRUE, TRUE)
    [] file.form = "full" -> Result(file.doc, file.doc, file.doc \in stale, FALSE)
    [] OTHER -> Failed

NoTx == [by |-> NoProcess, kind |-> "none", step |-> "none", same |-> FALSE,
         src |-> NoDoc, doc |-> NoDoc, new |-> NoDoc, out |-> "target"]

-----------------------------------------------------------------------------
Init ==
  /\ file = Full(0) /\ saved = file
  /\ dir = [journal |-> NoJournal, orphans |-> {}] /\ savedDir = dir
  /\ issued = 0
  /\ spent = {}
  /\ stale \in SUBSET {0}
  /\ epoch = [d \in Docs |-> 0]
  /\ cache = [p \in Processes |-> NoState]
  /\ refresh = [p \in Processes |-> "none"]
  /\ candidate = [p \in Processes |-> NoState]
  /\ result = [p \in Processes |-> Failed]
  /\ tx = NoTx
  /\ floor = [c \in Callers |-> Idle]
  /\ outdated = {}
  /\ upsets = 0
  /\ due = {0}
  /\ replaced = {}

-----------------------------------------------------------------------------
(* credentials: one critical section of shared.mu, which reads the files.  *)

\* What a caller may rely on: the login in the file when it asked.
Floor == IF file.form = "full" /\ file.doc \notin stale THEN epoch[file.doc] ELSE 0

Answer(c, d) ==
  /\ outdated' = IF epoch[d] < Floor THEN outdated \cup {c} ELSE outdated
  /\ UNCHANGED floor

Wait(c) ==
  /\ floor' = [floor EXCEPT ![c] = Floor]
  /\ UNCHANGED outdated

\* Mutant of JoinRefresh: the file is not looked at, every caller waits.
JoinBlindly(c) ==
  /\ floor[c] = Idle /\ refresh[Home[c]] # "none"
  /\ Wait(c)
  /\ UNCHANGED <<diskVars, worldVars, procVars, tx, upsets, pastVars>>

\* A refresh is under way: a file that changed and is fresh needs none.
JoinRefresh(c) ==
  LET p == Home[c] IN
  /\ floor[c] = Idle /\ refresh[p] # "none"
  /\ IF /\ file.form = "full" /\ file.doc # candidate[p].at
        /\ file.doc \notin stale
     THEN Answer(c, file.doc) /\ cache' = [cache EXCEPT ![p] = Cached(file.doc, file.doc)]
     ELSE Wait(c) /\ UNCHANGED cache
  /\ UNCHANGED <<diskVars, worldVars, refresh, candidate, result, tx,
                 upsets, pastVars>>

\* loadState: the file, or the cache if the file is a half-written target.
LoadedFile(p) ==
  IF file.form = "full"
  THEN Cached(Prefer(file.doc, cache[p]), file.doc)
  ELSE IF cache[p] # NoState /\ \E j \in Applicable : j.tgt = cache[p].doc
       THEN Cached(cache[p].doc, cache[p].doc) ELSE NoState

Begin(p, kind) == tx' = [NoTx EXCEPT !.by = p, !.kind = kind, !.step = "prepare"]

\* A fresh state is served beside a journal that is completed, agrees or does
\* not apply.
FreshWithArtifacts(st) ==
  \/ dir.journal.tgt = st.at
  \/ Applicable = {}
  \/ \E j \in Applicable : j.tgt = st.doc

ServeLoaded(c) ==
  LET p == Home[c]
      st == LoadedFile(p) IN
  /\ floor[c] = Idle /\ refresh[p] = "none"
  /\ st # NoState /\ st.doc \notin stale
  /\ Artifacts = {} \/ FreshWithArtifacts(st)
  /\ Answer(c, st.doc)
  /\ cache' = IF file.form = "full" THEN [cache EXCEPT ![p] = st] ELSE cache
  /\ \/ UNCHANGED tx                     \* no artifacts, or the lock is busy
     \/ Artifacts # {} /\ tx = NoTx /\ Begin(p, "cleanup")
  /\ UNCHANGED <<diskVars, worldVars, refresh, candidate, result, upsets,
                 pastVars>>

StartRefresh(c) ==
  LET p == Home[c]
      st == LoadedFile(p) IN
  /\ floor[c] = Idle /\ refresh[p] = "none"
  /\ st = NoState => Artifacts # {}
  /\ ~(st # NoState /\ st.doc \notin stale /\ (Artifacts = {} \/ FreshWithArtifacts(st)))
  /\ Wait(c)
  /\ refresh' = [refresh EXCEPT ![p] = "lock"]
  /\ candidate' = [candidate EXCEPT ![p] = st]
  /\ cache' = IF file.form = "full" \/ st = NoState
              THEN [cache EXCEPT ![p] = st] ELSE cache
  /\ UNCHANGED <<diskVars, worldVars, result, tx, upsets, pastVars>>

\* No file to read and nothing to recover it from.
LoadFails(c) ==
  LET p == Home[c] IN
  /\ floor[c] = Idle /\ refresh[p] = "none"
  /\ LoadedFile(p) = NoState /\ Artifacts = {}
  /\ cache[p] # NoState
  /\ cache' = [cache EXCEPT ![p] = NoState]
  /\ UNCHANGED <<diskVars, worldVars, refresh, candidate, result, tx,
                 callVars, upsets, pastVars>>

\* waitForRefresh: the context of the caller ends first.
GiveUp(c) ==
  /\ floor[c] # Idle
  /\ floor' = [floor EXCEPT ![c] = Idle]
  /\ UNCHANGED <<diskVars, worldVars, procVars, tx, outdated, upsets, pastVars>>

-----------------------------------------------------------------------------
(* executeRefresh and tryCleanupCompletedJournal: the process lock.        *)

AcquireLock(p) ==
  /\ refresh[p] = "lock" /\ tx = NoTx
  /\ Begin(p, "refresh")
  /\ refresh' = [refresh EXCEPT ![p] = "locked"]
  /\ UNCHANGED <<diskVars, worldVars, cache, candidate, result,
                 callVars, upsets, pastVars>>

LockTimeout(p) ==
  /\ refresh[p] = "lock"
  /\ refresh' = [refresh EXCEPT ![p] = "publish"]
  /\ result' = [result EXCEPT ![p] = Failed]
  /\ UNCHANGED <<diskVars, worldVars, cache, candidate, tx, callVars,
                 upsets, pastVars>>

\* The transaction ends with r, which a cleanup drops, and releases the lock.
Finish(r) ==
  /\ tx' = NoTx
  /\ IF tx.kind = "cleanup"
     THEN UNCHANGED <<refresh, result>>
     ELSE /\ refresh' = [refresh EXCEPT ![tx.by] = "check"]
          /\ result' = [result EXCEPT ![tx.by] = r]

GoTo(step) == tx' = [tx EXCEPT !.step = step] /\ UNCHANGED <<refresh, result>>

\* What the steps of a transaction leave alone.
Aside == UNCHANGED <<stale, cache, candidate, callVars, upsets>>

AuthorityIdle == UNCHANGED <<issued, spent, epoch>>

\* After recovery a cleanup is done and a refresh goes on.
Recovered == IF tx.kind = "cleanup" THEN Finish(Failed) ELSE GoTo("read")

\* prepareJournalLocked keeps one applicable journal and removes the others;
\* it syncs the directory only if it changed it.
PrepareJournal ==
  /\ tx.step = "prepare"
  /\ \/ /\ Applicable = {}
        /\ dir' = [journal |-> NoJournal, orphans |-> {}]
        /\ UNCHANGED due
     \/ \E j \in Applicable :
          /\ dir' = [journal |-> j, orphans |-> {}]
          /\ due' = IF dir' = dir THEN due ELSE {j.tgt}
  /\ savedDir' = IF dir' = dir THEN savedDir ELSE dir'
  /\ GoTo("recover")
  /\ UNCHANGED <<file, saved, replaced>> /\ AuthorityIdle /\ Aside

\* recoverJournalLocked: complete the transaction that the file is part of.
RecoverJournal ==
  LET j == dir.journal IN
  /\ tx.step = "recover"
  /\ IF j = NoJournal
     THEN Recovered /\ UNCHANGED <<saved, due>>
     ELSE IF file = Full(j.tgt)
     THEN saved' = file /\ due' = {j.tgt} /\ GoTo("drop")
     ELSE IF Applies(j)
     THEN /\ tx' = [tx EXCEPT !.step = "truncate", !.same = TRUE, !.new = j.tgt]
          /\ UNCHANGED <<saved, due, refresh, result>>
     ELSE GoTo("drop") /\ UNCHANGED <<saved, due>>
  /\ UNCHANGED <<file, dir, savedDir, replaced>> /\ AuthorityIdle /\ Aside

\* A file operation of the recovery fails: the next holder tries again.
RecoveryFails ==
  /\ tx.step \in {"prepare", "recover", "truncate", "write", "sync", "drop",
                  "dropSync"}
  /\ tx.src = NoDoc
  /\ Finish(Failed)
  /\ UNCHANGED <<diskVars, pastVars>> /\ AuthorityIdle /\ Aside

-----------------------------------------------------------------------------
(* executeRefreshLocked: look again, ask the authority, persist.           *)

\* The state to refresh: the file's, or a better candidate of the same file.
ToRefresh == Prefer(file.doc, candidate[tx.by])

\* Mutant of ReadAgain: refresh what was loaded before the lock was taken.
ReadNever ==
  /\ tx.step = "read"
  /\ IF candidate[tx.by] = NoState
     THEN Finish(Failed)
     ELSE /\ tx' = [tx EXCEPT !.step = "request", !.same = TRUE,
                              !.src = candidate[tx.by].at, !.doc = candidate[tx.by].doc]
          /\ UNCHANGED <<refresh, result>>
  /\ UNCHANGED <<diskVars, pastVars>> /\ AuthorityIdle /\ Aside

\* Somebody else may have refreshed while this process waited for the lock.
ReadAgain ==
  /\ tx.step = "read"
  /\ IF file.form # "full"
     THEN Finish(Current)
     ELSE IF ToRefresh \notin stale
     THEN Finish(Served(ToRefresh, file.doc))
     ELSE /\ tx' = [tx EXCEPT !.step = "request", !.same = TRUE,
                              !.src = file.doc, !.doc = ToRefresh]
          /\ UNCHANGED <<refresh, result>>
  /\ UNCHANGED <<diskVars, pastVars>> /\ AuthorityIdle /\ Aside

\* The journal cannot be written here (preflight), or a file not be opened.
PreflightFails ==
  /\ tx.step = "request"
  /\ \E r \in {Failed, Result(tx.doc, tx.src, TRUE, FALSE)} : Finish(r)
  /\ UNCHANGED <<diskVars, pastVars>> /\ AuthorityIdle /\ Aside

\* The authority rotates the refresh token with every document it issues.
RefreshSucceeds ==
  /\ tx.step = "request" /\ tx.doc \notin spent /\ issued < MaxDocs
  /\ issued' = issued + 1
  /\ spent' = spent \cup {tx.doc}
  /\ epoch' = [epoch EXCEPT ![issued + 1] = epoch[tx.doc]]
  /\ tx' = [tx EXCEPT !.step = "temp", !.new = issued + 1]
  /\ UNCHANGED <<diskVars, refresh, result, pastVars>> /\ Aside

\* Refused, not delivered, or the answer is lost; a login may have helped.
RefreshFails ==
  /\ tx.step = "request"
  /\ \/ AuthorityIdle
     \/ /\ spent' = spent \cup {tx.doc} /\ spent' # spent
        /\ UNCHANGED <<issued, epoch>>
  /\ Finish(IF file.form = "full" /\ file.doc # tx.src /\ file.doc \notin stale
            THEN Served(file.doc, file.doc) ELSE Failed)
  /\ UNCHANGED <<diskVars, pastVars>> /\ Aside

\* atomicWriteOpenAICodexJournal: a synced temporary file, a rename, a sync.
ThisJournal == [src |-> tx.src, tgt |-> tx.new]

WriteTemp ==
  /\ tx.step = "temp"
  /\ dir' = [dir EXCEPT !.orphans = @ \cup {ThisJournal}]
  /\ due' = IF Applies(ThisJournal) THEN due \cup {tx.new} ELSE due
  /\ GoTo("rename")
  /\ UNCHANGED <<file, saved, savedDir, replaced>> /\ AuthorityIdle /\ Aside

RenameTemp ==
  /\ tx.step = "rename"
  /\ dir' = [journal |-> ThisJournal, orphans |-> dir.orphans \ {ThisJournal}]
  /\ GoTo("journalSync")
  /\ UNCHANGED <<file, saved, savedDir, pastVars>> /\ AuthorityIdle /\ Aside

\* From here on the successor cannot be lost.
SyncJournal ==
  /\ tx.step = "journalSync"
  /\ savedDir' = dir
  /\ due' = IF Applies(ThisJournal) THEN {tx.new} ELSE due
  /\ replaced' = replaced \cup {tx.doc}
  /\ GoTo("recheck")
  /\ UNCHANGED <<file, saved, dir>> /\ AuthorityIdle /\ Aside

\* recheckAuthoritativeDescriptor: a file that was replaced or edited wins.
RecheckFile ==
  /\ tx.step = "recheck"
  /\ IF file.form = "missing" THEN Finish(Current)
     ELSE IF tx.same /\ file = Full(tx.src) THEN GoTo("truncate")
     ELSE /\ tx' = [tx EXCEPT !.step = "drop", !.out = "found", !.doc = file.doc]
          /\ UNCHANGED <<refresh, result>>
  /\ UNCHANGED <<diskVars, pastVars>> /\ AuthorityIdle /\ Aside

\* writeOpenAICodexTransactionFile, of a refresh or of a recovery.  A replaced
\* file is not touched: the descriptor is of the old one.
TruncateFile ==
  /\ tx.step = "truncate"
  /\ file' = IF tx.same THEN Empty ELSE file
  /\ savedDir' = IF OrderedMetadata /\ tx.same THEN dir ELSE savedDir
  /\ GoTo("write")
  /\ UNCHANGED <<saved, dir, pastVars>> /\ AuthorityIdle /\ Aside

\* A write may be short; then it is continued, or fails.
WriteFile ==
  /\ tx.step = "write"
  /\ \/ file' = (IF tx.same THEN Full(tx.new) ELSE file) /\ GoTo("sync")
     \/ tx.same /\ file' = Part(tx.new) /\ file # file' /\ GoTo("write")
  /\ UNCHANGED <<saved, dir, savedDir, pastVars>> /\ AuthorityIdle /\ Aside

\* Mutant of SyncFile: the data of the file is not forced to the disk.
SyncNothing ==
  /\ tx.step = "sync"
  /\ GoTo("drop")
  /\ UNCHANGED <<diskVars, pastVars>> /\ AuthorityIdle /\ Aside

SyncFile ==
  /\ tx.step = "sync"
  /\ saved' = IF tx.same THEN file ELSE saved
  /\ due' = IF tx.same THEN {tx.new} ELSE due
  /\ IF ~tx.same /\ file = Missing
     THEN Finish(IF tx.src = NoDoc THEN Failed ELSE Current)
     ELSE /\ tx' = [tx EXCEPT !.step = "drop",
                              !.out = IF tx.same THEN "target" ELSE "look"]
          /\ UNCHANGED <<refresh, result>>
  /\ UNCHANGED <<file, dir, savedDir, replaced>> /\ AuthorityIdle /\ Aside

\* removeJournalDurable: remove, then sync the directory.
DropJournal ==
  /\ tx.step = "drop"
  /\ dir' = [dir EXCEPT !.journal = NoJournal]
  /\ GoTo("dropSync")
  /\ UNCHANGED <<file, saved, savedDir, pastVars>> /\ AuthorityIdle /\ Aside

\* The refresh returns the target, or the login that it found in its place.
Outcome(dropped) ==
  CASE tx.out = "target" -> Served(tx.new, tx.new)
    [] tx.out = "found" -> Result(tx.doc, tx.doc, tx.doc \in stale, FALSE)
    [] tx.out = "look" -> IF dropped THEN Current ELSE Served(tx.new, tx.src)

SyncDropped ==
  /\ tx.step = "dropSync"
  /\ savedDir' = dir
  /\ IF tx.src = NoDoc THEN Recovered ELSE Finish(Outcome(TRUE))
  /\ UNCHANGED <<file, saved, dir, pastVars>> /\ AuthorityIdle /\ Aside

\* The journal or the file cannot be written: the new tokens stay in memory,
\* as a state of the file they were to replace.
PersistFails ==
  /\ tx.step \in {"temp", "rename", "journalSync", "recheck", "truncate",
                  "write", "sync"}
  /\ tx.src # NoDoc
  /\ dir' = [dir EXCEPT !.orphans = @ \ {ThisJournal}]
  /\ Finish(Served(tx.new, tx.src))
  /\ UNCHANGED <<file, saved, savedDir, pastVars>> /\ AuthorityIdle /\ Aside

\* Removing the journal fails, which is left to the next holder of the lock.
DropFails ==
  /\ tx.step \in {"drop", "dropSync"} /\ tx.src # NoDoc
  /\ Finish(Outcome(FALSE))
  /\ UNCHANGED <<diskVars, pastVars>> /\ AuthorityIdle /\ Aside

-----------------------------------------------------------------------------
(* executeRefresh after the lock: look at the configured file, publish.    *)

Revalidate(p) ==
  LET r == result[p] IN
  /\ refresh[p] = "check"
  /\ refresh' = [refresh EXCEPT ![p] = "publish"]
  /\ result' = [result EXCEPT ![p] =
       IF r.err THEN r
       ELSE IF file.form # "full" THEN [r EXCEPT !.err = TRUE]
       ELSE IF file.doc = r.at THEN r
       ELSE IF file.doc \in stale THEN [r EXCEPT !.err = TRUE]
       ELSE Served(file.doc, file.doc)]
  /\ UNCHANGED <<diskVars, worldVars, cache, candidate, tx, callVars,
                 upsets, pastVars>>

\* The cache takes the result, also beside an error, and every waiter gets it.
Publish(p) ==
  LET r == result[p]
      waiters == {c \in Callers : Home[c] = p /\ floor[c] # Idle} IN
  /\ refresh[p] = "publish"
  /\ refresh' = [refresh EXCEPT ![p] = "none"]
  /\ cache' = [cache EXCEPT ![p] = IF r.clear THEN NoState
                                   ELSE IF r.doc # NoDoc THEN Cached(r.doc, r.at)
                                   ELSE @]
  /\ candidate' = [candidate EXCEPT ![p] = NoState]
  /\ result' = [result EXCEPT ![p] = Failed]
  /\ floor' = [c \in Callers |-> IF c \in waiters THEN Idle ELSE floor[c]]
  /\ outdated' = outdated \cup
       {c \in waiters : ~r.err /\ epoch[r.doc] < floor[c]}
  /\ UNCHANGED <<diskVars, worldVars, tx, upsets, pastVars>>

-----------------------------------------------------------------------------
(* Crashes, and what happens outside.                                      *)

\* The kernel drops the lock of a process that dies; files stay.
Kill(ps) ==
  /\ upsets < MaxUpsets
  /\ upsets' = upsets + 1
  /\ cache' = [p \in Processes |-> IF p \in ps THEN NoState ELSE cache[p]]
  /\ refresh' = [p \in Processes |-> IF p \in ps THEN "none" ELSE refresh[p]]
  /\ candidate' = [p \in Processes |-> IF p \in ps THEN NoState ELSE candidate[p]]
  /\ result' = [p \in Processes |-> IF p \in ps THEN Failed ELSE result[p]]
  /\ tx' = IF tx.by \in ps THEN NoTx ELSE tx
  /\ floor' = [c \in Callers |-> IF Home[c] \in ps THEN Idle ELSE floor[c]]
  /\ UNCHANGED <<worldVars, outdated, pastVars>>

CrashProcess(p) == Kill({p}) /\ UNCHANGED diskVars

\* A write that was not synced is on the disk, or not, or in part.
CrashMachine ==
  /\ Kill(Processes)
  /\ file' \in {file, saved} \cup (IF file = saved THEN {} ELSE {Empty})
                \cup (IF file # saved /\ file.form = "full" THEN {Part(file.doc)} ELSE {})
  /\ saved' = file'
  /\ dir' \in {dir, savedDir}
  /\ savedDir' = dir'

\* `codex login` replaces the file (atomically, and on the disk).
Login ==
  /\ issued < MaxDocs
  /\ issued' = issued + 1
  /\ epoch' = [epoch EXCEPT ![issued + 1] = issued + 1]
  /\ file' = Full(issued + 1) /\ saved' = file'
  /\ due' = {issued + 1}
  /\ tx' = IF tx = NoTx THEN tx ELSE [tx EXCEPT !.same = FALSE]
  /\ UNCHANGED <<dir, savedDir, spent, stale, procVars, callVars, upsets,
                 replaced>>

\* `codex logout` removes it.
Logout ==
  /\ file # Missing
  /\ upsets < MaxUpsets /\ upsets' = upsets + 1
  /\ file' = Missing /\ saved' = Missing
  /\ due' = {}
  /\ tx' = IF tx = NoTx THEN tx ELSE [tx EXCEPT !.same = FALSE]
  /\ UNCHANGED <<dir, savedDir, worldVars, procVars, callVars, replaced>>

\* Time passes: an access token is about to expire.  They do so in order, and
\* the last one of the model, which nothing could follow, does not.
GoStale(d) ==
  /\ d \in 0..issued /\ d # MaxDocs /\ d \notin stale
  /\ 0..(d - 1) \subseteq stale
  /\ stale' = stale \cup {d}
  /\ UNCHANGED <<diskVars, issued, spent, epoch, procVars, tx, callVars,
                 upsets, pastVars>>

-----------------------------------------------------------------------------
RecoveryStep == PrepareJournal \/ RecoverJournal \/ RecoveryFails
RefreshStep ==
  \/ ReadAgain \/ PreflightFails \/ RefreshSucceeds \/ RefreshFails
  \/ WriteTemp \/ RenameTemp \/ SyncJournal \/ RecheckFile \/ PersistFails
WriteStep == TruncateFile \/ WriteFile \/ SyncFile \/ DropJournal \/ SyncDropped
             \/ DropFails

Transaction == RecoveryStep \/ RefreshStep \/ WriteStep

Next ==
  \/ \E c \in Callers : JoinRefresh(c) \/ ServeLoaded(c) \/ StartRefresh(c)
                        \/ LoadFails(c) \/ GiveUp(c)
  \/ \E p \in Processes : AcquireLock(p) \/ LockTimeout(p)
                          \/ Revalidate(p) \/ Publish(p) \/ CrashProcess(p)
  \/ Transaction
  \/ CrashMachine \/ Login \/ Logout
  \/ \E d \in Docs : GoStale(d)

Spec == Init /\ [][Next]_vars

-----------------------------------------------------------------------------
Steps == {"none", "prepare", "recover", "read", "request", "temp", "rename",
          "journalSync", "recheck", "truncate", "write", "sync", "drop",
          "dropSync"}
MaybeDoc == Docs \cup {NoDoc}
Dirs == [journal : Journals \cup {NoJournal}, orphans : SUBSET Journals]
States == [doc : MaybeDoc, at : MaybeDoc]

\* Types: the disk, the authority, the processes, the transaction, the callers.
TypeOK ==
  /\ file \in Files /\ saved \in Files
  /\ dir \in Dirs /\ savedDir \in Dirs
  /\ issued \in Docs /\ spent \subseteq Docs
  /\ stale \subseteq Docs /\ epoch \in [Docs -> Docs]
  /\ cache \in [Processes -> States] /\ candidate \in [Processes -> States]
  /\ refresh \in [Processes -> {"none", "lock", "locked", "check", "publish"}]
  /\ result \in [Processes -> [doc : MaybeDoc, at : MaybeDoc, err : BOOLEAN,
                                clear : BOOLEAN]]
  /\ tx \in [by : Processes \cup {NoProcess},
             kind : {"none", "refresh", "cleanup"}, step : Steps,
             same : BOOLEAN, src : MaybeDoc, doc : MaybeDoc, new : MaybeDoc,
             out : {"target", "found", "look"}]
  /\ floor \in [Callers -> Docs \cup {Idle}] /\ outdated \subseteq Callers
  /\ upsets \in 0..MaxUpsets
  /\ due \subseteq Docs /\ replaced \subseteq Docs

(***************************************************************************)
(* The file and its journals together always yield the newest document     *)
(* that was made durable: the target of a synced journal, until a login    *)
(* replaces the file, and then that login, never a mixture and never an    *)
(* older document whose refresh token is used up.  Crashes, failing file   *)
(* operations and half-finished recoveries included (docs/provider-        *)
(* routing.md: the journal is synced before the in-place update and        *)
(* removed only after the updated file is synced).                         *)
(***************************************************************************)
Yield == IF Applicable # {} THEN {j.tgt : j \in Applicable}
         ELSE IF file.form = "full" THEN {file.doc} ELSE {}

NewestSurvives == file # Missing => Yield # {} /\ Yield \subseteq due

(***************************************************************************)
(* A refresh token whose successor is durable is not presented again, by   *)
(* any process: whoever waited for the lock while another one refreshed    *)
(* looks at the file again.                                                *)
(***************************************************************************)
SpentNotReused == tx.step = "request" => tx.doc \notin replaced

(***************************************************************************)
(* A caller that asks after a login, while the token of that login is      *)
(* fresh, never gets the token of an earlier one, also if it joins a       *)
(* refresh that began before the login.                                    *)
(***************************************************************************)
LoginServed == outdated = {}

=============================================================================
