--------------------------- MODULE CodexAuthProofs ---------------------------
(***************************************************************************)
(* Proofs about CodexAuth: the file and its journals always yield the      *)
(* newest durable document, a refresh token whose successor is durable is  *)
(* not presented again, and a caller gets the login it asked after, for    *)
(* any number of proxies, callers, documents, crashes and logouts.         *)
(*                                                                         *)
(* The argument: at most one journal is on the disk, and one may be left   *)
(* in what was synced.  While the file is whole, whatever applies to it    *)
(* leads to a document that is due.  While it is torn, both directories    *)
(* hold one journal that applies to the file and to what a crash makes of  *)
(* it.  Each step of a transaction knows which of the two it works on.     *)
(***************************************************************************)
EXTENDS CodexAuth, TLAPS

Art(D) == D.orphans \cup ({D.journal} \ {NoJournal})
AppliesTo(f, j) ==
  \/ f.form = "full" /\ f.doc \in {j.src, j.tgt}
  \/ f.form = "part" /\ f.doc = j.tgt
  \/ f.form = "empty"

Issued == 0..issued
NoDir == [journal |-> NoJournal, orphans |-> {}]
Only(j) == [journal |-> j, orphans |-> {}]
Left(j) == [journal |-> NoJournal, orphans |-> {j}]

\* The file is what was synced, and a document.
Whole == file = saved /\ file.form \in {"full", "missing"}

\* No document is of a later login.
Top(d) == \A e \in Issued : epoch[e] <= epoch[d]

\* What applies to a full file leads to a due document, and so does the file.
Sound(f, D) ==
  f.form = "full" =>
    /\ \A j \in Art(D) : AppliesTo(f, j) => j.tgt \in due
    /\ (\A j \in Art(D) : ~AppliesTo(f, j)) => f.doc \in due

OneArtifact(D) == D.orphans = {} \/ \E k \in Journals : D = Left(k)

\* A later artifact is of a later refresh, within one login.
DirInv ==
  /\ OneArtifact(dir) /\ OneArtifact(savedDir)
  /\ \A j \in Art(dir) \cup Art(savedDir) :
       j.src < j.tgt /\ j.tgt <= issued /\ epoch[j.src] = epoch[j.tgt]
  /\ \A a \in Art(dir), b \in Art(savedDir) : a = b \/ b.tgt < a.tgt

WholeInv ==
  Whole => /\ Sound(file, dir) /\ Sound(file, savedDir)
           /\ file.form = "full" => file.doc \in Issued /\ Top(file.doc)
           /\ file.form = "missing" => due = {}

TornInv ==
  ~Whole => LET j == dir.journal IN
    /\ dir = savedDir /\ dir.orphans = {} /\ j # NoJournal
    /\ j.tgt \in due /\ Top(j.tgt)
    /\ AppliesTo(file, j) /\ AppliesTo(saved, j)
    /\ file # saved => file \in {Empty, Part(j.tgt), Full(j.tgt)}

DueInv ==
  /\ due \subseteq Issued /\ replaced \subseteq Issued /\ due \cap replaced = {}
  /\ \A d \in Docs : epoch[d] <= d

DiskInv == DirInv /\ WholeInv /\ TornInv /\ DueInv

\* A state in memory is of one login, and not one that was replaced in the
\* file it belongs to.
Pair(x) ==
  \/ x.doc = NoDoc /\ x.at = NoDoc
  \/ /\ x.doc \in Issued /\ x.at \in Issued /\ x.at <= x.doc
     /\ epoch[x.at] = epoch[x.doc]
     /\ x.doc \in replaced => x.at \notin due

PairInv ==
  \A p \in Processes : Pair(cache[p]) /\ Pair(candidate[p]) /\ Pair(result[p])

\* Somebody replaced or removed the file of this transaction.
Replaced(S) ==
  \/ file = Missing
  \/ file.form = "full" /\ due = {file.doc} /\ file.doc \notin S
Later(d) ==
  \/ file = Missing
  \/ file.form = "full" /\ due = {file.doc} /\ d < file.doc

Asking == {"request", "temp", "rename", "journalSync"}
Writing == {"truncate", "write", "sync"}
Dropping == {"drop", "dropSync"}

TxShape ==
  /\ (tx = NoTx) <=> (tx.step = "none")
  /\ tx # NoTx => tx.by \in Processes /\ tx.kind \in {"refresh", "cleanup"}
  /\ tx # NoTx /\ tx.kind = "refresh" => refresh[tx.by] = "locked"
  /\ tx.kind = "cleanup" => tx.src = NoDoc
  /\ tx.step \in {"prepare", "recover", "read"} => tx.src = NoDoc
  /\ tx.step \in {"prepare", "recover"} => tx.out = "target"
  /\ tx.step = "read" => tx.kind = "refresh"
  /\ tx.step \in Asking \cup {"recheck"} => tx.src # NoDoc

\* The successor of a refresh is newer than what was made durable before it.
NewInv ==
  tx.src # NoDoc /\ tx.step # "request" =>
    /\ tx.src \in Issued /\ tx.new \in Issued /\ tx.src < tx.new
    /\ epoch[tx.new] = epoch[tx.src]
    /\ \A d \in replaced : d < tx.new

AskInv ==
  /\ tx.step \in {"read", "request", "temp"} => dir = NoDir
  /\ tx.step = "recover" => dir.orphans = {}
  /\ tx.step \in Asking =>
       /\ Pair([doc |-> tx.doc, at |-> tx.src]) /\ tx.doc \notin replaced
       /\ Whole
       /\ IF tx.same THEN file = Full(tx.src) ELSE Later(tx.doc)
  /\ tx.step \in {"temp", "rename", "journalSync"} =>
       /\ tx.doc < tx.new
       /\ ~tx.same => file # Full(tx.new)
       /\ \A b \in Art(savedDir) : b.tgt < tx.new
  /\ tx.step = "temp" => tx.new \notin due
  /\ tx.step = "rename" =>
       dir = Left(ThisJournal) /\ (file.form = "full" => file.doc \in due)
  /\ tx.step = "journalSync" => dir = Only(ThisJournal)

WriteInv ==
  LET j == dir.journal IN
  /\ tx.step = "recheck" =>
       /\ dir = Only(ThisJournal) /\ savedDir = dir
       /\ Whole
       /\ IF tx.same THEN file = Full(tx.src) ELSE Replaced({tx.src, tx.new})
  /\ tx.step \in Writing =>
       /\ dir = Only(j) /\ j # NoJournal /\ j.tgt = tx.new
       /\ tx.src # NoDoc => j.src = tx.src
       /\ IF tx.same
          THEN AppliesTo(file, j) /\ tx.new \in due /\ (file.form = "full" => Top(tx.new))
          ELSE Whole /\ Replaced({j.src, j.tgt})
  /\ tx.step = "truncate" /\ tx.same =>
       (file = Full(j.src) => Whole) /\ file # Full(tx.new)
  /\ tx.step = "write" /\ tx.same => file \in {Empty, Part(tx.new)}
  /\ tx.step = "sync" /\ tx.same => file = Full(tx.new)
  /\ tx.step \in {"write", "sync"} /\ tx.same => dir = savedDir /\ Top(tx.new)
  /\ tx.step \in Dropping =>
       /\ dir.orphans = {} /\ Whole
       /\ file.form = "full" => file.doc \in due
       /\ tx.out = "found" => tx.doc \in Issued
  /\ tx.step = "dropSync" => dir = NoDir

TxInv == TxShape /\ NewInv /\ AskInv /\ WriteInv

\* A caller that waits relies on no more than what its refresh began with, and
\* a result that is served is no older than that.
FloorInv ==
  /\ outdated = {}
  /\ \A c \in Callers : floor[c] # Idle =>
       /\ refresh[Home[c]] # "none"
       /\ \/ floor[c] = 0
          \/ /\ candidate[Home[c]].at # NoDoc
             /\ floor[c] <= epoch[candidate[Home[c]].at]
  /\ \A p \in Processes : refresh[p] = "publish" /\ ~result[p].err =>
       /\ result[p].doc # NoDoc
       /\ candidate[p].at # NoDoc => epoch[candidate[p].at] <= epoch[result[p].doc]

IInv == TypeOK /\ DiskInv /\ PairInv /\ TxInv /\ FloorInv

-----------------------------------------------------------------------------
\* The forms of a file.
LEMMA FileShape ==
  ASSUME NEW f \in Files
  PROVE  /\ f = [form |-> f.form, doc |-> f.doc]
         /\ f.form \in {"full", "part", "empty", "missing"}
         /\ f.form \in {"full", "part"} => f.doc \in Docs
         /\ f.form = "full" => f = Full(f.doc)
         /\ f.form = "part" => f = Part(f.doc)
         /\ f.form = "empty" => f = Empty
         /\ f.form = "missing" => f = Missing
BY DEF Files, Full, Part, Empty, Missing

LEMMA FilesHave ==
  /\ Empty \in Files /\ Missing \in Files
  /\ \A d \in Docs : Full(d) \in Files /\ Part(d) \in Files
BY DEF Files

\* The journals of a directory that has none, one, or one not yet renamed.
LEMMA ArtOf ==
  /\ Art(NoDir) = {}
  /\ \A j \in Journals : j # NoJournal /\ Art(Only(j)) = {j} /\ Art(Left(j)) = {j}
<1>1. \A j \in Journals : j # NoJournal
  BY BoundsAssumption DEF Journals, NoJournal, NoDoc, Docs
<1> QED BY <1>1 DEF Art, NoDir, Only, Left

\* A directory with at most one artifact.
LEMMA DirShape ==
  ASSUME NEW D \in Dirs, OneArtifact(D)
  PROVE  \/ D = NoDir
         \/ \E k \in Journals : D = Only(k) \/ D = Left(k)
BY DEF Dirs, OneArtifact, NoDir, Only, Left

\* What DiskInv says of a full file.
LEMMA FileFull ==
  ASSUME DiskInv, file \in Files, file.form = "full",
         dir \in Dirs
  PROVE  file.doc \in Issued /\ Top(file.doc)
<1>1. CASE Whole
  BY <1>1 DEF DiskInv, WholeInv
<1>2. CASE ~Whole
  <2> DEFINE j == dir.journal
  <2>1. file = Full(j.tgt) /\ Top(j.tgt) /\ j # NoJournal
    BY <1>2, FileShape DEF DiskInv, TornInv, Whole, Empty, Part, Full
  <2>2. j \in Art(dir) /\ j \in Journals
    BY <2>1 DEF Art, Dirs
  <2>3. j.tgt \in Issued
    BY <2>2, BoundsAssumption DEF DiskInv, DirInv, Issued, Journals, Docs
  <2> QED BY <2>1, <2>3 DEF Full
<1> QED BY <1>1, <1>2

-----------------------------------------------------------------------------
\* What a step leaves alone keeps its invariant.
LEMMA DiskFrame ==
  DiskInv /\ UNCHANGED <<diskVars, pastVars, issued, epoch>> => DiskInv'
BY DEF DiskInv, DirInv, WholeInv, TornInv, DueInv, Art, OneArtifact, Whole,
   Sound, Top, Issued, diskVars, pastVars

LEMMA PairFrame ==
  ASSUME PairInv,
         UNCHANGED <<cache, candidate, result, pastVars, issued, epoch>>
  PROVE  PairInv'
BY DEF PairInv, Pair, Issued, pastVars

LEMMA TxFrame ==
  ASSUME TxInv, UNCHANGED <<tx, diskVars, pastVars, issued, epoch>>,
         tx # NoTx /\ tx.kind = "refresh" => refresh'[tx.by] = "locked"
  PROVE  TxInv'
<1>1. TxShape'
  BY DEF TxInv, TxShape
<1>2. NewInv'
  BY DEF TxInv, NewInv, Issued, pastVars
<1>3. AskInv'
  BY DEF TxInv, AskInv, Pair, Issued, Whole, Later, ThisJournal, Art, diskVars,
     pastVars
<1>4. WriteInv'
  BY DEF TxInv, WriteInv, Issued, Whole, Replaced, ThisJournal, Top, diskVars,
     pastVars
<1> QED BY <1>1, <1>2, <1>3, <1>4 DEF TxInv

\* No transaction: nothing is said of it.
LEMMA NoTxInv == ASSUME tx' = NoTx PROVE TxInv'
<1>1. tx'.step = "none" /\ tx'.kind = "none" /\ tx'.src = NoDoc /\ tx' = NoTx
  BY DEF NoTx
<1>2. TxShape'
  BY <1>1 DEF TxShape, Asking
<1>3. NewInv' /\ AskInv' /\ WriteInv'
  BY <1>1 DEF NewInv, AskInv, WriteInv, Asking, Writing, Dropping
<1> QED BY <1>2, <1>3 DEF TxInv

-----------------------------------------------------------------------------
\* What the helpers of the callers and of a transaction return.
LEMMA PreferPair ==
  ASSUME NEW d \in Issued, issued \in Docs, NEW c \in States, Pair(c),
         due \cap replaced = {}
  PROVE  Prefer(d, c) \in Issued /\ Pair(Cached(Prefer(d, c), d))
<1>1. d \in Int /\ d # NoDoc /\ d <= d
  BY BoundsAssumption DEF Issued, Docs, NoDoc
<1>2. CASE Prefer(d, c) = d
  BY <1>1, <1>2 DEF Pair, Cached
<1>3. CASE Prefer(d, c) = c.doc /\ c.at = d
  BY <1>1, <1>3 DEF Pair, Cached
<1> QED BY <1>2, <1>3 DEF Prefer

LEMMA IssuedDocs ==
  ASSUME issued \in Docs
  PROVE  /\ Issued \subseteq Docs /\ 0 \in Docs /\ 0 \in Issued
         /\ \A d \in Issued : d \in Int /\ d # NoDoc
         /\ NoDoc \notin Docs /\ NoDoc \notin Issued
BY BoundsAssumption DEF Issued, Docs, NoDoc

LEMMA FloorType ==
  ASSUME TypeOK PROVE Floor \in Docs
<1>1. 0 \in Docs
  BY BoundsAssumption DEF Docs
<1> QED BY <1>1, FileShape DEF TypeOK, Floor

\* A loaded state is of the file, and of no document that was replaced in it.
LEMMA Loaded ==
  ASSUME TypeOK, DiskInv, PairInv, NEW p \in Processes
  PROVE  /\ LoadedFile(p) \in States /\ Pair(LoadedFile(p))
         /\ file.form = "full" => LoadedFile(p).at = file.doc
         /\ LoadedFile(p) # NoState =>
              LoadedFile(p).doc \in Issued /\ LoadedFile(p).at \in Issued
<1> DEFINE st == LoadedFile(p)
<1>1. cache[p] \in States /\ Pair(cache[p])
  BY DEF TypeOK, PairInv
<1>2. issued \in Docs /\ due \cap replaced = {}
  BY DEF TypeOK, DiskInv, DueInv
<1>3. NoState \in States /\ Pair(NoState)
  BY DEF NoState, Cached, States, MaybeDoc, Pair
<1>4. CASE file.form = "full"
  <2>1. file.doc \in Issued
    BY <1>4, FileFull DEF TypeOK
  <2>2. st = Cached(Prefer(file.doc, cache[p]), file.doc)
    BY <1>4 DEF LoadedFile
  <2>3. Prefer(file.doc, cache[p]) \in Issued /\ Pair(st)
    BY <1>1, <1>2, <2>1, <2>2, PreferPair
  <2> QED BY <1>2, <2>1, <2>2, <2>3, IssuedDocs DEF Cached, States, MaybeDoc
<1>5. CASE file.form # "full"
  <2>1. CASE st = NoState
    BY <1>3, <1>5, <2>1
  <2>2. CASE st = Cached(cache[p].doc, cache[p].doc) /\ cache[p] # NoState
    <3>1. cache[p].doc \in Issued
      BY <1>1, <2>2 DEF Pair, NoState, Cached, States
    <3>2. cache[p].doc <= cache[p].doc /\ cache[p].doc \in Docs
      BY <1>2, <3>1, IssuedDocs
    <3>3. st \in States
      BY <2>2, <3>2 DEF Cached, States, MaybeDoc
    <3> QED BY <1>2, <1>5, <2>2, <3>1, <3>2, <3>3 DEF Pair, Cached
  <2> QED BY <1>5, <2>1, <2>2 DEF LoadedFile
<1> QED BY <1>4, <1>5

\* What a transaction returns.
Results == [doc : MaybeDoc, at : MaybeDoc, err : BOOLEAN, clear : BOOLEAN]

LEMMA FailedResult == Failed \in Results /\ Pair(Failed)
BY DEF Failed, Result, Results, MaybeDoc, Pair

\* A document that is served as its own file.
LEMMA OwnPair ==
  ASSUME TypeOK, DiskInv, NEW d \in Issued, NEW err \in BOOLEAN,
         NEW clear \in BOOLEAN
  PROVE  Result(d, d, err, clear) \in Results /\ Pair(Result(d, d, err, clear))
<1>1. d <= d /\ d \in Docs /\ due \cap replaced = {}
  BY IssuedDocs DEF TypeOK, DiskInv, DueInv
<1> QED BY <1>1 DEF Result, Results, MaybeDoc, Pair

LEMMA CurrentPair ==
  ASSUME TypeOK, DiskInv
  PROVE  Current \in Results /\ Pair(Current)
<1>1. CASE file.form = "full"
  <2>1. file.doc \in Issued
    BY <1>1, FileFull DEF TypeOK
  <2>2. Current = Result(file.doc, file.doc, file.doc \in stale, FALSE)
    BY <1>1 DEF Current
  <2>3. (file.doc \in stale) \in BOOLEAN /\ FALSE \in BOOLEAN
    OBVIOUS
  <2>4. /\ Result(file.doc, file.doc, file.doc \in stale, FALSE) \in Results
        /\ Pair(Result(file.doc, file.doc, file.doc \in stale, FALSE))
    BY <2>1, <2>3, OwnPair
  <2> QED BY <2>2, <2>4
<1>2. CASE file.form # "full"
  BY <1>2, FailedResult DEF Current, Failed, Result, Results, MaybeDoc, Pair
<1> QED BY <1>1, <1>2

-----------------------------------------------------------------------------
\* Every variable keeps its type: the callers.
TxTypes == [by : Processes \cup {NoProcess}, kind : {"none", "refresh", "cleanup"},
            step : Steps, same : BOOLEAN, src : MaybeDoc, doc : MaybeDoc,
            new : MaybeDoc, out : {"target", "found", "look"}]

LEMMA NoTxType == NoTx \in TxTypes
BY DEF NoTx, TxTypes, Steps, MaybeDoc

LEMMA BeginType ==
  ASSUME NEW p \in Processes, NEW k \in {"refresh", "cleanup"}, Begin(p, k)
  PROVE  tx' \in TxTypes
BY DEF Begin, NoTx, TxTypes, Steps, MaybeDoc

LEMMA CallerTypes ==
  ASSUME TypeOK, DiskInv, PairInv, NEW c \in Callers,
         JoinRefresh(c) \/ ServeLoaded(c) \/ StartRefresh(c) \/ LoadFails(c)
         \/ GiveUp(c)
  PROVE  TypeOK'
<1> DEFINE p == Home[c]
<1>1. p \in Processes
  BY HomeAssumption
<1>2. Floor \in Docs
  BY FloorType
<1>3. LoadedFile(p) \in States
  BY <1>1, Loaded
<1>4. NoState \in States
  BY DEF NoState, Cached, States, MaybeDoc
<1>5. CASE JoinRefresh(c)
  <2>1. CASE Answer(c, file.doc)
             /\ cache' = [cache EXCEPT ![p] = Cached(file.doc, file.doc)]
             /\ file.form = "full"
    <3>1. Cached(file.doc, file.doc) \in States
      BY <2>1, FileShape DEF TypeOK, Cached, States, MaybeDoc
    <3> QED BY <1>1, <1>5, <2>1, <3>1 DEF JoinRefresh, Answer, diskVars,
       worldVars, pastVars, TypeOK
  <2>2. CASE Wait(c) /\ UNCHANGED cache
    BY <1>2, <1>5, <2>2 DEF JoinRefresh, Wait, diskVars, worldVars, pastVars,
       TypeOK
  <2> QED BY <1>5, <2>1, <2>2 DEF JoinRefresh
<1>6. CASE ServeLoaded(c)
  <2>1. tx' \in TxTypes
    BY <1>1, <1>6, BeginType DEF ServeLoaded, TypeOK, TxTypes
  <2>2. cache' \in [Processes -> States]
    BY <1>1, <1>3, <1>6 DEF ServeLoaded, TypeOK
  <2>3. outdated' \subseteq Callers /\ floor' = floor
    BY <1>6 DEF ServeLoaded, Answer, TypeOK
  <2> QED BY <1>6, <2>1, <2>2, <2>3 DEF ServeLoaded, diskVars, worldVars,
     pastVars, TypeOK, TxTypes
<1>7. CASE StartRefresh(c)
  <2>1. cache' \in [Processes -> States] /\ candidate' \in [Processes -> States]
    BY <1>1, <1>3, <1>7 DEF StartRefresh, TypeOK
  <2>2. floor' \in [Callers -> Docs \cup {Idle}] /\ outdated' = outdated
    BY <1>2, <1>7 DEF StartRefresh, Wait, TypeOK
  <2> QED BY <1>1, <1>7, <2>1, <2>2 DEF StartRefresh, diskVars, worldVars,
     pastVars, TypeOK
<1>8. CASE LoadFails(c)
  BY <1>1, <1>4, <1>8 DEF LoadFails, diskVars, worldVars, callVars, pastVars,
     TypeOK
<1>9. CASE GiveUp(c)
  BY <1>9 DEF GiveUp, diskVars, worldVars, procVars, pastVars, TypeOK
<1> QED BY <1>5, <1>6, <1>7, <1>8, <1>9

\* Every variable keeps its type: the transaction.
Phases == {"none", "lock", "locked", "check", "publish"}

LEMMA FinishType ==
  ASSUME TypeOK, TxShape, NEW r \in Results, Finish(r)
  PROVE  /\ tx' \in TxTypes /\ refresh' \in [Processes -> Phases]
         /\ result' \in [Processes -> Results]
<1>1. tx' \in TxTypes
  BY NoTxType DEF Finish
<1> QED BY <1>1 DEF Finish, TypeOK, Phases, Results

LEMMA GoToType ==
  ASSUME TypeOK, NEW s \in Steps, GoTo(s)
  PROVE  /\ tx' \in TxTypes /\ refresh' \in [Processes -> Phases]
         /\ result' \in [Processes -> Results]
BY DEF GoTo, TypeOK, TxTypes, Phases, Results

LEMMA RecoveredType ==
  ASSUME TypeOK, TxShape, Recovered
  PROVE  /\ tx' \in TxTypes /\ refresh' \in [Processes -> Phases]
         /\ result' \in [Processes -> Results]
BY FinishType, GoToType, FailedResult DEF Recovered, Steps

LEMMA OutcomeType ==
  ASSUME TypeOK, DiskInv, NEW dropped \in BOOLEAN
  PROVE  Outcome(dropped) \in Results
<1>1. tx \in TxTypes
  BY DEF TypeOK, TxTypes
<1> QED BY <1>1, CurrentPair DEF Outcome, TxTypes, Served, Result, Results

\* The parts of TypeOK that a step of a transaction may change.
DiskTypes ==
  /\ file \in Files /\ saved \in Files /\ dir \in Dirs /\ savedDir \in Dirs
  /\ due \subseteq Docs /\ replaced \subseteq Docs
WorldTypes ==
  issued \in Docs /\ spent \subseteq Docs /\ epoch \in [Docs -> Docs]
TxStepTypes ==
  /\ tx \in TxTypes /\ refresh \in [Processes -> Phases]
  /\ result \in [Processes -> Results]

LEMMA AsideTypes ==
  ASSUME TypeOK, Aside, DiskTypes', WorldTypes', TxStepTypes'
  PROVE  TypeOK'
BY DEF TypeOK, Aside, callVars, DiskTypes, WorldTypes, TxStepTypes, TxTypes,
   Phases, Results

LEMMA IdleTypes ==
  ASSUME TypeOK
  PROVE  /\ DiskTypes /\ WorldTypes /\ TxStepTypes
         /\ UNCHANGED <<diskVars, pastVars>> => DiskTypes'
         /\ AuthorityIdle => WorldTypes'
         /\ UNCHANGED <<tx, refresh, result>> => TxStepTypes'
BY DEF TypeOK, DiskTypes, WorldTypes, TxStepTypes, AuthorityIdle, diskVars,
   pastVars, TxTypes, Phases, Results

LEMMA JournalType ==
  ASSUME TypeOK, TxInv, tx.src # NoDoc, tx.step # "request"
  PROVE  /\ ThisJournal \in Journals
         /\ tx.src \in Docs /\ tx.new \in Docs /\ tx.src < tx.new
         /\ tx.src \in Issued /\ tx.new \in Issued
BY IssuedDocs DEF TypeOK, TxInv, NewInv, ThisJournal, Journals

LEMMA RecoveryTypes ==
  ASSUME IInv, RecoveryStep PROVE TypeOK'
<1> USE DEF IInv
<1>0. TxShape /\ TypeOK
  BY DEF TxInv
<1>1. CASE PrepareJournal
  <2>1. TxStepTypes' /\ WorldTypes'
    BY <1>0, <1>1, GoToType, IdleTypes DEF PrepareJournal, TxStepTypes, Steps
  <2>2. dir' \in Dirs
    BY <1>0, <1>1 DEF PrepareJournal, TypeOK, Applicable, Artifacts, Dirs
  <2>3. due' \subseteq Docs
    BY <1>0, <1>1 DEF PrepareJournal, TypeOK, Applicable, Artifacts, Dirs,
       Journals, NoJournal
  <2>4. DiskTypes'
    BY <1>0, <1>1, <2>2, <2>3 DEF PrepareJournal, DiskTypes, TypeOK
  <2> QED BY <1>0, <1>1, <2>1, <2>4, AsideTypes DEF PrepareJournal
<1>2. CASE RecoverJournal
  <2>1. WorldTypes'
    BY <1>0, <1>2, IdleTypes DEF RecoverJournal
  <2> DEFINE j == dir.journal
  <2>2. j # NoJournal => j.tgt \in Docs
    BY <1>0 DEF TypeOK, Dirs, Journals
  <2>3. DiskTypes'
    BY <1>0, <1>2, <2>2 DEF RecoverJournal, DiskTypes, TypeOK
  <2>4. TxStepTypes'
    <3>1. CASE Recovered
      BY <1>0, <3>1, RecoveredType DEF TxStepTypes
    <3>2. CASE GoTo("drop")
      BY <1>0, <3>2, GoToType DEF TxStepTypes, Steps
    <3>3. CASE /\ j # NoJournal
               /\ tx' = [tx EXCEPT !.step = "truncate", !.same = TRUE, !.new = j.tgt]
               /\ UNCHANGED <<refresh, result>>
      BY <1>0, <2>2, <3>3 DEF TypeOK, TxStepTypes, TxTypes, Steps, MaybeDoc,
         Phases, Results
    <3> QED BY <1>2, <3>1, <3>2, <3>3 DEF RecoverJournal
  <2> QED BY <1>0, <1>2, <2>1, <2>3, <2>4, AsideTypes DEF RecoverJournal
<1>3. CASE RecoveryFails
  <2>1. TxStepTypes'
    BY <1>0, <1>3, FinishType, FailedResult DEF RecoveryFails, TxStepTypes
  <2> QED BY <1>0, <1>3, <2>1, IdleTypes, AsideTypes DEF RecoveryFails
<1> QED BY <1>1, <1>2, <1>3 DEF RecoveryStep

LEMMA RefreshTypes ==
  ASSUME IInv, RefreshStep PROVE TypeOK'
<1> USE DEF IInv
<1>0. TxShape /\ TypeOK /\ DiskInv /\ issued \in Docs
  BY DEF TxInv, TypeOK
<1>1. CASE ReadAgain
  <2>1. CASE Finish(Current)
    BY <1>0, <1>1, <2>1, FinishType, CurrentPair, IdleTypes, AsideTypes
       DEF ReadAgain, TxStepTypes
  <2>2. CASE file.form = "full" /\ ~Finish(Current)
    <3>1. file.doc \in Issued
      BY <1>0, <2>2, FileFull DEF TypeOK
    <3>2. candidate[tx.by] \in States /\ Pair(candidate[tx.by])
      BY <1>0, <1>1 DEF ReadAgain, TxShape, TypeOK, PairInv, NoTx
    <3>3. ToRefresh \in Issued
      BY <1>0, <3>1, <3>2, PreferPair DEF ToRefresh, DiskInv, DueInv
    <3>4. ToRefresh \in Docs /\ file.doc \in Docs
      BY <1>0, <3>1, <3>3, IssuedDocs
    <3>5. TxStepTypes'
      <4>1. CASE Finish(Served(ToRefresh, file.doc))
        <5>1. Served(ToRefresh, file.doc) \in Results
          BY <3>4 DEF Served, Result, Results, MaybeDoc
        <5> QED BY <1>0, <4>1, <5>1, FinishType DEF TxStepTypes
      <4>2. CASE /\ tx' = [tx EXCEPT !.step = "request", !.same = TRUE,
                                     !.src = file.doc, !.doc = ToRefresh]
                 /\ UNCHANGED <<refresh, result>>
        BY <1>0, <3>4, <4>2 DEF TypeOK, TxStepTypes, TxTypes, Steps, MaybeDoc,
           Phases, Results
      <4> QED BY <1>1, <2>2, <4>1, <4>2 DEF ReadAgain
    <3> QED BY <1>0, <1>1, <3>5, IdleTypes, AsideTypes DEF ReadAgain
  <2> QED BY <1>1, <2>1, <2>2 DEF ReadAgain
<1>2. CASE PreflightFails
  <2>1. Result(tx.doc, tx.src, TRUE, FALSE) \in Results
    BY <1>0 DEF TypeOK, Result, Results
  <2>2. TxStepTypes'
    <3>1. PICK r \in Results : Finish(r)
      BY <1>2, <2>1, FailedResult DEF PreflightFails
    <3> QED BY <1>0, <3>1, FinishType DEF TxStepTypes
  <2> QED BY <1>0, <1>2, <2>2, IdleTypes, AsideTypes DEF PreflightFails
<1>3. CASE RefreshSucceeds
  <2>1. tx.doc \in Issued /\ issued + 1 \in Docs
    BY <1>0, <1>3, BoundsAssumption DEF RefreshSucceeds, TxInv, TxShape, AskInv,
       Asking, Pair, Docs
  <2>2. tx.doc \in Docs
    BY <1>0, <2>1, IssuedDocs
  <2>3. WorldTypes'
    BY <1>0, <1>3, <2>1, <2>2 DEF RefreshSucceeds, TypeOK, WorldTypes
  <2>4. TxStepTypes'
    BY <1>0, <1>3, <2>1 DEF RefreshSucceeds, TypeOK, TxStepTypes, TxTypes, Steps,
       MaybeDoc, Phases, Results
  <2>5. DiskTypes'
    BY <1>0, <1>3, IdleTypes DEF RefreshSucceeds, pastVars
  <2> QED BY <1>0, <1>3, <2>3, <2>4, <2>5, AsideTypes DEF RefreshSucceeds
<1>4. CASE RefreshFails
  <2>1. file.form = "full" => Served(file.doc, file.doc) \in Results
    BY <1>0, FileShape DEF TypeOK, Served, Result, Results, MaybeDoc
  <2>2. TxStepTypes'
    <3>1. PICK r \in Results : Finish(r)
      BY <1>4, <2>1, FailedResult DEF RefreshFails
    <3> QED BY <1>0, <3>1, FinishType DEF TxStepTypes
  <2>3. tx.doc \in Docs
    BY <1>0, <1>4, IssuedDocs DEF RefreshFails, TxInv, TxShape, AskInv, Asking,
       Pair
  <2>4. WorldTypes'
    BY <1>0, <1>4, <2>3 DEF RefreshFails, AuthorityIdle, TypeOK, WorldTypes
  <2> QED BY <1>0, <1>4, <2>2, <2>4, IdleTypes, AsideTypes DEF RefreshFails
<1>5. CASE WriteTemp
  <2>1. ThisJournal \in Journals /\ tx.new \in Docs
    BY <1>0, <1>5, JournalType DEF WriteTemp, TxShape, Asking
  <2>2. DiskTypes'
    BY <1>0, <1>5, <2>1 DEF WriteTemp, DiskTypes, TypeOK, Dirs
  <2> QED BY <1>0, <1>5, <2>2, GoToType, IdleTypes, AsideTypes DEF WriteTemp,
     TxStepTypes, Steps
<1>6. CASE RenameTemp
  <2>1. ThisJournal \in Journals
    BY <1>0, <1>6, JournalType DEF RenameTemp, TxShape, Asking
  <2>2. DiskTypes'
    BY <1>0, <1>6, <2>1 DEF RenameTemp, DiskTypes, TypeOK, Dirs, pastVars
  <2> QED BY <1>0, <1>6, <2>2, GoToType, IdleTypes, AsideTypes DEF RenameTemp,
     TxStepTypes, Steps
<1>7. CASE SyncJournal
  <2>1. tx.new \in Docs
    BY <1>0, <1>7, JournalType DEF SyncJournal, TxShape, Asking
  <2>2. tx.doc \in Docs
    BY <1>0, <1>7, IssuedDocs DEF SyncJournal, TxInv, TxShape, AskInv, Asking,
       Pair
  <2>3. DiskTypes'
    BY <1>0, <1>7, <2>1, <2>2 DEF SyncJournal, DiskTypes, TypeOK
  <2> QED BY <1>0, <1>7, <2>3, GoToType, IdleTypes, AsideTypes DEF SyncJournal,
     TxStepTypes, Steps
<1>8. CASE RecheckFile
  <2>1. TxStepTypes'
    <3>1. CASE Finish(Current)
      BY <1>0, <3>1, FinishType, CurrentPair DEF TxStepTypes
    <3>2. CASE GoTo("truncate")
      BY <1>0, <3>2, GoToType DEF TxStepTypes, Steps
    <3>3. CASE /\ tx' = [tx EXCEPT !.step = "drop", !.out = "found", !.doc = file.doc]
               /\ UNCHANGED <<refresh, result>>
      <4>1. file.doc \in MaybeDoc
        BY <1>0, FileShape DEF TypeOK, MaybeDoc, Empty, Missing
      <4> QED BY <1>0, <3>3, <4>1 DEF TypeOK, TxStepTypes, TxTypes, Steps,
         Phases, Results
    <3> QED BY <1>8, <3>1, <3>2, <3>3 DEF RecheckFile
  <2> QED BY <1>0, <1>8, <2>1, IdleTypes, AsideTypes DEF RecheckFile
<1>9. CASE PersistFails
  <2>1. Served(tx.new, tx.src) \in Results
    BY <1>0 DEF TypeOK, Served, Result, Results
  <2>2. DiskTypes'
    BY <1>0, <1>9 DEF PersistFails, DiskTypes, TypeOK, Dirs, pastVars
  <2> QED BY <1>0, <1>9, <2>1, <2>2, FinishType, IdleTypes, AsideTypes
     DEF PersistFails, TxStepTypes
<1> QED BY <1>1, <1>2, <1>3, <1>4, <1>5, <1>6, <1>7, <1>8, <1>9 DEF RefreshStep

LEMMA WriteTypes ==
  ASSUME IInv, WriteStep PROVE TypeOK'
<1> USE DEF IInv
<1>0. TxShape /\ TypeOK /\ DiskInv
  BY DEF TxInv
<1>d. tx.step \in Writing => tx.new \in Docs
  BY <1>0 DEF TypeOK, TxInv, WriteInv, Dirs, Journals
<1>1. CASE TruncateFile
  <2>1. DiskTypes'
    BY <1>0, <1>1, FilesHave DEF TruncateFile, DiskTypes, TypeOK, pastVars
  <2> QED BY <1>0, <1>1, <2>1, GoToType, IdleTypes, AsideTypes DEF TruncateFile,
     TxStepTypes, Steps
<1>2. CASE WriteFile
  <2>1. DiskTypes'
    BY <1>0, <1>2, <1>d, FilesHave DEF WriteFile, Writing, DiskTypes, TypeOK,
       pastVars
  <2> QED BY <1>0, <1>2, <2>1, GoToType, IdleTypes, AsideTypes DEF WriteFile,
     TxStepTypes, Steps
<1>3. CASE SyncFile
  <2>1. DiskTypes'
    BY <1>0, <1>3, <1>d DEF SyncFile, Writing, DiskTypes, TypeOK
  <2>2. TxStepTypes'
    <3>1. CASE ~(~tx.same /\ file = Missing)
      <4> DEFINE out == IF tx.same THEN "target" ELSE "look"
      <4>1. tx' = [tx EXCEPT !.step = "drop", !.out = out]
        BY <1>3, <3>1 DEF SyncFile
      <4>2. out \in {"target", "found", "look"}
        OBVIOUS
      <4>3. UNCHANGED <<refresh, result>>
        BY <1>3, <3>1 DEF SyncFile
      <4> HIDE DEF out
      <4> QED BY <1>0, <4>1, <4>2, <4>3 DEF TypeOK, TxStepTypes, TxTypes,
         Steps, Phases, Results
    <3>2. ASSUME NEW r \in {Failed, Current}, Finish(r) PROVE TxStepTypes'
      BY <1>0, <3>2, FinishType, FailedResult, CurrentPair DEF TxStepTypes
    <3>3. CASE ~tx.same /\ file = Missing
      <4> DEFINE r == IF tx.src = NoDoc THEN Failed ELSE Current
      <4>1. Finish(r)
        BY <1>3, <3>3 DEF SyncFile
      <4>2. r \in {Failed, Current}
        OBVIOUS
      <4> HIDE DEF r
      <4> QED BY <3>2, <4>1, <4>2
    <3> QED BY <1>3, <3>1, <3>3 DEF SyncFile
  <2> QED BY <1>0, <1>3, <2>1, <2>2, IdleTypes, AsideTypes DEF SyncFile
<1>4. CASE DropJournal
  <2>1. DiskTypes'
    BY <1>0, <1>4 DEF DropJournal, DiskTypes, TypeOK, Dirs, pastVars
  <2> QED BY <1>0, <1>4, <2>1, GoToType, IdleTypes, AsideTypes DEF DropJournal,
     TxStepTypes, Steps
<1>5. CASE SyncDropped
  <2>1. DiskTypes'
    BY <1>0, <1>5 DEF SyncDropped, DiskTypes, TypeOK, pastVars
  <2>2. TxStepTypes'
    BY <1>0, <1>5, RecoveredType, OutcomeType, FinishType DEF SyncDropped,
       TxStepTypes
  <2> QED BY <1>0, <1>5, <2>1, <2>2, IdleTypes, AsideTypes DEF SyncDropped
<1>6. CASE DropFails
  <2>1. TxStepTypes'
    BY <1>0, <1>6, OutcomeType, FinishType DEF DropFails, TxStepTypes
  <2> QED BY <1>0, <1>6, <2>1, IdleTypes, AsideTypes DEF DropFails
<1> QED BY <1>1, <1>2, <1>3, <1>4, <1>5, <1>6 DEF WriteStep

\* Every variable keeps its type: the processes, crashes and the outside.
LEMMA ProcessTypes ==
  ASSUME IInv, NEW p \in Processes,
         AcquireLock(p) \/ LockTimeout(p) \/ Revalidate(p) \/ Publish(p)
  PROVE  TypeOK'
<1> USE DEF IInv
<1>0. TypeOK /\ NoState \in States /\ Failed \in Results
  BY FailedResult DEF NoState, Cached, States, MaybeDoc
<1>1. CASE AcquireLock(p)
  <2>1. tx' \in TxTypes
    BY <1>1, BeginType DEF AcquireLock
  <2> QED BY <1>0, <1>1, <2>1 DEF AcquireLock, TypeOK, TxTypes, diskVars,
     worldVars, callVars, pastVars
<1>2. CASE LockTimeout(p)
  BY <1>0, <1>2 DEF LockTimeout, TypeOK, Results, diskVars, worldVars, callVars,
     pastVars
<1>3. CASE Revalidate(p)
  <2> DEFINE r == result[p]
  <2>1. r \in Results /\ [r EXCEPT !.err = TRUE] \in Results
    BY <1>0 DEF TypeOK, Results
  <2>2. file.form = "full" => Served(file.doc, file.doc) \in Results
    BY <1>0, FileShape DEF TypeOK, Served, Result, Results, MaybeDoc
  <2>3. result' \in [Processes -> Results]
    BY <1>0, <1>3, <2>1, <2>2 DEF Revalidate, TypeOK, Results
  <2> QED BY <1>0, <1>3, <2>3 DEF Revalidate, TypeOK, Results, diskVars,
     worldVars, callVars, pastVars
<1>4. CASE Publish(p)
  <2> DEFINE r == result[p]
  <2>1. Cached(r.doc, r.at) \in States
    BY <1>0 DEF TypeOK, Cached, States
  <2>2. cache' \in [Processes -> States]
    BY <1>0, <1>4, <2>1 DEF Publish, TypeOK
  <2>3. floor' \in [Callers -> Docs \cup {Idle}] /\ outdated' \subseteq Callers
    BY <1>0, <1>4 DEF Publish, TypeOK
  <2> QED BY <1>0, <1>4, <2>2, <2>3 DEF Publish, TypeOK, Results, diskVars,
     worldVars, pastVars
<1> QED BY <1>1, <1>2, <1>3, <1>4

LEMMA KillTypes ==
  ASSUME TypeOK, DiskTypes', NEW ps \in SUBSET Processes, Kill(ps), due' = due,
         replaced' = replaced
  PROVE  TypeOK'
<1>1. NoState \in States /\ Failed \in Results /\ NoTx \in TxTypes
  BY FailedResult, NoTxType DEF NoState, Cached, States, MaybeDoc
<1>2. /\ cache' \in [Processes -> States] /\ candidate' \in [Processes -> States]
      /\ result' \in [Processes -> Results] /\ tx' \in TxTypes
      /\ refresh' \in [Processes -> Phases]
      /\ floor' \in [Callers -> Docs \cup {Idle}]
  BY <1>1 DEF Kill, TypeOK, Results, TxTypes, Phases
<1>3. upsets' \in 0..MaxUpsets
  BY BoundsAssumption DEF Kill, TypeOK
<1> QED BY <1>2, <1>3 DEF Kill, TypeOK, DiskTypes, Results, TxTypes, Phases,
   worldVars

LEMMA OutsideTypes ==
  ASSUME TypeOK,
         \/ \E p \in Processes : CrashProcess(p)
         \/ CrashMachine \/ Login \/ Logout
         \/ \E d \in Docs : GoStale(d)
  PROVE  TypeOK'
<1>1. ASSUME NEW p \in Processes, CrashProcess(p) PROVE TypeOK'
  BY <1>1, KillTypes, IdleTypes DEF CrashProcess, Kill, pastVars
<1>2. CASE CrashMachine
  <2>1. file' \in Files
    BY <1>2, FileShape, FilesHave DEF CrashMachine, TypeOK
  <2>2. DiskTypes'
    BY <1>2, <2>1 DEF CrashMachine, Kill, TypeOK, DiskTypes, pastVars
  <2> QED BY <1>2, <2>2, KillTypes DEF CrashMachine, Kill, pastVars
<1>3. CASE Login
  <2>1. issued + 1 \in Docs
    BY <1>3, BoundsAssumption DEF Login, TypeOK, Docs
  <2>2. tx' \in TxTypes
    BY <1>3 DEF Login, TypeOK, TxTypes
  <2>3. file' \in Files /\ due' \subseteq Docs /\ epoch' \in [Docs -> Docs]
    BY <1>3, <2>1, FilesHave DEF Login, TypeOK
  <2> QED BY <1>3, <2>1, <2>2, <2>3 DEF Login, TypeOK, TxTypes, procVars, callVars
<1>4. CASE Logout
  <2>1. tx' \in TxTypes
    BY <1>4 DEF Logout, TypeOK, TxTypes
  <2>2. file' \in Files /\ due' \subseteq Docs
    BY <1>4, FilesHave DEF Logout, TypeOK
  <2>3. upsets' \in 0..MaxUpsets
    BY <1>4, BoundsAssumption DEF Logout, TypeOK
  <2> QED BY <1>4, <2>1, <2>2, <2>3 DEF Logout, TypeOK, TxTypes, worldVars, procVars,
     callVars
<1>5. ASSUME NEW d \in Docs, GoStale(d) PROVE TypeOK'
  BY <1>5 DEF GoStale, TypeOK, diskVars, procVars, callVars, pastVars
<1> QED BY <1>1, <1>2, <1>3, <1>4, <1>5

-----------------------------------------------------------------------------
\* The states in memory, when the disk is left alone.
LEMMA PairKeep ==
  ASSUME UNCHANGED <<pastVars, issued, epoch>>,
         \A p \in Processes :
           Pair(cache'[p]) /\ Pair(candidate'[p]) /\ Pair(result'[p])
  PROVE  PairInv'
BY DEF PairInv, Pair, Issued, pastVars

\* A caller is answered with a document of the login in the file, if it is fresh.
LEMMA AnswerKeeps ==
  ASSUME TypeOK, DiskInv, outdated = {}, NEW c \in Callers,
         NEW d \in Issued, Answer(c, d),
         file.form = "full" => epoch[d] = epoch[file.doc]
  PROVE  outdated' = {} /\ floor' = floor
<1>1. d \in Docs /\ epoch[d] \in Nat
  BY IssuedDocs, BoundsAssumption DEF TypeOK, Docs
<1>2. ~(epoch[d] < Floor)
  BY <1>1, FileShape, BoundsAssumption DEF TypeOK, Floor, Docs
<1> QED BY <1>2 DEF Answer

LEMMA FloorFrame ==
  ASSUME FloorInv, outdated' = {}, floor' = floor,
         UNCHANGED <<refresh, candidate, result, epoch>>
  PROVE  FloorInv'
BY DEF FloorInv

LEMMA CallerInv ==
  ASSUME IInv, NEW c \in Callers,
         JoinRefresh(c) \/ ServeLoaded(c) \/ StartRefresh(c) \/ LoadFails(c)
         \/ GiveUp(c)
  PROVE  DiskInv' /\ PairInv' /\ TxInv' /\ FloorInv'
<1> USE DEF IInv
<1> DEFINE p == Home[c]
<1> DEFINE st == LoadedFile(p)
<1>0. /\ p \in Processes /\ outdated = {} /\ due \cap replaced = {}
      /\ issued \in Docs /\ TxShape
  BY HomeAssumption DEF FloorInv, DiskInv, DueInv, TypeOK, TxInv
<1>f. file.form = "full" =>
        file.doc \in Issued /\ Top(file.doc) /\ file.doc \in Docs
  BY FileFull, IssuedDocs DEF TypeOK
<1>l. /\ st \in States /\ Pair(st)
      /\ file.form = "full" => st.at = file.doc
      /\ st # NoState => st.doc \in Issued /\ st.at \in Issued
  BY <1>0, Loaded
<1>n. NoState \in States /\ Pair(NoState)
  BY DEF NoState, Cached, States, MaybeDoc, Pair
<1>1. CASE JoinRefresh(c)
  <2>1. DiskInv' /\ TxInv'
    BY <1>1, DiskFrame, TxFrame DEF JoinRefresh, worldVars, TxInv, TxShape
  <2>2. PairInv'
    <3>1. file.form = "full" => Pair(Cached(file.doc, file.doc))
      BY <1>0, <1>f DEF Pair, Cached, Issued, TypeOK, Docs
    <3>2. \A q \in Processes : Pair(cache'[q])
      BY <1>0, <1>1, <3>1 DEF JoinRefresh, TypeOK, PairInv
    <3> QED BY <1>1, <3>2, PairKeep DEF JoinRefresh, worldVars, PairInv
  <2>3. CASE Answer(c, file.doc) /\ file.form = "full"
    <3>1. outdated' = {} /\ floor' = floor
      BY <1>0, <1>f, <2>3, AnswerKeeps
    <3> QED BY <1>1, <2>1, <2>2, <3>1, FloorFrame DEF JoinRefresh, worldVars
  <2>4. CASE Wait(c) /\ ~(/\ file.form = "full" /\ file.doc # candidate[p].at
                          /\ file.doc \notin stale)
    <3>1. \/ Floor = 0
          \/ candidate[p].at # NoDoc /\ Floor = epoch[candidate[p].at]
      BY <1>0, <1>f, <2>4, IssuedDocs DEF Floor
    <3>2. Floor = 0 \/ Floor <= epoch[candidate[p].at]
      BY <3>1, FloorType, BoundsAssumption DEF Docs
    <3>3. /\ refresh[p] # "none" /\ outdated' = {}
          /\ floor' = [floor EXCEPT ![c] = Floor] /\ floor \in [Callers -> Docs \cup {Idle}]
          /\ UNCHANGED <<refresh, candidate, result, epoch>>
      BY <1>0, <1>1, <2>4 DEF JoinRefresh, Wait, worldVars, TypeOK
    <3> QED BY <2>1, <2>2, <3>1, <3>2, <3>3 DEF FloorInv
  <2> QED BY <1>1, <2>1, <2>2, <2>3, <2>4 DEF JoinRefresh
<1>2. CASE ServeLoaded(c)
  <2>1. DiskInv'
    BY <1>2, DiskFrame DEF ServeLoaded, worldVars
  <2>2. PairInv'
    <3>1. \A q \in Processes : Pair(cache'[q])
      BY <1>0, <1>2, <1>l DEF ServeLoaded, TypeOK, PairInv
    <3>2. UNCHANGED <<pastVars, issued, epoch, candidate, result>>
      BY <1>2 DEF ServeLoaded, worldVars
    <3> QED BY <3>1, <3>2, PairKeep DEF PairInv
  <2>3. TxInv'
    <3>1. CASE UNCHANGED tx
      BY <1>2, <3>1, TxFrame DEF ServeLoaded, worldVars, TxInv, TxShape
    <3>2. CASE Begin(p, "cleanup")
      <4>1. /\ tx'.step = "prepare" /\ tx'.src = NoDoc /\ tx'.kind = "cleanup"
            /\ tx'.by = p /\ tx'.out = "target"
        BY <3>2 DEF Begin, NoTx
      <4>2. TxShape'
        BY <1>0, <4>1 DEF TxShape, NoTx, Asking
      <4>3. NewInv' /\ AskInv' /\ WriteInv'
        BY <4>1 DEF NewInv, AskInv, WriteInv, Asking, Writing, Dropping
      <4> QED BY <4>2, <4>3 DEF TxInv
    <3> QED BY <1>2, <3>1, <3>2 DEF ServeLoaded
  <2>4. FloorInv'
    <3>1. st # NoState /\ st.doc \in Issued /\ Answer(c, st.doc)
      BY <1>2, <1>l DEF ServeLoaded
    <3>2. file.form = "full" => epoch[st.doc] = epoch[file.doc]
      BY <1>l, <1>f, <3>1, IssuedDocs DEF Pair, TypeOK
    <3>3. outdated' = {} /\ floor' = floor
      BY <1>0, <3>1, <3>2, AnswerKeeps
    <3> QED BY <1>2, <3>3 DEF ServeLoaded, FloorInv, worldVars
  <2> QED BY <2>1, <2>2, <2>3, <2>4
<1>3. CASE StartRefresh(c)
  <2>1. DiskInv'
    BY <1>3, DiskFrame DEF StartRefresh, worldVars
  <2>2. PairInv'
    <3>1. \A q \in Processes : Pair(cache'[q]) /\ Pair(candidate'[q])
      BY <1>0, <1>3, <1>l DEF StartRefresh, TypeOK, PairInv
    <3>2. UNCHANGED <<pastVars, issued, epoch, result>>
      BY <1>3 DEF StartRefresh, worldVars
    <3> QED BY <3>1, <3>2, PairKeep DEF PairInv
  <2>3. TxInv'
    <3>1. tx # NoTx /\ tx.kind = "refresh" => refresh'[tx.by] = "locked"
      BY <1>0, <1>3 DEF StartRefresh, TxShape, TypeOK
    <3> QED BY <1>3, <3>1, TxFrame DEF StartRefresh, worldVars
  <2>4. FloorInv'
    <3>1. \/ Floor = 0
          \/ st.at # NoDoc /\ Floor = epoch[st.at]
      BY <1>0, <1>f, <1>l, IssuedDocs DEF Floor
    <3>2. Floor = 0 \/ Floor <= epoch[st.at]
      BY <3>1, FloorType, BoundsAssumption DEF Docs
    <3>3. \A q \in Callers : floor[q] # Idle => refresh[Home[q]] # "none"
      BY DEF FloorInv
    <3>4. \A q \in Callers : floor'[q] # Idle => q = c \/ Home[q] # p
      BY <1>3, <3>3 DEF StartRefresh, Wait, TypeOK
    <3>5. floor'[c] = Floor /\ candidate'[p] = st /\ refresh'[p] = "lock"
      BY <1>0, <1>3 DEF StartRefresh, Wait, TypeOK
    <3>6. \A q \in Callers : floor'[q] # Idle =>
            /\ refresh'[Home[q]] # "none"
            /\ \/ floor'[q] = 0
               \/ /\ candidate'[Home[q]].at # NoDoc
                  /\ floor'[q] <= epoch[candidate'[Home[q]].at]
      <4> SUFFICES ASSUME NEW q \in Callers, floor'[q] # Idle
                   PROVE  /\ refresh'[Home[q]] # "none"
                          /\ \/ floor'[q] = 0
                             \/ /\ candidate'[Home[q]].at # NoDoc
                                /\ floor'[q] <= epoch[candidate'[Home[q]].at]
        OBVIOUS
      <4>1. CASE q = c
        BY <3>1, <3>2, <3>5, <4>1
      <4>2. CASE q # c
        <5>1. Home[q] # p /\ floor'[q] = floor[q] /\ Home[q] \in Processes
          BY <1>3, <3>4, <4>2, HomeAssumption DEF StartRefresh, Wait, TypeOK
        <5>2. /\ candidate'[Home[q]] = candidate[Home[q]]
              /\ refresh'[Home[q]] = refresh[Home[q]]
          BY <1>3, <5>1 DEF StartRefresh, TypeOK
        <5> QED BY <5>1, <5>2 DEF FloorInv
      <4> QED BY <4>1, <4>2
    <3>7. \A q \in Processes : refresh'[q] = "publish" =>
            refresh[q] = "publish" /\ candidate'[q] = candidate[q]
      BY <1>0, <1>3 DEF StartRefresh, TypeOK
    <3> QED BY <1>3, <3>6, <3>7 DEF StartRefresh, Wait, FloorInv, worldVars
  <2> QED BY <2>1, <2>2, <2>3, <2>4
<1>4. CASE LoadFails(c)
  <2>1. DiskInv' /\ TxInv'
    BY <1>4, DiskFrame, TxFrame DEF LoadFails, worldVars, TxInv, TxShape
  <2>2. \A q \in Processes : Pair(cache'[q])
    BY <1>0, <1>4, <1>n DEF LoadFails, TypeOK, PairInv
  <2>3. PairInv'
    BY <1>4, <2>2, PairKeep DEF LoadFails, worldVars, PairInv
  <2> QED BY <1>4, <2>1, <2>3 DEF LoadFails, FloorInv, worldVars, callVars
<1>5. CASE GiveUp(c)
  <2>1. DiskInv' /\ TxInv' /\ PairInv'
    BY <1>5, DiskFrame, TxFrame, PairFrame DEF GiveUp, worldVars, procVars,
       TxInv, TxShape
  <2> QED BY <1>5, <2>1 DEF GiveUp, FloorInv, worldVars, procVars, TypeOK
<1> QED BY <1>1, <1>2, <1>3, <1>4, <1>5

-----------------------------------------------------------------------------
\* A transaction that ends leaves its result to the process, and no claim.
LEMMA FinishKeeps ==
  ASSUME TypeOK, TxInv, PairInv, FloorInv, NEW r \in Results, Pair(r), Finish(r),
         UNCHANGED <<cache, candidate, floor, outdated, epoch>>
  PROVE  /\ TxInv' /\ FloorInv'
         /\ \A p \in Processes :
              Pair(cache'[p]) /\ Pair(candidate'[p]) /\ Pair(result'[p])
<1>1. tx' = NoTx
  BY DEF Finish
<1>2. TxInv'
  BY <1>1, NoTxInv
<1>3. FloorInv'
  <2>1. CASE tx.kind = "cleanup"
    BY <2>1, FloorFrame DEF Finish, FloorInv
  <2>2. CASE tx.kind # "cleanup"
    <3>1. refresh' = [refresh EXCEPT ![tx.by] = "check"]
      BY <2>2 DEF Finish
    <3>2. \A p \in Processes : p # tx.by => result'[p] = result[p]
      BY <2>2 DEF Finish, TypeOK
    <3>3. \A p \in Processes :
            /\ refresh[p] # "none" => refresh'[p] # "none"
            /\ refresh'[p] = "publish" => refresh[p] = "publish" /\ result'[p] = result[p]
      BY <3>1, <3>2 DEF TypeOK
    <3>4. \A c \in Callers : Home[c] \in Processes
      BY HomeAssumption
    <3> QED BY <3>3, <3>4 DEF FloorInv
  <2> QED BY <2>1, <2>2
<1>4. \A p \in Processes : result'[p] = result[p] \/ result'[p] = r
  BY DEF Finish, TypeOK
<1> QED BY <1>2, <1>3, <1>4 DEF PairInv

\* A step that ends a transaction and leaves the disk alone.
LEMMA FinishInv ==
  ASSUME IInv, NEW r \in Results, Pair(r), Finish(r), Aside,
         UNCHANGED <<diskVars, pastVars, issued, epoch>>
  PROVE  DiskInv' /\ PairInv' /\ TxInv' /\ FloorInv'
<1>1. UNCHANGED <<cache, candidate, floor, outdated>>
  BY DEF Aside, callVars
<1>2. /\ TxInv' /\ FloorInv'
      /\ \A p \in Processes :
           Pair(cache'[p]) /\ Pair(candidate'[p]) /\ Pair(result'[p])
  BY <1>1, FinishKeeps DEF IInv
<1>3. PairInv'
  BY <1>2, PairKeep
<1> QED BY <1>2, <1>3, DiskFrame DEF IInv

\* A step of a transaction that goes on: nothing but tx and the disk moves.
LEMMA GoOnKeeps ==
  ASSUME IInv, Aside, UNCHANGED <<refresh, result>>, UNCHANGED epoch
  PROVE  FloorInv'
BY FloorFrame DEF IInv, FloorInv, Aside, callVars

LEMMA GoOnInv ==
  ASSUME IInv, Aside, UNCHANGED <<refresh, result>>,
         UNCHANGED <<diskVars, pastVars, issued, epoch>>
  PROVE  DiskInv' /\ PairInv' /\ FloorInv'
BY GoOnKeeps, DiskFrame, PairFrame DEF IInv, Aside

\* What a transaction that is dropping its journal returns.
LEMMA OutcomePair ==
  ASSUME IInv, tx.step \in Dropping, tx.src # NoDoc, NEW dropped \in BOOLEAN
  PROVE  Outcome(dropped) \in Results /\ Pair(Outcome(dropped))
<1> USE DEF IInv
<1>1. Outcome(dropped) \in Results
  BY OutcomeType
<1>2. /\ tx.src \in Issued /\ tx.new \in Issued /\ tx.src < tx.new
      /\ epoch[tx.new] = epoch[tx.src] /\ \A d \in replaced : d < tx.new
  BY DEF TxInv, NewInv, Dropping
<1>3. tx.out \in {"target", "found", "look"}
  BY DEF TypeOK
<1>4. issued \in Docs
  BY DEF TypeOK
<1>5. Pair(Served(tx.new, tx.src))
  BY <1>2, <1>4, IssuedDocs DEF Served, Result, Pair
<1>6. Pair(Served(tx.new, tx.new))
  BY <1>2, OwnPair DEF Served
<1>7. CASE tx.out = "found"
  <2>1. tx.doc \in Issued
    BY <1>7 DEF TxInv, WriteInv
  <2>2. (tx.doc \in stale) \in BOOLEAN /\ FALSE \in BOOLEAN
    OBVIOUS
  <2>3. Pair(Result(tx.doc, tx.doc, tx.doc \in stale, FALSE))
    BY <2>1, <2>2, OwnPair
  <2> QED BY <1>1, <1>7, <2>3 DEF Outcome
<1> QED BY <1>1, <1>3, <1>5, <1>6, <1>7, CurrentPair DEF Outcome

-----------------------------------------------------------------------------
\* The steps of a transaction that leave the disk alone.
LEMMA RecoveryFailsInv ==
  ASSUME IInv, RecoveryFails PROVE DiskInv' /\ PairInv' /\ TxInv' /\ FloorInv'
BY FailedResult, FinishInv DEF RecoveryFails, AuthorityIdle

\* A file that is read under the lock is whole and due.
LEMMA ReadAgainInv ==
  ASSUME IInv, ReadAgain PROVE DiskInv' /\ PairInv' /\ TxInv' /\ FloorInv'
<1> USE DEF IInv
<1>0. Aside /\ UNCHANGED <<diskVars, pastVars, issued, epoch>>
  BY DEF ReadAgain, AuthorityIdle
<1>1. CASE file.form # "full"
  <2>1. Finish(Current)
    BY <1>1 DEF ReadAgain
  <2> QED BY <1>0, <2>1, CurrentPair, FinishInv
<1>2. CASE file.form = "full"
  <2> DEFINE d == ToRefresh
  <2>1. file.doc \in Issued /\ issued \in Docs /\ due \cap replaced = {}
    BY <1>2, FileFull DEF TypeOK, DiskInv, DueInv
  <2>2. candidate[tx.by] \in States /\ Pair(candidate[tx.by])
    BY DEF ReadAgain, TxInv, TxShape, TypeOK, PairInv, NoTx
  <2>3. d \in Issued /\ Pair(Cached(d, file.doc))
    BY <2>1, <2>2, PreferPair DEF ToRefresh
  <2>4. d \in Docs /\ file.doc \in Docs
    BY <2>1, <2>3, IssuedDocs
  <2>5. CASE d \notin stale
    <3>1. Finish(Served(d, file.doc))
      BY <1>2, <2>5 DEF ReadAgain
    <3>2. Served(d, file.doc) \in Results /\ Pair(Served(d, file.doc))
      BY <2>3, <2>4 DEF Served, Result, Results, MaybeDoc, Pair, Cached
    <3> QED BY <1>0, <3>1, <3>2, FinishInv
  <2>6. CASE d \in stale
    <3>1. /\ tx' = [tx EXCEPT !.step = "request", !.same = TRUE,
                              !.src = file.doc, !.doc = d]
          /\ UNCHANGED <<refresh, result>>
      BY <1>2, <2>6 DEF ReadAgain
    <3>2. /\ tx'.step = "request" /\ tx'.same = TRUE /\ tx'.src = file.doc
          /\ tx'.doc = d /\ tx'.by = tx.by /\ tx'.kind = tx.kind
      BY <3>1 DEF TypeOK
    <3>3. dir = NoDir /\ tx.step = "read" /\ tx.kind = "refresh"
      BY DEF ReadAgain, TxInv, AskInv, TxShape
    <3>4. Whole
      BY <3>3 DEF DiskInv, TornInv, NoDir
    <3>5. file.doc \in due
      BY <1>2, <3>3, <3>4, ArtOf DEF DiskInv, WholeInv, Sound
    <3>6. d \notin replaced
      BY <2>3, <2>1, <3>5, IssuedDocs DEF Pair, Cached
    <3>7. TxShape'
      <4>1. tx # NoTx /\ tx' # NoTx
        BY <3>2, <3>3 DEF NoTx
      <4>2. tx.by \in Processes /\ refresh[tx.by] = "locked"
        BY <3>3, <4>1 DEF TxInv, TxShape
      <4>3. tx'.src # NoDoc /\ refresh' = refresh
        BY <2>1, <3>1, <3>2, IssuedDocs
      <4> QED BY <3>2, <3>3, <4>1, <4>2, <4>3 DEF TxShape
    <3>8. NewInv'
      BY <3>2 DEF NewInv
    <3>9. AskInv'
      <4>1. Pair([doc |-> tx.doc, at |-> tx.src])'
        BY <1>0, <2>3, <3>2 DEF Pair, Cached, Issued, pastVars
      <4>2. tx'.doc \notin replaced' /\ Whole' /\ file' = Full(tx'.src) /\ dir' = NoDir
        BY <1>0, <1>2, <3>2, <3>3, <3>4, <3>6, FileShape DEF Whole, diskVars, pastVars,
           TypeOK
      <4> QED BY <3>2, <4>1, <4>2 DEF AskInv
    <3>10. WriteInv'
      BY <3>2 DEF WriteInv, Writing, Dropping
    <3> QED BY <1>0, <3>1, <3>7, <3>8, <3>9, <3>10, GoOnInv DEF TxInv
  <2> QED BY <2>5, <2>6
<1> QED BY <1>1, <1>2

LEMMA PreflightFailsInv ==
  ASSUME IInv, PreflightFails PROVE DiskInv' /\ PairInv' /\ TxInv' /\ FloorInv'
<1>1. Pair([doc |-> tx.doc, at |-> tx.src])
  BY DEF IInv, TxInv, AskInv, PreflightFails, Asking
<1> DEFINE r == Result(tx.doc, tx.src, TRUE, FALSE)
<1>2. r \in Results /\ Pair(r)
  BY <1>1 DEF IInv, TypeOK, Result, Results, Pair
<1>3. PICK q \in {Failed, r} : Finish(q)
  BY DEF PreflightFails
<1>4. Aside /\ UNCHANGED <<diskVars, pastVars, issued, epoch>>
  BY DEF PreflightFails, AuthorityIdle
<1> QED BY <1>2, <1>3, <1>4, FailedResult, FinishInv

LEMMA RefreshFailsInv ==
  ASSUME IInv, RefreshFails PROVE DiskInv' /\ PairInv' /\ TxInv' /\ FloorInv'
<1>1. file.form = "full" => /\ Served(file.doc, file.doc) \in Results
                            /\ Pair(Served(file.doc, file.doc))
  <2> SUFFICES ASSUME file.form = "full"
               PROVE  /\ Served(file.doc, file.doc) \in Results
                      /\ Pair(Served(file.doc, file.doc))
    OBVIOUS
  <2>1. file.doc \in Issued
    BY FileFull DEF IInv, TypeOK
  <2> QED BY <2>1, OwnPair DEF IInv, Served
<1>2. PICK r \in Results : Pair(r) /\ Finish(r)
  BY <1>1, FailedResult DEF RefreshFails
<1>3. Aside /\ UNCHANGED <<diskVars, pastVars, issued, epoch>>
  BY DEF RefreshFails, AuthorityIdle
<1> QED BY <1>2, <1>3, FinishInv

LEMMA DropFailsInv ==
  ASSUME IInv, DropFails PROVE DiskInv' /\ PairInv' /\ TxInv' /\ FloorInv'
<1>1. Outcome(FALSE) \in Results /\ Pair(Outcome(FALSE))
  BY OutcomePair DEF DropFails, Dropping
<1> QED BY <1>1, FinishInv DEF DropFails, AuthorityIdle

\* A step of a transaction keeps its holder and its source.
LEMMA ShapeGoesOn ==
  ASSUME TxShape, tx.step # "none",
         tx'.step \notin {"none", "prepare", "recover", "read"},
         tx'.by = tx.by, tx'.kind = tx.kind, tx'.src = tx.src, refresh' = refresh,
         tx'.step \in Asking \cup {"recheck"} => tx.src # NoDoc
  PROVE  TxShape'
<1>1. tx # NoTx /\ tx' # NoTx
  BY DEF NoTx
<1> QED BY <1>1 DEF TxShape

LEMMA GoToFields ==
  ASSUME TypeOK, NEW s \in Steps, GoTo(s)
  PROVE  /\ tx'.step = s /\ tx'.by = tx.by /\ tx'.kind = tx.kind
         /\ tx'.same = tx.same /\ tx'.src = tx.src /\ tx'.doc = tx.doc
         /\ tx'.new = tx.new /\ tx'.out = tx.out
         /\ refresh' = refresh /\ result' = result
BY DEF GoTo, TypeOK

\* The recheck goes on with the file it knows, and leaves any other alone.
LEMMA RecheckFileInv ==
  ASSUME IInv, RecheckFile PROVE DiskInv' /\ PairInv' /\ TxInv' /\ FloorInv'
<1> USE DEF IInv
<1>0. Aside /\ UNCHANGED <<diskVars, pastVars, issued, epoch>>
  BY DEF RecheckFile, AuthorityIdle
<1>1. /\ tx.step = "recheck" /\ tx.src # NoDoc /\ TxShape /\ issued \in Docs
      /\ dir = Only(ThisJournal) /\ savedDir = dir /\ Whole
      /\ IF tx.same THEN file = Full(tx.src) ELSE Replaced({tx.src, tx.new})
      /\ ThisJournal \in Journals /\ tx.src < tx.new /\ epoch[tx.new] = epoch[tx.src]
      /\ tx.src \in Issued /\ tx.new \in Issued
  BY JournalType DEF RecheckFile, TxInv, TxShape, WriteInv, NewInv, TypeOK
<1>2. CASE Finish(Current)
  BY <1>0, <1>2, CurrentPair, FinishInv
<1>3. CASE tx.same /\ file = Full(tx.src) /\ GoTo("truncate")
  <2> DEFINE j == ThisJournal
  <2>1. /\ tx'.step = "truncate" /\ tx'.by = tx.by /\ tx'.kind = tx.kind
        /\ tx'.same = tx.same /\ tx'.src = tx.src /\ tx'.new = tx.new
        /\ refresh' = refresh /\ result' = result
    BY <1>3, GoToFields DEF Steps
  <2>2. TxShape'
    BY <1>1, <2>1, ShapeGoesOn DEF Asking
  <2>3. NewInv'
    BY <1>0, <1>1, <2>1 DEF TxInv, NewInv, Issued, pastVars
  <2>4. AskInv'
    BY <2>1 DEF AskInv, Asking
  <2>5. Art(dir) = {j} /\ j # NoJournal /\ AppliesTo(file, j)
    BY <1>1, <1>3, ArtOf DEF AppliesTo, ThisJournal, Full
  <2>6. tx.new \in due
    BY <1>1, <1>3, <2>5 DEF DiskInv, WholeInv, Sound, Full, ThisJournal
  <2>7. Top(tx.new)
    BY <1>1, <1>3, FileFull DEF Top, TypeOK, Full
  <2>8. file # Full(tx.new) /\ dir.journal = j /\ j.tgt = tx.new /\ j.src = tx.src
    BY <1>1, <1>3, IssuedDocs DEF Full, Only, ThisJournal
  <2>9. WriteInv'
    <3>1. dir' = dir /\ file' = file /\ Whole' /\ Top(tx.new)' /\ due' = due
      BY <1>0, <1>1, <2>1, <2>7 DEF Top, Whole, Issued, diskVars, pastVars
    <3>2. dir'.journal = j
      BY <3>1, <2>8
    <3> QED BY <1>1, <1>3, <2>1, <2>5, <2>6, <2>8, <3>1, <3>2
       DEF WriteInv, Writing, Dropping
  <2> QED BY <1>0, <2>1, <2>2, <2>3, <2>4, <2>9, GoOnInv DEF TxInv
<1>4. CASE /\ file.form # "missing" /\ ~(tx.same /\ file = Full(tx.src))
           /\ tx' = [tx EXCEPT !.step = "drop", !.out = "found", !.doc = file.doc]
           /\ UNCHANGED <<refresh, result>>
  <2>1. /\ tx'.step = "drop" /\ tx'.by = tx.by /\ tx'.kind = tx.kind
        /\ tx'.src = tx.src /\ tx'.new = tx.new /\ tx'.doc = file.doc
    BY <1>4 DEF TypeOK
  <2>2. TxShape'
    BY <1>1, <1>4, <2>1, ShapeGoesOn DEF Asking
  <2>3. NewInv'
    BY <1>0, <1>1, <2>1 DEF TxInv, NewInv, Issued, pastVars
  <2>4. AskInv'
    BY <2>1 DEF AskInv, Asking
  <2>5. file.form = "full" /\ ~tx.same
    BY <1>1, <1>4 DEF Whole
  <2>6. file.doc \in Issued /\ file.doc \in due
    BY <1>1, <1>4, <2>5, FileFull DEF Replaced, Missing, TypeOK
  <2>7. WriteInv'
    BY <1>0, <1>1, <2>1, <2>6 DEF WriteInv, Writing, Dropping, Whole, Only, Issued,
       diskVars, pastVars
  <2> QED BY <1>0, <1>4, <2>2, <2>3, <2>4, <2>7, GoOnInv DEF TxInv
<1> QED BY <1>2, <1>3, <1>4 DEF RecheckFile

-----------------------------------------------------------------------------
\* The states in memory, when what is due, replaced or issued changes.
NoneReplaced ==
  \A a, d \in Issued :
    /\ a <= d /\ d \in replaced'
    /\ d \in replaced => a \notin due
    => a \notin due'

LEMMA IssuedGrows ==
  ASSUME issued \in Docs, issued' \in Docs, issued <= issued'
  PROVE  Issued \subseteq Issued'
BY BoundsAssumption DEF Issued, Docs

LEMMA PairMoves ==
  ASSUME issued \in Docs, issued' \in Docs, issued <= issued', NoneReplaced,
         \A d \in Issued : epoch'[d] = epoch[d],
         \A p \in Processes :
           Pair(cache'[p]) /\ Pair(candidate'[p]) /\ Pair(result'[p])
  PROVE  PairInv'
<1>1. Issued \subseteq Issued'
  BY IssuedGrows
<1>2. ASSUME NEW p \in Processes PROVE Pair(cache[p])'
  <2>1. Pair(cache'[p])
    OBVIOUS
  <2> QED BY <1>1, <2>1 DEF Pair, NoneReplaced
<1>3. ASSUME NEW p \in Processes PROVE Pair(candidate[p])'
  <2>1. Pair(candidate'[p])
    OBVIOUS
  <2> QED BY <1>1, <2>1 DEF Pair, NoneReplaced
<1>4. ASSUME NEW p \in Processes PROVE Pair(result[p])'
  <2>1. Pair(result'[p])
    OBVIOUS
  <2> QED BY <1>1, <2>1 DEF Pair, NoneReplaced
<1> QED BY <1>2, <1>3, <1>4 DEF PairInv

\* The same, for a step of a transaction that goes on.
LEMMA PairGoesOn ==
  ASSUME IInv, Aside, result' = result, UNCHANGED <<issued, epoch>>, NoneReplaced
  PROVE  PairInv'
<1>1. issued \in Docs /\ issued' \in Docs /\ issued <= issued'
  BY BoundsAssumption DEF IInv, TypeOK, Docs
<1>2. \A p \in Processes :
        Pair(cache'[p]) /\ Pair(candidate'[p]) /\ Pair(result'[p])
  BY DEF IInv, PairInv, Aside
<1> QED BY <1>1, <1>2, PairMoves

LEMMA FewerDue ==
  ASSUME due' \subseteq due, replaced' = replaced PROVE NoneReplaced
BY DEF NoneReplaced

\* The directory of a transaction in its writing phase.
LEMMA OneJournal ==
  ASSUME TypeOK, NEW j, dir = Only(j), j # NoJournal
  PROVE  j \in Journals /\ Art(dir) = {j} /\ dir.journal = j /\ dir.orphans = {}
<1>1. dir.journal = j /\ dir.orphans = {}
  BY DEF Only
<1> QED BY <1>1 DEF TypeOK, Dirs, Art

-----------------------------------------------------------------------------
\* The recovery keeps what the file and its journal lead to.
LEMMA PrepareJournalInv ==
  ASSUME IInv, PrepareJournal
  PROVE  DiskInv' /\ PairInv' /\ TxInv' /\ FloorInv'
<1> USE DEF IInv
<1>0. /\ Aside /\ UNCHANGED <<file, saved, replaced, issued, epoch>>
      /\ tx.step = "prepare" /\ GoTo("recover")
      /\ savedDir' = IF dir' = dir THEN savedDir ELSE dir'
  BY DEF PrepareJournal, AuthorityIdle
<1>1. /\ tx'.step = "recover" /\ tx'.by = tx.by /\ tx'.kind = tx.kind
      /\ tx'.src = tx.src /\ tx'.out = tx.out /\ refresh' = refresh
      /\ result' = result
  BY <1>0, GoToFields DEF Steps
<1>2. tx.src = NoDoc /\ tx.out = "target" /\ tx # NoTx /\ tx' # NoTx /\ TxShape
  BY <1>0, <1>1 DEF TxInv, TxShape, NoTx
<1>3. FloorInv'
  BY <1>0, <1>1, GoOnKeeps
<1>4. ASSUME dir'.orphans = {} PROVE TxInv'
  <2>1. TxShape'
    BY <1>1, <1>2 DEF TxShape, Asking
  <2>2. NewInv' /\ AskInv' /\ WriteInv'
    BY <1>1, <1>2, <1>4 DEF NewInv, AskInv, WriteInv, Asking, Writing, Dropping
  <2> QED BY <2>1, <2>2 DEF TxInv
<1>5. CASE Applicable = {} /\ dir' = NoDir /\ due' = due
  <2>1. Whole
    <3>1. ~Whole => dir.journal \in Art(dir) /\ AppliesTo(file, dir.journal)
      BY DEF DiskInv, TornInv, Art
    <3> QED BY <1>5, <3>1 DEF Applicable, Artifacts, Applies, Art, AppliesTo
  <2>2. file.form = "full" => file.doc \in due
    BY <1>5, <2>1 DEF DiskInv, WholeInv, Sound, Applicable, Artifacts, Applies, Art,
       AppliesTo
  <2>3. savedDir' = savedDir \/ savedDir' = NoDir
    BY <1>0, <1>5
  <2>4. DirInv'
    BY <1>0, <1>5, <2>3, ArtOf DEF DiskInv, DirInv, OneArtifact, NoDir
  <2>5. Sound(file, dir)' /\ Sound(file, savedDir)'
    BY <1>0, <1>5, <2>1, <2>2, <2>3, ArtOf DEF DiskInv, WholeInv, Sound
  <2>6. Whole' /\ DueInv' /\ TornInv'
    BY <1>0, <1>5, <2>1 DEF Whole, DiskInv, DueInv, TornInv, Issued
  <2>7. WholeInv'
    BY <1>0, <1>5, <2>1, <2>5 DEF DiskInv, WholeInv, Top, Issued
  <2>8. PairInv'
    BY <1>0, <1>1, <1>5, FewerDue, PairGoesOn
  <2> QED BY <1>3, <1>4, <1>5, <2>4, <2>6, <2>7, <2>8 DEF DiskInv, NoDir
<1>6. ASSUME NEW j \in Applicable, dir' = Only(j),
             due' = IF dir' = dir THEN due ELSE {j.tgt}
      PROVE  DiskInv' /\ PairInv' /\ TxInv' /\ FloorInv'
  <2>1. j \in Art(dir) /\ j \in Journals /\ AppliesTo(file, j) /\ j # NoJournal
    BY ArtOf DEF Applicable, Artifacts, Applies, Art, AppliesTo, TypeOK, Dirs
  <2>2. TxInv'
    BY <1>4, <1>6 DEF Only
  <2>3. CASE dir' = dir
    <3>1. DiskInv'
      BY <1>0, <1>6, <2>3, DiskFrame DEF diskVars, pastVars
    <3>2. PairInv'
      BY <1>0, <1>1, <1>6, <2>3, FewerDue, PairGoesOn
    <3> QED BY <1>3, <2>2, <3>1, <3>2
  <2>4. CASE dir' # dir
    <3>1. dir \in Dirs /\ OneArtifact(dir)
      BY DEF TypeOK, DiskInv, DirInv
    <3>2. dir = Left(j) /\ Art(dir) = {j}
      BY <1>6, <2>1, <2>4, <3>1, DirShape, ArtOf
    <3>3. Whole
      BY <3>2 DEF DiskInv, TornInv, Left
    <3>4. j.tgt \in due /\ file.form = "full"
      BY <2>1, <3>3 DEF DiskInv, WholeInv, Sound, AppliesTo, Whole
    <3>5. due' = {j.tgt} /\ savedDir' = Only(j) /\ Art(Only(j)) = {j}
      BY <1>0, <1>6, <2>1, <2>4, ArtOf
    <3>6. DirInv'
      BY <1>0, <1>6, <2>1, <3>2, <3>5, SMTT(60) DEF DiskInv, DirInv, OneArtifact, Only
    <3>7. Whole' /\ DueInv' /\ TornInv'
      BY <1>0, <3>3, <3>4, <3>5 DEF Whole, DiskInv, DueInv, TornInv, Issued
    <3>8. Sound(file, dir)' /\ Sound(file, savedDir)'
      BY <1>0, <1>6, <2>1, <3>5 DEF Sound
    <3>9. WholeInv'
      BY <1>0, <3>3, <3>4, <3>8 DEF DiskInv, WholeInv, Top, Issued
    <3>10. PairInv'
      BY <1>0, <1>1, <3>4, <3>5, FewerDue, PairGoesOn
    <3> QED BY <1>3, <2>2, <3>6, <3>7, <3>9, <3>10 DEF DiskInv
  <2> QED BY <2>3, <2>4
<1> QED BY <1>5, <1>6 DEF PrepareJournal, NoDir, Only

LEMMA RecoverJournalInv ==
  ASSUME IInv, RecoverJournal
  PROVE  DiskInv' /\ PairInv' /\ TxInv' /\ FloorInv'
<1> USE DEF IInv
<1> DEFINE j == dir.journal
<1>0. /\ Aside /\ UNCHANGED <<file, dir, savedDir, replaced, issued, epoch>>
      /\ tx.step = "recover" /\ issued \in Docs
  BY DEF RecoverJournal, AuthorityIdle, TypeOK
<1>1. /\ tx.src = NoDoc /\ tx.out = "target" /\ tx # NoTx /\ TxShape
      /\ tx.kind \in {"refresh", "cleanup"} /\ dir.orphans = {}
      /\ tx.kind = "refresh" => refresh[tx.by] = "locked"
      /\ tx.by \in Processes
  BY <1>0 DEF TxInv, TxShape, AskInv, NoTx
<1>2. dir = Only(j) /\ (j = NoJournal => dir = NoDir)
  BY <1>1 DEF TypeOK, Dirs, Only, NoDir
<1>3. j # NoJournal =>
        /\ j \in Journals /\ Art(dir) = {j} /\ j.src < j.tgt /\ j.tgt <= issued
        /\ epoch[j.src] = epoch[j.tgt] /\ j.src \in Docs /\ j.tgt \in Docs
  BY <1>2, OneJournal DEF DiskInv, DirInv, Journals
<1>4. ASSUME GoTo("drop"), DiskInv', Whole', file'.form = "full" => file'.doc \in due',
             NoneReplaced
      PROVE  DiskInv' /\ PairInv' /\ TxInv' /\ FloorInv'
  <2>1. /\ tx'.step = "drop" /\ tx'.by = tx.by /\ tx'.kind = tx.kind
        /\ tx'.src = tx.src /\ tx'.out = tx.out /\ refresh' = refresh
        /\ result' = result
    BY <1>4, GoToFields DEF Steps
  <2>2. TxShape'
    BY <1>0, <1>1, <2>1, ShapeGoesOn DEF Asking
  <2>3. NewInv' /\ AskInv'
    BY <1>1, <2>1 DEF NewInv, AskInv, Asking
  <2>4. WriteInv'
    BY <1>0, <1>1, <1>4, <2>1 DEF WriteInv, Writing, Dropping
  <2> QED BY <1>0, <1>4, <2>1, <2>2, <2>3, <2>4, GoOnKeeps, PairGoesOn DEF TxInv
<1>5. CASE j = NoJournal
  <2>1. Recovered /\ UNCHANGED <<saved, due>>
    BY <1>5 DEF RecoverJournal
  <2>2. UNCHANGED <<diskVars, pastVars, issued, epoch>>
    BY <1>0, <2>1 DEF diskVars, pastVars
  <2>3. CASE Finish(Failed)
    BY <1>0, <2>2, <2>3, FailedResult, FinishInv
  <2>4. CASE GoTo("read") /\ tx.kind = "refresh"
    <3>1. /\ tx'.step = "read" /\ tx'.by = tx.by /\ tx'.kind = tx.kind
          /\ tx'.src = tx.src /\ refresh' = refresh /\ result' = result
      BY <2>4, GoToFields DEF Steps
    <3>2. TxShape'
      BY <1>1, <2>4, <3>1 DEF TxShape, NoTx, Asking
    <3>3. NewInv' /\ AskInv' /\ WriteInv'
      BY <1>0, <1>1, <1>2, <1>5, <3>1 DEF NewInv, AskInv, WriteInv, Asking, Writing,
         Dropping
    <3> QED BY <1>0, <2>2, <3>1, <3>2, <3>3, GoOnInv DEF TxInv
  <2> QED BY <1>1, <2>1, <2>3, <2>4 DEF Recovered
<1>6. CASE j # NoJournal /\ file = Full(j.tgt)
  <2>1. saved' = file /\ due' = {j.tgt} /\ GoTo("drop")
    BY <1>6 DEF RecoverJournal
  <2>2. file.form = "full" /\ file.doc = j.tgt /\ AppliesTo(file, j)
    BY <1>6 DEF Full, AppliesTo
  <2>3. j.tgt \in due
    BY <1>3, <1>6, <2>2 DEF DiskInv, WholeInv, Sound, TornInv
  <2>4. file.doc \in Issued /\ Top(file.doc)
    BY <2>2, FileFull DEF TypeOK
  <2>5. Whole' /\ DirInv' /\ DueInv' /\ TornInv'
    BY <1>0, <2>1, <2>2, <2>3 DEF Whole, DiskInv, DirInv, DueInv, TornInv, Issued, Art,
       OneArtifact
  <2>6. \A b \in Art(savedDir) : b = j \/ ~AppliesTo(file, b)
    <3> SUFFICES ASSUME NEW b \in Art(savedDir), b # j PROVE ~AppliesTo(file, b)
      OBVIOUS
    <3>1. b.tgt < j.tgt /\ b.src < b.tgt /\ b \in Journals
      BY <1>3, <1>6 DEF DiskInv, DirInv, Art, TypeOK, Dirs
    <3> QED BY <2>2, <3>1, <1>3, <1>6, BoundsAssumption DEF AppliesTo, Journals, Docs
  <2>7. Sound(file, dir)' /\ Sound(file, savedDir)'
    BY <1>0, <1>3, <1>6, <2>1, <2>2, <2>6 DEF Sound, Art, AppliesTo
  <2>8. WholeInv'
    BY <1>0, <2>2, <2>4, <2>5, <2>7 DEF WholeInv, Top, Issued
  <2>9. NoneReplaced
    BY <1>0, <2>1, <2>3, FewerDue
  <2> QED BY <1>0, <1>4, <2>1, <2>2, <2>5, <2>8, <2>9 DEF DiskInv
<1>7. CASE j # NoJournal /\ file # Full(j.tgt) /\ Applies(j)
  <2>1. /\ tx' = [tx EXCEPT !.step = "truncate", !.same = TRUE, !.new = j.tgt]
        /\ UNCHANGED <<saved, due, refresh, result>>
    BY <1>7 DEF RecoverJournal
  <2>2. /\ tx'.step = "truncate" /\ tx'.by = tx.by /\ tx'.kind = tx.kind
        /\ tx'.src = tx.src /\ tx'.same = TRUE /\ tx'.new = j.tgt
    BY <2>1 DEF TypeOK
  <2>3. AppliesTo(file, j)
    BY <1>7 DEF Applies, AppliesTo
  <2>4. j.tgt \in due
    BY <1>3, <1>7, <2>3 DEF DiskInv, WholeInv, Sound, TornInv, Whole, AppliesTo
  <2>5. file.form = "full" => Top(j.tgt)
    <3>1. CASE Whole
      <4> SUFFICES ASSUME file.form = "full" PROVE Top(j.tgt)
        OBVIOUS
      <4>1. file = Full(j.src)
        BY <1>7, <2>3, FileShape DEF AppliesTo, TypeOK
      <4> QED BY <1>3, <1>7, <4>1, FileFull DEF Top, Full, TypeOK
    <3>2. CASE ~Whole
      BY <3>2 DEF DiskInv, TornInv
    <3> QED BY <3>1, <3>2
  <2>6. file = Full(j.src) => Whole
    <3> SUFFICES ASSUME file = Full(j.src), ~Whole PROVE FALSE
      OBVIOUS
    <3>1. file # saved
      BY DEF Whole, Full
    <3> QED BY <1>7, <3>1 DEF DiskInv, TornInv, Full, Empty, Part
  <2>7. TxShape'
    BY <1>0, <1>1, <2>1, <2>2, ShapeGoesOn DEF Asking
  <2>8. NewInv' /\ AskInv'
    BY <1>1, <2>2 DEF NewInv, AskInv, Asking
  <2>9. WriteInv'
    <3>1. Whole' = Whole /\ Top(j.tgt)' = Top(j.tgt)
      BY <1>0, <2>1 DEF Whole, Top, Issued
    <3>2. dir' = dir /\ file' = file /\ due' = due /\ tx'.src = NoDoc
      BY <1>0, <1>1, <2>1, <2>2
    <3> QED BY <1>2, <1>7, <2>2, <2>3, <2>4, <2>5, <2>6, <3>1, <3>2
       DEF WriteInv, Writing, Dropping, Top, Issued
  <2> QED BY <1>0, <2>1, <2>7, <2>8, <2>9, GoOnInv DEF TxInv, diskVars, pastVars
<1>8. CASE j # NoJournal /\ file # Full(j.tgt) /\ ~Applies(j)
  <2>1. GoTo("drop") /\ UNCHANGED <<saved, due>>
    BY <1>8 DEF RecoverJournal
  <2>2. ~AppliesTo(file, j)
    BY <1>8 DEF Applies, AppliesTo
  <2>3. Whole
    BY <2>2 DEF DiskInv, TornInv
  <2>4. file.form = "full" => file.doc \in due
    BY <1>3, <1>8, <2>2, <2>3 DEF DiskInv, WholeInv, Sound
  <2>5. DiskInv' /\ Whole'
    BY <1>0, <2>1, <2>3, DiskFrame DEF diskVars, pastVars, Whole
  <2>6. NoneReplaced
    BY <1>0, <2>1, FewerDue
  <2> QED BY <1>0, <1>4, <2>1, <2>4, <2>5, <2>6
<1> QED BY <1>5, <1>6, <1>7, <1>8

-----------------------------------------------------------------------------
\* A refresh: its successor is newer than all that was issued, and becomes due
\* with the journal that leads to it.
LEMMA Successor ==
  ASSUME IInv, tx.step \in Asking
  PROVE  /\ tx.src \in Issued /\ tx.doc \in Issued /\ tx.src <= tx.doc
         /\ epoch[tx.src] = epoch[tx.doc] /\ tx.doc \notin replaced
         /\ Whole /\ tx.src # NoDoc /\ TxShape
         /\ IF tx.same THEN file = Full(tx.src) ELSE Later(tx.doc)
<1>1. Pair([doc |-> tx.doc, at |-> tx.src]) /\ tx.src # NoDoc
  BY DEF IInv, TxInv, TxShape, AskInv
<1> QED BY <1>1 DEF IInv, TxInv, AskInv, Pair

LEMMA RefreshSucceedsInv ==
  ASSUME IInv, RefreshSucceeds
  PROVE  DiskInv' /\ PairInv' /\ TxInv' /\ FloorInv'
<1> USE DEF IInv
<1> DEFINE n == issued + 1
<1>0. /\ tx.step = "request" /\ issued' = n /\ epoch' = [epoch EXCEPT ![n] = epoch[tx.doc]]
      /\ tx' = [tx EXCEPT !.step = "temp", !.new = n] /\ n \in Docs /\ issued \in Docs
      /\ UNCHANGED <<diskVars, refresh, result, pastVars>> /\ Aside
  BY BoundsAssumption DEF RefreshSucceeds, TypeOK, Docs
<1>1. /\ tx.src \in Issued /\ tx.doc \in Issued /\ tx.src <= tx.doc
      /\ epoch[tx.src] = epoch[tx.doc] /\ tx.doc \notin replaced
      /\ Whole /\ tx.src # NoDoc /\ TxShape
      /\ IF tx.same THEN file = Full(tx.src) ELSE Later(tx.doc)
      /\ dir = NoDir
  BY <1>0, Successor DEF Asking, TxInv, AskInv
<1>2. /\ tx'.step = "temp" /\ tx'.by = tx.by /\ tx'.kind = tx.kind /\ tx'.doc = tx.doc
      /\ tx'.src = tx.src /\ tx'.new = n /\ tx'.same = tx.same
  BY <1>0 DEF TypeOK
<1>3. /\ \A d \in Issued : epoch'[d] = epoch[d] /\ d \in Docs /\ d < n /\ d \in Issued'
      /\ epoch'[n] = epoch[tx.doc] /\ n \in Issued'
      /\ \A d \in Issued' : d \in Issued \/ d = n
      /\ n \notin Issued
  BY <1>0, BoundsAssumption DEF TypeOK, Issued, Docs
<1>4. \A d \in Docs : epoch[d] \in Nat
  BY BoundsAssumption DEF TypeOK, Docs
<1>5. DirInv'
  <2>1. \A j \in Art(dir) \cup Art(savedDir) : j.src \in Issued /\ j.tgt \in Issued
    BY <1>0, BoundsAssumption DEF DiskInv, DirInv, TypeOK, Dirs, Journals, Art, Issued, Docs
  <2>2. \A j \in Art(dir) \cup Art(savedDir) :
          j.tgt <= n /\ epoch'[j.src] = epoch'[j.tgt]
    BY <1>0, <1>3, <2>1, BoundsAssumption DEF DiskInv, DirInv, Issued, Docs
  <2> QED BY <1>0, <2>2 DEF DiskInv, DirInv, Art, OneArtifact, diskVars
<1>6. DueInv'
  <2>1. due' = due /\ replaced' = replaced
    BY <1>0 DEF pastVars
  <2>2. \A d \in Docs : epoch'[d] <= d
    BY <1>0, <1>1, <1>3, <1>4, BoundsAssumption DEF DiskInv, DueInv, TypeOK, Docs
  <2> QED BY <1>3, <2>1, <2>2 DEF DiskInv, DueInv
<1>7. Whole' /\ TornInv'
  BY <1>0, <1>1 DEF Whole, TornInv, diskVars
<1>8. WholeInv'
  <2>1. Sound(file, dir)' /\ Sound(file, savedDir)'
    BY <1>0, <1>1 DEF DiskInv, WholeInv, Sound, Art, diskVars, pastVars
  <2>2. file.form = "full" => file.doc \in Issued' /\ Top(file.doc)'
    <3> SUFFICES ASSUME file.form = "full" PROVE file.doc \in Issued' /\ Top(file.doc)'
      OBVIOUS
    <3>1. file.doc \in Issued /\ Top(file.doc)
      BY <1>1 DEF DiskInv, WholeInv
    <3>2. \A e \in Issued' : epoch'[e] <= epoch'[file.doc]
      BY <1>1, <1>3, <3>1 DEF Top
    <3>3. file' = file
      BY <1>0 DEF diskVars
    <3> QED BY <1>3, <3>1, <3>2, <3>3 DEF Top
  <2> QED BY <1>0, <1>1, <2>1, <2>2 DEF DiskInv, WholeInv, diskVars, pastVars
<1>9. PairInv'
  <2>1. issued \in Docs /\ issued' \in Docs /\ issued <= issued'
    BY <1>0, BoundsAssumption DEF Docs
  <2>2. NoneReplaced
    BY <1>0 DEF NoneReplaced, pastVars
  <2>3. \A p \in Processes :
          Pair(cache'[p]) /\ Pair(candidate'[p]) /\ Pair(result'[p])
    BY <1>0 DEF PairInv, Aside
  <2> QED BY <1>3, <2>1, <2>2, <2>3, PairMoves
<1>10. TxShape'
  BY <1>0, <1>1, <1>2, ShapeGoesOn DEF Asking
<1>11. NewInv'
  <2>1. \A d \in replaced : d < n
    BY <1>3 DEF DiskInv, DueInv
  <2> QED BY <1>0, <1>1, <1>2, <1>3, <2>1 DEF NewInv, pastVars
<1>12. AskInv'
  <2>1. dir' = NoDir /\ Whole' /\ file' = file /\ due' = due /\ replaced' = replaced
    BY <1>0, <1>1, <1>7 DEF diskVars, pastVars
  <2>2. Pair([doc |-> tx.doc, at |-> tx.src])'
    BY <1>1, <1>2, <1>3, <2>1 DEF Pair
  <2>3. IF tx'.same THEN file' = Full(tx'.src) ELSE Later(tx.doc)'
    BY <1>1, <1>2, <2>1 DEF Later
  <2>4. file # Full(n)
    BY <1>3, FileFull DEF Full, TypeOK
  <2>5. \A b \in Art(savedDir) : b.tgt < n
    BY <1>0, BoundsAssumption DEF DiskInv, DirInv, TypeOK, Dirs, Journals, Art, Docs
  <2>6. n \notin due
    BY <1>3 DEF DiskInv, DueInv
  <2>7. tx'.doc < tx'.new /\ tx'.doc \notin replaced'
    BY <1>1, <1>2, <1>3, <2>1
  <2>8. savedDir' = savedDir
    BY <1>0 DEF diskVars
  <2>9. \A b \in Art(savedDir') : b.tgt < tx'.new
    BY <1>2, <2>5, <2>8
  <2> QED BY <1>2, <2>1, <2>2, <2>3, <2>4, <2>6, <2>7, <2>9 DEF AskInv
<1>13. WriteInv'
  BY <1>2 DEF WriteInv, Writing, Dropping
<1>14. FloorInv'
  <2>1. \A p \in Processes :
          /\ candidate[p].at # NoDoc => candidate[p].at \in Issued
          /\ result[p].doc # NoDoc => result[p].doc \in Issued
    BY DEF PairInv, Pair
  <2>2. \A c \in Callers : Home[c] \in Processes
    BY HomeAssumption
  <2> QED BY <1>0, <1>3, <2>1, <2>2 DEF FloorInv, Aside, callVars
<1> QED BY <1>5, <1>6, <1>7, <1>8, <1>9, <1>10, <1>11, <1>12, <1>13, <1>14
   DEF DiskInv, TxInv

\* What the steps after the answer of the authority know of the successor.
LEMMA Newest ==
  ASSUME IInv, tx.step \in {"temp", "rename", "journalSync"}
  PROVE  /\ tx.src \in Issued /\ tx.doc \in Issued /\ tx.new \in Issued
         /\ tx.src <= tx.doc /\ tx.doc < tx.new /\ tx.src < tx.new
         /\ epoch[tx.new] = epoch[tx.src] /\ epoch[tx.src] = epoch[tx.doc]
         /\ tx.doc \notin replaced
         /\ \A d \in replaced : d < tx.new
         /\ \A b \in Art(savedDir) : b.tgt < tx.new
         /\ Whole /\ tx.src # NoDoc /\ TxShape
         /\ tx.same => file = Full(tx.src)
         /\ ~tx.same => Later(tx.doc) /\ file # Full(tx.new)
         /\ ThisJournal \in Journals /\ ThisJournal # NoJournal
         /\ ThisJournal.src = tx.src /\ ThisJournal.tgt = tx.new
         /\ Applies(ThisJournal) <=> AppliesTo(file, ThisJournal)
         /\ Art(Only(ThisJournal)) = {ThisJournal}
         /\ Art(Left(ThisJournal)) = {ThisJournal}
<1>1. tx.step \in Asking /\ tx.step # "request"
  BY DEF Asking
<1>2. ThisJournal \in Journals
  BY <1>1, Successor, JournalType DEF IInv
<1> QED BY <1>1, <1>2, Successor, ArtOf DEF IInv, TxInv, NewInv, AskInv, ThisJournal,
   Applies, AppliesTo

\* A journal applies to the file of its transaction, and to no other.
LEMMA OwnJournal ==
  ASSUME IInv, tx.step \in {"temp", "rename", "journalSync"}
  PROVE  Applies(ThisJournal) <=> tx.same
<1>1. CASE tx.same
  BY <1>1, Newest DEF AppliesTo, Full
<1>2. CASE ~tx.same
  <2>1. issued \in Docs /\ tx.src < tx.new /\ tx.src <= tx.doc
    BY Newest DEF IInv, TypeOK
  <2>2. file.form = "full" => file = Full(file.doc)
    BY FileShape DEF IInv, TypeOK
  <2>3. file = Missing \/ /\ file.form = "full" /\ tx.doc < file.doc
                          /\ file.doc # tx.new
    BY <1>2, <2>2, Newest DEF Later
  <2>4. file = Missing \/ /\ file.form = "full" /\ file.doc # tx.src
                          /\ file.doc # tx.new
    BY <2>1, <2>3, Newest, IssuedDocs, FileFull DEF IInv, TypeOK
  <2> QED BY <1>2, <2>4, Newest DEF AppliesTo, Missing
<1> QED BY <1>1, <1>2

LEMMA WriteTempInv ==
  ASSUME IInv, WriteTemp
  PROVE  DiskInv' /\ PairInv' /\ TxInv' /\ FloorInv'
<1> USE DEF IInv
<1> DEFINE k == ThisJournal
<1>0. /\ tx.step = "temp" /\ dir = NoDir /\ tx.new \notin due /\ Aside /\ GoTo("rename")
      /\ dir' = [dir EXCEPT !.orphans = @ \cup {k}]
      /\ UNCHANGED <<file, saved, savedDir, replaced, issued, epoch>>
      /\ issued \in Docs
  BY DEF WriteTemp, TxInv, AskInv, AuthorityIdle, TypeOK
<1>1. /\ tx'.step = "rename" /\ tx'.by = tx.by /\ tx'.kind = tx.kind
      /\ tx'.src = tx.src /\ tx'.same = tx.same /\ tx'.doc = tx.doc /\ tx'.new = tx.new
      /\ refresh' = refresh /\ result' = result
  BY <1>0, GoToFields DEF Steps
<1>2. due' = IF tx.same THEN due \cup {tx.new} ELSE due
  BY <1>0, OwnJournal DEF WriteTemp
<1>3. dir' = Left(k)
  BY <1>0 DEF NoDir, Left
<1>4. Art(dir') = {k}
  BY <1>0, <1>3, Newest
<1>5. tx.new \in Issued /\ tx.new \in Docs /\ \A d \in Issued : d \in Int
  BY <1>0, Newest, IssuedDocs
<1>6. Whole /\ (file.form = "full" => file.doc \in due)
  BY <1>0, Newest, ArtOf DEF DiskInv, WholeInv, Sound
<1>7. DirInv'
  <2>1. k.src < k.tgt /\ k.tgt <= issued /\ epoch[k.src] = epoch[k.tgt]
    BY <1>0, <1>5, Newest, BoundsAssumption DEF Issued, Docs
  <2>2. OneArtifact(dir')
    BY <1>0, <1>3, Newest DEF OneArtifact
  <2> QED BY <1>0, <1>4, <2>1, <2>2, Newest DEF DiskInv, DirInv, Art, OneArtifact
<1>8. DueInv'
  BY <1>0, <1>2, <1>5, Newest DEF DiskInv, DueInv, Issued
<1>9. Whole' /\ TornInv'
  BY <1>0, <1>6 DEF Whole, TornInv
<1>10. WholeInv'
  <2>1. AppliesTo(file, k) <=> tx.same
    BY <1>0, Newest, OwnJournal
  <2>2. Sound(file, dir)'
    BY <1>0, <1>2, <1>4, <1>6, <2>1, Newest DEF Sound, AppliesTo
  <2>3. Sound(file, savedDir)'
    BY <1>0, <1>2, <1>6 DEF DiskInv, WholeInv, Sound
  <2>4. file.form = "missing" => ~tx.same
    BY <1>0, Newest DEF Full
  <2> QED BY <1>0, <1>2, <1>6, <2>2, <2>3, <2>4 DEF DiskInv, WholeInv, Top, Issued
<1>11. PairInv'
  <2>1. NoneReplaced
    BY <1>0, <1>2, <1>5, Newest DEF NoneReplaced
  <2> QED BY <1>0, <1>1, <2>1, PairGoesOn
<1>12. TxShape' /\ WriteInv'
  BY <1>0, <1>1, Newest, ShapeGoesOn DEF WriteInv, Writing, Dropping
<1>13. NewInv'
  BY <1>0, <1>1, Newest DEF NewInv, Issued
<1>14. AskInv'
  <2>1. Pair([doc |-> tx.doc, at |-> tx.src])'
    BY <1>0, <1>1, Newest DEF Pair, Issued
  <2>2. file' = file /\ replaced' = replaced /\ savedDir' = savedDir /\ ThisJournal' = k
    BY <1>0, <1>1 DEF ThisJournal
  <2>3. ~tx.same => Later(tx.doc)'
    BY <1>0, <1>1, <1>2, Newest DEF Later
  <2>4. file.form = "full" => file.doc \in due'
    BY <1>2, <1>6
  <2> QED BY <1>0, <1>1, <1>3, <1>9, <2>1, <2>2, <2>3, <2>4, Newest DEF AskInv, Asking
<1> QED BY <1>0, <1>1, <1>7, <1>8, <1>9, <1>10, <1>11, <1>12, <1>13, <1>14, GoOnKeeps
   DEF DiskInv, TxInv

LEMMA RenameTempInv ==
  ASSUME IInv, RenameTemp
  PROVE  DiskInv' /\ PairInv' /\ TxInv' /\ FloorInv'
<1> USE DEF IInv
<1> DEFINE k == ThisJournal
<1>0. /\ tx.step = "rename" /\ dir = Left(k) /\ Aside /\ GoTo("journalSync")
      /\ dir' = [journal |-> k, orphans |-> dir.orphans \ {k}]
      /\ UNCHANGED <<file, saved, savedDir, due, replaced, issued, epoch>>
      /\ issued \in Docs
  BY DEF RenameTemp, TxInv, AskInv, AuthorityIdle, TypeOK, pastVars
<1>1. /\ tx'.step = "journalSync" /\ tx'.by = tx.by /\ tx'.kind = tx.kind
      /\ tx'.src = tx.src /\ tx'.same = tx.same /\ tx'.doc = tx.doc /\ tx'.new = tx.new
      /\ refresh' = refresh /\ result' = result
  BY <1>0, GoToFields DEF Steps
<1>2. dir' = Only(k) /\ dir'.orphans = {}
  BY <1>0 DEF Left, Only
<1>3. Art(dir') = Art(dir)
  BY <1>0, <1>2, Newest
<1>4. DirInv'
  BY <1>0, <1>2, <1>3 DEF DiskInv, DirInv, Art, OneArtifact
<1>5. Whole' /\ TornInv' /\ DueInv'
  BY <1>0, Newest DEF Whole, TornInv, DiskInv, DueInv, Issued
<1>6. WholeInv'
  BY <1>0, <1>3, Newest DEF DiskInv, WholeInv, Sound, Top, Issued, Art
<1>7. PairInv'
  BY <1>0, <1>1, FewerDue, PairGoesOn
<1>8. TxShape' /\ WriteInv'
  BY <1>0, <1>1, Newest, ShapeGoesOn DEF WriteInv, Writing, Dropping, Asking
<1>9. NewInv'
  BY <1>0, <1>1, Newest DEF NewInv, Issued
<1>10. AskInv'
  <2>1. Pair([doc |-> tx.doc, at |-> tx.src])'
    BY <1>0, <1>1, Newest DEF Pair, Issued
  <2>2. ThisJournal' = k
    BY <1>0, <1>1 DEF ThisJournal
  <2>3. ~tx.same => Later(tx.doc)'
    BY <1>0, <1>1, Newest DEF Later
  <2> QED BY <1>0, <1>1, <1>2, <1>5, <2>1, <2>2, <2>3, Newest DEF AskInv, Asking
<1> QED BY <1>0, <1>1, <1>4, <1>5, <1>6, <1>7, <1>8, <1>9, <1>10, GoOnKeeps
   DEF DiskInv, TxInv

\* The sync of the journal makes the successor due, and replaces its document.
LEMMA SyncJournalInv ==
  ASSUME IInv, SyncJournal
  PROVE  DiskInv' /\ PairInv' /\ TxInv' /\ FloorInv'
<1> USE DEF IInv
<1> DEFINE k == ThisJournal
<1>0. /\ tx.step = "journalSync" /\ dir = Only(k) /\ Aside /\ GoTo("recheck")
      /\ savedDir' = dir /\ replaced' = replaced \cup {tx.doc}
      /\ UNCHANGED <<file, saved, dir, issued, epoch>>
      /\ issued \in Docs
  BY DEF SyncJournal, TxInv, AskInv, AuthorityIdle, TypeOK
<1>1. /\ tx'.step = "recheck" /\ tx'.by = tx.by /\ tx'.kind = tx.kind
      /\ tx'.src = tx.src /\ tx'.same = tx.same /\ tx'.doc = tx.doc /\ tx'.new = tx.new
      /\ refresh' = refresh /\ result' = result
  BY <1>0, GoToFields DEF Steps
<1>2. due' = IF tx.same THEN {tx.new} ELSE due
  BY <1>0, OwnJournal DEF SyncJournal
<1>3. Art(dir) = {k} /\ (AppliesTo(file, k) <=> tx.same) /\ (tx.same => file.form = "full")
  BY <1>0, Newest, OwnJournal DEF Full
<1>4. tx.same => tx.new \in due
  BY <1>0, <1>3, Newest DEF DiskInv, WholeInv, Sound
<1>5. DirInv'
  BY <1>0, <1>3 DEF DiskInv, DirInv, OneArtifact, Art
<1>6. ~tx.same => \/ file = Missing
                  \/ file.form = "full" /\ due = {file.doc} /\ tx.doc < file.doc
                     /\ file.doc # tx.new /\ file.doc # tx.src
  <2> SUFFICES ASSUME ~tx.same, file # Missing
               PROVE  file.form = "full" /\ due = {file.doc} /\ tx.doc < file.doc
                      /\ file.doc # tx.new /\ file.doc # tx.src
    OBVIOUS
  <2>1. file.form = "full" /\ due = {file.doc} /\ tx.doc < file.doc
    BY <1>0, Newest DEF Later
  <2>2. file.doc # tx.new /\ file.doc # tx.src
    BY <1>0, <1>3, <2>1, Newest DEF AppliesTo
  <2> QED BY <2>1, <2>2
<1>7. file = Missing => due = {}
  BY <1>0, Newest DEF DiskInv, WholeInv, Missing
<1>8. \A d \in Issued : d <= tx.doc => d \notin due'
  BY <1>0, <1>2, <1>6, <1>7, Newest, IssuedDocs, FileFull DEF TypeOK
<1>9. DueInv'
  <2>1. due' \subseteq due
    BY <1>2, <1>4
  <2>2. tx.doc \notin due' /\ tx.doc \in Issued
    BY <1>0, <1>8, Newest, IssuedDocs
  <2> QED BY <1>0, <2>1, <2>2 DEF DiskInv, DueInv, Issued
<1>10. Whole' /\ TornInv'
  BY <1>0, Newest DEF Whole, TornInv
<1>11. WholeInv'
  <2>1. Sound(file, dir)'
    BY <1>0, <1>2, <1>3, <1>6, <1>7, Newest DEF Sound, Art, AppliesTo, Missing
  <2>2. Sound(file, savedDir)'
    BY <1>0, <2>1 DEF Sound
  <2>3. file.form = "missing" => due' = {}
    BY <1>2, <1>3, <1>0, Newest DEF DiskInv, WholeInv
  <2> QED BY <1>0, <2>1, <2>2, <2>3, Newest DEF DiskInv, WholeInv, Top, Issued
<1>12. PairInv'
  <2>1. NoneReplaced
    BY <1>0, <1>2, <1>4, <1>8 DEF NoneReplaced
  <2> QED BY <1>0, <1>1, <2>1, PairGoesOn
<1>13. TxShape' /\ AskInv'
  BY <1>0, <1>1, Newest, ShapeGoesOn DEF AskInv, Asking
<1>14. NewInv'
  BY <1>0, <1>1, Newest DEF NewInv, Issued
<1>15. WriteInv'
  <2>1. ThisJournal' = k
    BY <1>1 DEF ThisJournal
  <2>2. ~tx.same => Replaced({tx.src, tx.new})'
    BY <1>0, <1>1, <1>2, <1>6 DEF Replaced
  <2> QED BY <1>0, <1>1, <1>10, <2>1, <2>2, Newest DEF WriteInv, Writing, Dropping
<1> QED BY <1>0, <1>1, <1>5, <1>9, <1>10, <1>11, <1>12, <1>13, <1>14, <1>15, GoOnKeeps
   DEF DiskInv, TxInv

\* The successor that could not be written stays in memory; its orphan goes.
LEMMA PersistFailsInv ==
  ASSUME IInv, PersistFails
  PROVE  DiskInv' /\ PairInv' /\ TxInv' /\ FloorInv'
<1> USE DEF IInv
<1> DEFINE k == ThisJournal
<1> DEFINE r == Served(tx.new, tx.src)
<1>0. /\ tx.step \in {"temp", "rename", "journalSync", "recheck", "truncate", "write",
                      "sync"}
      /\ tx.src # NoDoc /\ Aside /\ Finish(r)
      /\ dir' = [dir EXCEPT !.orphans = @ \ {k}]
      /\ UNCHANGED <<file, saved, savedDir, due, replaced, issued, epoch>>
      /\ issued \in Docs /\ dir \in Dirs
  BY DEF PersistFails, AuthorityIdle, TypeOK, pastVars
<1>1. /\ tx.src \in Issued /\ tx.new \in Issued /\ tx.src < tx.new
      /\ epoch[tx.new] = epoch[tx.src] /\ \A d \in replaced : d < tx.new
  BY <1>0 DEF TxInv, NewInv
<1>2. r \in Results /\ Pair(r)
  BY <1>0, <1>1, IssuedDocs DEF Served, Result, Results, MaybeDoc, Pair
<1>3. /\ TxInv' /\ FloorInv'
      /\ \A p \in Processes :
           Pair(cache'[p]) /\ Pair(candidate'[p]) /\ Pair(result'[p])
  BY <1>0, <1>2, FinishKeeps DEF Aside, callVars
<1>4. PairInv'
  BY <1>0, <1>3, PairKeep DEF pastVars
<1>5. CASE tx.step = "rename"
  <2>1. dir = Left(k) /\ Whole /\ (file.form = "full" => file.doc \in due)
    BY <1>5 DEF TxInv, AskInv, Asking
  <2>2. dir' = NoDir
    BY <1>0, <2>1 DEF Left, NoDir
  <2>3. DirInv'
    <3>1. dir'.orphans = {} /\ dir'.journal = NoJournal
      BY <2>2 DEF NoDir
    <3>2. Art(dir') = {} /\ Art(savedDir') = Art(savedDir)
      BY <1>0, <3>1 DEF Art
    <3>3. OneArtifact(dir') /\ OneArtifact(savedDir')
      BY <1>0, <3>1 DEF DiskInv, DirInv, OneArtifact
    <3> QED BY <1>0, <3>2, <3>3 DEF DiskInv, DirInv
  <2>4. DueInv' /\ Whole' /\ TornInv'
    BY <1>0, <2>1 DEF DiskInv, DueInv, Whole, TornInv, Issued
  <2>5. WholeInv'
    BY <1>0, <2>1, <2>2, ArtOf DEF DiskInv, WholeInv, Sound, Top, Issued
  <2> QED BY <1>3, <1>4, <2>3, <2>4, <2>5 DEF DiskInv
<1>6. CASE tx.step # "rename"
  <2>1. dir.orphans = {}
    BY <1>0, <1>6 DEF TxInv, AskInv, WriteInv, Writing, NoDir, Only
  <2>2. dir' = dir
    BY <1>0, <2>1 DEF Dirs
  <2> QED BY <1>0, <1>3, <1>4, <2>2, DiskFrame DEF diskVars, pastVars
<1> QED BY <1>5, <1>6

-----------------------------------------------------------------------------
\* Writing the file, of a refresh or of a recovery: it is torn until its sync,
\* and its journal leads to the target all the time.
LEMMA Written ==
  ASSUME IInv, tx.step \in Writing
  PROVE  LET j == dir.journal IN
         /\ TxShape /\ tx.step # "none" /\ issued \in Docs
         /\ dir = Only(j) /\ dir.orphans = {} /\ j \in Journals /\ j # NoJournal
         /\ Art(dir) = {j} /\ j.tgt = tx.new /\ j.src < j.tgt /\ j.tgt \in Issued
         /\ epoch[j.src] = epoch[j.tgt]
         /\ tx.src # NoDoc => j.src = tx.src
         /\ tx.same => AppliesTo(file, j) /\ tx.new \in due
                       /\ (file.form = "full" => Top(tx.new))
         /\ ~tx.same => Whole /\ Replaced({j.src, j.tgt})
<1> USE DEF IInv
<1> DEFINE j == dir.journal
<1>1. /\ dir = Only(j) /\ j # NoJournal /\ j.tgt = tx.new
      /\ tx.src # NoDoc => j.src = tx.src
      /\ tx.same => AppliesTo(file, j) /\ tx.new \in due
                    /\ (file.form = "full" => Top(tx.new))
      /\ ~tx.same => Whole /\ Replaced({j.src, j.tgt})
  BY DEF TxInv, WriteInv
<1>2. j \in Journals /\ Art(dir) = {j} /\ dir.orphans = {}
  BY <1>1, OneJournal
<1>3. j.src < j.tgt /\ j.tgt \in Issued /\ epoch[j.src] = epoch[j.tgt]
  BY <1>2, BoundsAssumption DEF DiskInv, DirInv, Issued, Journals, Docs
<1> QED BY <1>1, <1>2, <1>3 DEF TxInv, Writing, TypeOK

LEMMA TruncateFileInv ==
  ASSUME OrderedMetadata = TRUE, IInv, TruncateFile
  PROVE  DiskInv' /\ PairInv' /\ TxInv' /\ FloorInv'
<1> USE DEF IInv
<1> DEFINE j == dir.journal
<1>0. /\ tx.step = "truncate" /\ Aside /\ GoTo("write")
      /\ UNCHANGED <<saved, dir, due, replaced, issued, epoch>>
  BY DEF TruncateFile, AuthorityIdle, pastVars
<1>1. /\ tx'.step = "write" /\ tx'.by = tx.by /\ tx'.kind = tx.kind
      /\ tx'.src = tx.src /\ tx'.same = tx.same /\ tx'.doc = tx.doc /\ tx'.new = tx.new
      /\ refresh' = refresh /\ result' = result
  BY <1>0, GoToFields DEF Steps
<1>w. tx.step \in Writing
  BY <1>0 DEF Writing
<1>2. TxShape' /\ AskInv'
  BY <1>1, <1>w, Written, ShapeGoesOn DEF AskInv, Asking
<1>3. NewInv'
  BY <1>0, <1>1 DEF TxInv, NewInv, Issued
<1>4. PairInv'
  BY <1>0, <1>1, FewerDue, PairGoesOn
<1>5. CASE ~tx.same
  <2>1. file' = file /\ savedDir' = savedDir
    BY <1>5 DEF TruncateFile
  <2>2. DiskInv'
    BY <1>0, <2>1, DiskFrame DEF diskVars, pastVars
  <2>3. WriteInv'
    BY <1>0, <1>1, <1>5, <1>w, <2>1, Written DEF WriteInv, Writing, Dropping, Whole,
       Replaced
  <2> QED BY <1>0, <1>1, <1>2, <1>3, <1>4, <2>2, <2>3, GoOnKeeps DEF TxInv
<1>6. CASE tx.same
  <2>1. file' = Empty /\ savedDir' = dir
    BY <1>6 DEF TruncateFile
  <2>2. AppliesTo(file, j) /\ tx.new \in due
    BY <1>6, <1>w, Written
  <2>3. Top(tx.new)
    <3>1. CASE file.form = "full"
      BY <1>6, <1>w, <3>1, Written
    <3>2. CASE file.form # "full"
      <4>1. ~Whole
        BY <2>2, <3>2 DEF Whole, AppliesTo
      <4> QED BY <1>w, <4>1, Written DEF DiskInv, TornInv
    <3> QED BY <3>1, <3>2
  <2>4. AppliesTo(saved, j)
    BY <2>2 DEF DiskInv, TornInv, Whole
  <2>5. ~Whole'
    BY <2>1 DEF Whole, Empty
  <2>6. TornInv'
    <3>1. AppliesTo(file', j)
      BY <2>1 DEF AppliesTo, Empty
    <3> QED BY <1>0, <1>w, <2>1, <2>2, <2>3, <2>4, <3>1, Written DEF TornInv, AppliesTo, Top, Issued
  <2>7. DirInv'
    BY <1>0, <1>w, <2>1, Written DEF DiskInv, DirInv, OneArtifact, Art
  <2>8. DueInv' /\ WholeInv'
    BY <1>0, <2>5 DEF DiskInv, DueInv, WholeInv, Issued
  <2>9. WriteInv'
    <3>1. Top(tx.new)' /\ dir' = dir /\ due' = due
      BY <1>0, <1>1, <2>3 DEF Top, Issued
    <3>2. AppliesTo(file', j) /\ file'.form # "full"
      BY <2>1 DEF AppliesTo, Empty
    <3> QED BY <1>1, <1>6, <1>w, <2>1, <2>2, <3>1, <3>2, Written DEF WriteInv, Writing, Dropping
  <2> QED BY <1>0, <1>1, <1>2, <1>3, <1>4, <2>6, <2>7, <2>8, <2>9, GoOnKeeps
     DEF TxInv, DiskInv
<1> QED BY <1>5, <1>6

LEMMA WriteFileInv ==
  ASSUME IInv, WriteFile
  PROVE  DiskInv' /\ PairInv' /\ TxInv' /\ FloorInv'
<1> USE DEF IInv
<1> DEFINE j == dir.journal
<1>0. /\ tx.step = "write" /\ Aside /\ tx.step \in Writing
      /\ UNCHANGED <<saved, dir, savedDir, due, replaced, issued, epoch>>
  BY DEF WriteFile, AuthorityIdle, pastVars, Writing
<1>1. PICK s \in {"sync", "write"} :
        /\ GoTo(s)
        /\ s = "sync" => file' = (IF tx.same THEN Full(tx.new) ELSE file)
        /\ s = "write" => tx.same /\ file' = Part(tx.new)
  BY DEF WriteFile
<1>2. /\ tx'.step = s /\ tx'.by = tx.by /\ tx'.kind = tx.kind
      /\ tx'.src = tx.src /\ tx'.same = tx.same /\ tx'.doc = tx.doc /\ tx'.new = tx.new
      /\ refresh' = refresh /\ result' = result
  BY <1>1, GoToFields DEF Steps
<1>3. TxShape' /\ AskInv'
  BY <1>0, <1>1, <1>2, Written, ShapeGoesOn DEF AskInv, Asking
<1>4. NewInv'
  BY <1>0, <1>2 DEF TxInv, NewInv, Issued
<1>5. PairInv'
  BY <1>0, <1>2, FewerDue, PairGoesOn
<1>6. CASE ~tx.same
  <2>1. file' = file /\ s = "sync"
    BY <1>1, <1>6
  <2>2. DiskInv'
    BY <1>0, <2>1, DiskFrame DEF diskVars, pastVars
  <2>3. WriteInv'
    BY <1>0, <1>2, <1>6, <2>1, Written DEF WriteInv, Writing, Dropping, Whole, Replaced
  <2> QED BY <1>0, <1>2, <1>3, <1>4, <1>5, <2>2, <2>3, GoOnKeeps DEF TxInv
<1>7. CASE tx.same
  <2>1. file' \in {Full(tx.new), Part(tx.new)} /\ AppliesTo(file', j)
    BY <1>0, <1>1, <1>7, Written DEF AppliesTo, Full, Part
  <2>2. dir = savedDir /\ Top(tx.new) /\ file \in {Empty, Part(tx.new)} /\ tx.new \in due
    BY <1>0, <1>7, Written DEF TxInv, WriteInv
  <2>3. ~Whole
    BY <2>2 DEF Whole, Empty, Part
  <2>4. AppliesTo(saved, j)
    BY <2>3 DEF DiskInv, TornInv
  <2>5. DirInv' /\ DueInv'
    BY <1>0 DEF DiskInv, DirInv, DueInv, OneArtifact, Art, Issued
  <2>6. TornInv'
    BY <1>0, <2>1, <2>2, <2>4, Written DEF TornInv, AppliesTo, Top, Issued
  <2>7. WholeInv'
    <3> SUFFICES ASSUME Whole' PROVE WholeInv'
      BY DEF WholeInv
    <3>1. file' = Full(tx.new) /\ file'.form = "full" /\ file'.doc = tx.new
      BY <2>1 DEF Whole, Full, Part
    <3>2. Sound(file, dir)' /\ Sound(file, savedDir)'
      BY <1>0, <2>1, <2>2, <3>1, Written DEF Sound, AppliesTo, Art
    <3> QED BY <1>0, <2>2, <3>1, <3>2, Written DEF WholeInv, Top, Issued
  <2>8. WriteInv'
    <3>1. Top(tx.new)' /\ dir' = dir /\ due' = due /\ savedDir' = savedDir
      BY <1>0, <1>2, <2>2 DEF Top, Issued
    <3>2. s = "write" => file' = Part(tx.new)
      BY <1>1
    <3>3. s = "sync" => file' = Full(tx.new)
      BY <1>1, <1>7
    <3> QED BY <1>0, <1>2, <1>7, <2>1, <2>2, <3>1, <3>2, <3>3, Written
       DEF WriteInv, Writing, Dropping
  <2> QED BY <1>0, <1>2, <1>3, <1>4, <1>5, <2>5, <2>6, <2>7, <2>8, GoOnKeeps
     DEF TxInv, DiskInv
<1> QED BY <1>6, <1>7

LEMMA SyncFileInv ==
  ASSUME IInv, SyncFile
  PROVE  DiskInv' /\ PairInv' /\ TxInv' /\ FloorInv'
<1> USE DEF IInv
<1> DEFINE j == dir.journal
<1>0. /\ tx.step = "sync" /\ Aside /\ tx.step \in Writing
      /\ UNCHANGED <<file, dir, savedDir, replaced, issued, epoch>>
  BY DEF SyncFile, AuthorityIdle, Writing
<1>1. CASE ~tx.same /\ file = Missing
  <2>1. UNCHANGED <<diskVars, pastVars, issued, epoch>>
    BY <1>0, <1>1 DEF SyncFile, diskVars, pastVars
  <2>2. ASSUME NEW r \in {Failed, Current}, Finish(r)
        PROVE  DiskInv' /\ PairInv' /\ TxInv' /\ FloorInv'
    BY <1>0, <2>1, <2>2, FailedResult, CurrentPair, FinishInv
  <2> DEFINE r == IF tx.src = NoDoc THEN Failed ELSE Current
  <2>3. Finish(r) /\ r \in {Failed, Current}
    BY <1>1 DEF SyncFile
  <2> HIDE DEF r
  <2> QED BY <2>2, <2>3
<1>2. CASE ~(~tx.same /\ file = Missing)
  <2> DEFINE out == IF tx.same THEN "target" ELSE "look"
  <2>1. /\ tx' = [tx EXCEPT !.step = "drop", !.out = out]
        /\ UNCHANGED <<refresh, result>> /\ out # "found"
    BY <1>2 DEF SyncFile
  <2>2. /\ tx'.step = "drop" /\ tx'.by = tx.by /\ tx'.kind = tx.kind
        /\ tx'.src = tx.src /\ tx'.new = tx.new /\ tx'.out # "found"
    BY <2>1 DEF TypeOK
  <2>3. TxShape' /\ AskInv'
    BY <1>0, <2>1, <2>2, Written, ShapeGoesOn DEF AskInv, Asking
  <2>4. NewInv'
    BY <1>0, <2>2 DEF TxInv, NewInv, Issued
  <2>5. due' \subseteq due /\ (tx.same => due' = {tx.new}) /\ (~tx.same => due' = due)
        /\ saved' = IF tx.same THEN file ELSE saved
    BY <1>0, Written DEF SyncFile
  <2>6. PairInv'
    BY <1>0, <2>1, <2>5, FewerDue, PairGoesOn
  <2>7. DirInv' /\ DueInv'
    BY <1>0, <2>5 DEF DiskInv, DirInv, DueInv, OneArtifact, Art, Issued
  <2>8. CASE tx.same
    <3>1. /\ file = Full(tx.new) /\ file.form = "full" /\ file.doc = tx.new
          /\ dir = savedDir /\ Top(tx.new)
      BY <1>0, <2>8 DEF TxInv, WriteInv, Full
    <3>2. Whole' /\ TornInv'
      BY <1>0, <2>5, <2>8, <3>1 DEF Whole, TornInv
    <3>3. Sound(file, dir)' /\ Sound(file, savedDir)'
      BY <1>0, <2>5, <2>8, <3>1, Written DEF Sound, AppliesTo, Art
    <3>4. WholeInv'
      BY <1>0, <3>1, <3>3, Written DEF WholeInv, Top, Issued
    <3>5. WriteInv'
      BY <1>0, <2>2, <2>5, <2>8, <3>1, <3>2, Written DEF WriteInv, Writing, Dropping
    <3> QED BY <1>0, <2>1, <2>3, <2>4, <2>6, <2>7, <3>2, <3>4, <3>5, GoOnKeeps
       DEF TxInv, DiskInv
  <2>9. CASE ~tx.same
    <3>1. Whole /\ file.form = "full" /\ due = {file.doc}
      BY <1>0, <1>2, <2>9, Written DEF Replaced
    <3>2. DiskInv'
      BY <1>0, <2>5, <2>9, DiskFrame DEF diskVars, pastVars
    <3>3. WriteInv'
      BY <1>0, <2>2, <2>5, <2>9, <3>1, Written DEF WriteInv, Writing, Dropping, Whole
    <3> QED BY <1>0, <2>1, <2>3, <2>4, <2>6, <3>2, <3>3, GoOnKeeps DEF TxInv
  <2> QED BY <2>8, <2>9
<1> QED BY <1>1, <1>2

\* The journal goes once the file is whole and due by itself.
LEMMA DropJournalInv ==
  ASSUME IInv, DropJournal
  PROVE  DiskInv' /\ PairInv' /\ TxInv' /\ FloorInv'
<1> USE DEF IInv
<1>0. /\ tx.step = "drop" /\ Aside /\ GoTo("dropSync")
      /\ dir' = [dir EXCEPT !.journal = NoJournal] /\ dir \in Dirs
      /\ UNCHANGED <<file, saved, savedDir, due, replaced, issued, epoch>>
  BY DEF DropJournal, AuthorityIdle, pastVars, TypeOK
<1>1. /\ tx'.step = "dropSync" /\ tx'.by = tx.by /\ tx'.kind = tx.kind
      /\ tx'.src = tx.src /\ tx'.doc = tx.doc /\ tx'.new = tx.new /\ tx'.out = tx.out
      /\ refresh' = refresh /\ result' = result
  BY <1>0, GoToFields DEF Steps
<1>2. /\ dir.orphans = {} /\ Whole /\ (file.form = "full" => file.doc \in due)
      /\ tx.out = "found" => tx.doc \in Issued
  BY <1>0 DEF TxInv, WriteInv, Dropping
<1>3. dir' = NoDir /\ dir'.orphans = {} /\ dir'.journal = NoJournal
  BY <1>0, <1>2 DEF NoDir, Dirs
<1>4. Art(dir') = {} /\ Art(savedDir') = Art(savedDir)
  BY <1>0, <1>3 DEF Art
<1>5. DirInv'
  <2>1. OneArtifact(dir') /\ OneArtifact(savedDir')
    BY <1>0, <1>3 DEF DiskInv, DirInv, OneArtifact
  <2> QED BY <1>0, <1>4, <2>1 DEF DiskInv, DirInv
<1>6. Whole' /\ TornInv' /\ DueInv'
  BY <1>0, <1>2 DEF Whole, TornInv, DiskInv, DueInv, Issued
<1>7. WholeInv'
  BY <1>0, <1>2, <1>4 DEF DiskInv, WholeInv, Sound, Top, Issued
<1>8. TxShape'
  BY <1>0, <1>1, ShapeGoesOn DEF TxInv, Asking
<1>9. NewInv' /\ AskInv'
  BY <1>0, <1>1 DEF TxInv, NewInv, AskInv, Asking, Issued
<1>10. WriteInv'
  BY <1>0, <1>1, <1>2, <1>3, <1>6 DEF WriteInv, Writing, Dropping, Issued
<1>11. PairInv'
  BY <1>0, <1>1, FewerDue, PairGoesOn
<1> QED BY <1>0, <1>1, <1>5, <1>6, <1>7, <1>8, <1>9, <1>10, <1>11, GoOnKeeps
   DEF DiskInv, TxInv

LEMMA SyncDroppedInv ==
  ASSUME IInv, SyncDropped
  PROVE  DiskInv' /\ PairInv' /\ TxInv' /\ FloorInv'
<1> USE DEF IInv
<1>0. /\ tx.step = "dropSync" /\ Aside /\ savedDir' = dir /\ tx.step \in Dropping
      /\ UNCHANGED <<file, saved, dir, due, replaced, issued, epoch>>
  BY DEF SyncDropped, AuthorityIdle, pastVars, Dropping
<1>1. dir = NoDir /\ Whole /\ (file.form = "full" => file.doc \in due) /\ TxShape
  BY <1>0 DEF TxInv, WriteInv
<1>2. Art(dir) = {}
  BY <1>1, ArtOf
<1>3. DirInv'
  BY <1>0, <1>2 DEF DiskInv, DirInv, OneArtifact, Art
<1>4. Whole' /\ TornInv' /\ DueInv'
  BY <1>0, <1>1 DEF Whole, TornInv, DiskInv, DueInv, Issued
<1>5. WholeInv'
  BY <1>0, <1>1, <1>2 DEF DiskInv, WholeInv, Sound, Top, Issued, Art
<1>6. DiskInv'
  BY <1>3, <1>4, <1>5 DEF DiskInv
<1>7. ASSUME NEW r \in Results, Pair(r), Finish(r)
      PROVE  PairInv' /\ TxInv' /\ FloorInv'
  <2>1. /\ TxInv' /\ FloorInv'
        /\ \A p \in Processes :
             Pair(cache'[p]) /\ Pair(candidate'[p]) /\ Pair(result'[p])
    BY <1>0, <1>7, FinishKeeps DEF Aside, callVars
  <2> QED BY <1>0, <2>1, PairKeep DEF pastVars
<1>8. CASE tx.src # NoDoc
  <2>1. Finish(Outcome(TRUE))
    BY <1>8 DEF SyncDropped
  <2>2. Outcome(TRUE) \in Results /\ Pair(Outcome(TRUE))
    BY <1>0, <1>8, OutcomePair
  <2> QED BY <1>6, <1>7, <2>1, <2>2
<1>9. CASE tx.src = NoDoc /\ Finish(Failed)
  BY <1>6, <1>7, <1>9, FailedResult
<1>10. CASE tx.src = NoDoc /\ tx.kind # "cleanup" /\ GoTo("read")
  <2>1. /\ tx'.step = "read" /\ tx'.by = tx.by /\ tx'.kind = tx.kind
        /\ tx'.src = tx.src /\ refresh' = refresh /\ result' = result
    BY <1>10, GoToFields DEF Steps
  <2>2. tx # NoTx /\ tx' # NoTx
    BY <1>0, <2>1 DEF NoTx
  <2>3. TxShape'
    BY <1>1, <1>10, <2>1, <2>2 DEF TxShape, Asking
  <2>4. NewInv' /\ AskInv' /\ WriteInv'
    BY <1>0, <1>1, <1>10, <2>1 DEF NewInv, AskInv, WriteInv, Asking, Writing, Dropping
  <2>5. PairInv'
    BY <1>0, <2>1, FewerDue, PairGoesOn
  <2> QED BY <1>0, <1>6, <2>1, <2>3, <2>4, <2>5, GoOnKeeps DEF TxInv
<1> QED BY <1>8, <1>9, <1>10 DEF SyncDropped, Recovered

-----------------------------------------------------------------------------
\* A process takes the lock, looks at the file again and publishes.
LEMMA ProcessInv ==
  ASSUME IInv, NEW p \in Processes,
         AcquireLock(p) \/ LockTimeout(p) \/ Revalidate(p) \/ Publish(p)
  PROVE  DiskInv' /\ PairInv' /\ TxInv' /\ FloorInv'
<1> USE DEF IInv
<1>0. /\ TxShape /\ UNCHANGED <<diskVars, pastVars, issued, epoch>>
      /\ outdated = {} /\ issued \in Docs
  BY DEF TxInv, FloorInv, TypeOK, AcquireLock, LockTimeout, Revalidate, Publish, worldVars
<1>1. DiskInv'
  BY <1>0, DiskFrame
<1>c. \A c \in Callers : Home[c] \in Processes
  BY HomeAssumption
<1>2. CASE AcquireLock(p)
  <2>1. /\ tx'.by = p /\ tx'.kind = "refresh" /\ tx'.step = "prepare"
        /\ tx'.src = NoDoc /\ tx'.out = "target"
        /\ refresh' = [refresh EXCEPT ![p] = "locked"]
    BY <1>2 DEF AcquireLock, Begin, NoTx
  <2>2. TxShape'
    BY <2>1 DEF TxShape, NoTx, Asking, TypeOK
  <2>3. NewInv' /\ AskInv' /\ WriteInv'
    BY <2>1 DEF NewInv, AskInv, WriteInv, Asking, Writing, Dropping
  <2>4. PairInv'
    BY <1>0, <1>2, PairFrame DEF AcquireLock
  <2>5. FloorInv'
    BY <1>c, <1>2, <2>1 DEF AcquireLock, FloorInv, TypeOK, callVars, worldVars
  <2> QED BY <1>1, <2>2, <2>3, <2>4, <2>5 DEF TxInv
<1>3. CASE LockTimeout(p)
  <2>1. TxInv'
    <3>1. tx # NoTx /\ tx.kind = "refresh" => refresh'[tx.by] = "locked"
      BY <1>0, <1>3 DEF LockTimeout, TxShape, TypeOK
    <3> QED BY <1>0, <1>3, <3>1, TxFrame DEF LockTimeout
  <2>2. PairInv'
    <3>1. \A q \in Processes : Pair(result'[q])
      BY <1>3, FailedResult DEF LockTimeout, TypeOK, PairInv
    <3> QED BY <1>0, <1>3, <3>1, PairKeep DEF LockTimeout, PairInv
  <2>3. FloorInv'
    <3>1. /\ result'[p].err /\ refresh'[p] = "publish"
          /\ \A q \in Processes : q # p =>
               result'[q] = result[q] /\ refresh'[q] = refresh[q]
      BY <1>3 DEF LockTimeout, TypeOK, Failed, Result
    <3> QED BY <1>c, <1>3, <3>1 DEF LockTimeout, FloorInv, callVars, worldVars
  <2> QED BY <1>1, <2>1, <2>2, <2>3
<1>4. CASE Revalidate(p)
  <2> DEFINE r == result[p]
  <2> DEFINE q == result'[p]
  <2>0. /\ refresh[p] = "check" /\ refresh' = [refresh EXCEPT ![p] = "publish"]
        /\ UNCHANGED <<cache, candidate, tx, floor, outdated>>
        /\ Pair(r) /\ r \in Results
        /\ \A o \in Processes : o # p => result'[o] = result[o]
    BY <1>4 DEF Revalidate, callVars, PairInv, TypeOK, Results
  <2>1. q = IF r.err THEN r
            ELSE IF file.form # "full" THEN [r EXCEPT !.err = TRUE]
            ELSE IF file.doc = r.at THEN r
            ELSE IF file.doc \in stale THEN [r EXCEPT !.err = TRUE]
            ELSE Served(file.doc, file.doc)
    BY <1>4 DEF Revalidate, TypeOK
  <2>2. file.form = "full" => /\ file.doc \in Issued /\ Top(file.doc)
                              /\ Pair(Served(file.doc, file.doc))
    <3> SUFFICES ASSUME file.form = "full"
                 PROVE  /\ file.doc \in Issued /\ Top(file.doc)
                        /\ Pair(Served(file.doc, file.doc))
      OBVIOUS
    <3>1. file.doc \in Issued /\ Top(file.doc)
      BY FileFull DEF TypeOK
    <3> QED BY <3>1, OwnPair DEF Served
  <2>3. Pair(q)
    BY <2>0, <2>1, <2>2 DEF Pair, Results
  <2>4. ~q.err => /\ file.form = "full" /\ q.doc \in Issued
                  /\ epoch[q.doc] = epoch[file.doc]
    <3> SUFFICES ASSUME ~q.err
                 PROVE  /\ file.form = "full" /\ q.doc \in Issued
                        /\ epoch[q.doc] = epoch[file.doc]
      OBVIOUS
    <3>1. file.form = "full" /\ ((q = r /\ file.doc = r.at) \/ q = Served(file.doc, file.doc))
      BY <2>0, <2>1 DEF Results
    <3>2. file.doc \in Issued /\ file.doc # NoDoc
      BY <1>0, <2>2, <3>1, IssuedDocs
    <3> QED BY <2>0, <3>1, <3>2 DEF Pair, Served, Result
  <2>5. PairInv'
    <3>1. \A o \in Processes :
            Pair(cache'[o]) /\ Pair(candidate'[o]) /\ Pair(result'[o])
      BY <2>0, <2>3 DEF PairInv
    <3> QED BY <1>0, <3>1, PairKeep
  <2>6. TxInv'
    <3>1. tx # NoTx /\ tx.kind = "refresh" => refresh'[tx.by] = "locked"
      BY <1>0, <2>0 DEF TxShape, TypeOK
    <3> QED BY <1>0, <2>0, <3>1, TxFrame
  <2>7. FloorInv'
    <3>1. ~q.err => /\ q.doc # NoDoc
                    /\ candidate[p].at # NoDoc => epoch[candidate[p].at] <= epoch[q.doc]
      BY <1>0, <2>2, <2>4, IssuedDocs DEF Top, PairInv, Pair
    <3>2. /\ \A o \in Processes : refresh'[o] = refresh[o] \/ o = p
          /\ refresh'[p] = "publish"
      BY <2>0 DEF TypeOK
    <3> QED BY <1>0, <1>c, <2>0, <3>1, <3>2 DEF FloorInv
  <2> QED BY <1>1, <2>5, <2>6, <2>7
<1>5. CASE Publish(p)
  <2> DEFINE r == result[p]
  <2> DEFINE waiters == {c \in Callers : Home[c] = p /\ floor[c] # Idle}
  <2>0. /\ refresh[p] = "publish" /\ refresh' = [refresh EXCEPT ![p] = "none"]
        /\ candidate' = [candidate EXCEPT ![p] = NoState]
        /\ result' = [result EXCEPT ![p] = Failed]
        /\ floor' = [c \in Callers |-> IF c \in waiters THEN Idle ELSE floor[c]]
        /\ outdated' = outdated \cup
             {c \in waiters : ~r.err /\ epoch[r.doc] < floor[c]}
        /\ tx' = tx /\ Pair(r) /\ r \in Results
    BY <1>5 DEF Publish, PairInv, TypeOK, Results
  <2>1. PairInv'
    <3>1. Pair(NoState) /\ Pair(Cached(r.doc, r.at))
      BY <2>0 DEF Pair, NoState, Cached
    <3>2. \A o \in Processes : Pair(cache'[o])
      BY <1>5, <3>1 DEF Publish, PairInv, TypeOK
    <3>3. \A o \in Processes : Pair(candidate'[o]) /\ Pair(result'[o])
      BY <2>0, <3>1, FailedResult DEF PairInv, TypeOK
    <3> QED BY <1>0, <3>2, <3>3, PairKeep
  <2>2. TxInv'
    <3>1. tx # NoTx /\ tx.kind = "refresh" => refresh'[tx.by] = "locked"
      BY <1>0, <2>0 DEF TxShape, TypeOK
    <3> QED BY <1>0, <2>0, <3>1, TxFrame
  <2>3. outdated' = {}
    <3> SUFFICES ASSUME NEW c \in waiters, ~r.err, epoch[r.doc] < floor[c] PROVE FALSE
      BY <1>0, <2>0
    <3>1. r.doc # NoDoc /\ (candidate[p].at # NoDoc => epoch[candidate[p].at] <= epoch[r.doc])
      BY <2>0 DEF FloorInv
    <3>2. \/ floor[c] = 0
          \/ candidate[p].at # NoDoc /\ floor[c] <= epoch[candidate[p].at]
      BY DEF FloorInv
    <3>3. epoch[r.doc] \in Nat
      BY <1>0, <2>0, <3>1, IssuedDocs, BoundsAssumption DEF Pair, TypeOK, Docs
    <3>4. floor[c] \in Int
      BY BoundsAssumption DEF TypeOK, Docs, Idle
    <3>5. candidate[p].at # NoDoc => epoch[candidate[p].at] \in Nat
      BY <1>0, IssuedDocs, BoundsAssumption, SMTT(60) DEF PairInv, Pair, TypeOK, Docs
    <3> QED BY <3>1, <3>2, <3>3, <3>4, <3>5
  <2>4. FloorInv'
    <3>1. \A c \in Callers : floor'[c] # Idle => Home[c] # p /\ floor'[c] = floor[c]
      BY <2>0
    <3>2. /\ refresh'[p] = "none"
          /\ \A o \in Processes : o # p => /\ refresh'[o] = refresh[o]
                                           /\ candidate'[o] = candidate[o]
                                           /\ result'[o] = result[o]
      BY <2>0 DEF TypeOK
    <3> QED BY <1>0, <1>c, <2>3, <3>1, <3>2 DEF FloorInv
  <2> QED BY <1>1, <2>1, <2>2, <2>4
<1> QED BY <1>2, <1>3, <1>4, <1>5

-----------------------------------------------------------------------------
\* What a kill leaves of the memory and of the transaction.
LEMMA KillKeeps ==
  ASSUME IInv, NEW ps \in SUBSET Processes, Kill(ps), pastVars' = pastVars
  PROVE  PairInv' /\ FloorInv' /\ (tx' = NoTx \/ (tx' = tx /\ tx.by \notin ps))
<1> USE DEF IInv
<1>1. Pair(NoState) /\ Pair(Failed) /\ NoState.at = NoDoc
  BY FailedResult DEF Pair, NoState, Cached
<1>2. \A p \in Processes : Pair(cache'[p]) /\ Pair(candidate'[p]) /\ Pair(result'[p])
  BY <1>1 DEF Kill, PairInv
<1>3. PairInv'
  BY <1>2, PairKeep DEF Kill, worldVars
<1>4. FloorInv'
  <2>1. \A p \in Processes :
          IF p \in ps THEN refresh'[p] = "none"
          ELSE /\ refresh'[p] = refresh[p] /\ candidate'[p] = candidate[p]
               /\ result'[p] = result[p]
    BY DEF Kill
  <2>2. \A c \in Callers : /\ Home[c] \in Processes
                           /\ floor'[c] = IF Home[c] \in ps THEN Idle ELSE floor[c]
    BY HomeAssumption DEF Kill
  <2>3. outdated' = outdated /\ epoch' = epoch
    BY DEF Kill, worldVars
  <2> QED BY <2>1, <2>2, <2>3 DEF FloorInv
<1> QED BY <1>3, <1>4 DEF Kill

LEMMA CrashProcessInv ==
  ASSUME IInv, NEW p \in Processes, CrashProcess(p)
  PROVE  DiskInv' /\ PairInv' /\ TxInv' /\ FloorInv'
<1> USE DEF IInv
<1>1. /\ Kill({p}) /\ UNCHANGED <<diskVars, pastVars, issued, epoch>>
  BY DEF CrashProcess, Kill, worldVars
<1>2. PairInv' /\ FloorInv' /\ (tx' = NoTx \/ (tx' = tx /\ tx.by # p))
  BY <1>1, KillKeeps
<1>3. CASE tx' = NoTx
  BY <1>1, <1>2, <1>3, NoTxInv, DiskFrame
<1>4. CASE tx' = tx /\ tx.by # p
  <2>1. tx # NoTx /\ tx.kind = "refresh" => refresh'[tx.by] = "locked"
    BY <1>1, <1>4 DEF Kill, TxInv, TxShape
  <2> QED BY <1>1, <1>2, <1>4, <2>1, TxFrame, DiskFrame
<1> QED BY <1>2, <1>3, <1>4

\* What a crash of the machine leaves of a torn file, its journal completes.
LEMMA CrashMachineInv ==
  ASSUME IInv, CrashMachine
  PROVE  DiskInv' /\ PairInv' /\ TxInv' /\ FloorInv'
<1> USE DEF IInv
<1>0. /\ Kill(Processes) /\ pastVars' = pastVars /\ UNCHANGED <<issued, epoch, due, replaced>>
      /\ saved' = file' /\ savedDir' = dir' /\ dir' \in {dir, savedDir}
  BY DEF CrashMachine, Kill, worldVars, pastVars
<1>1. PairInv' /\ FloorInv' /\ (tx' = NoTx \/ (tx' = tx /\ tx.by \notin Processes))
  BY <1>0, KillKeeps
<1>2. TxInv'
  BY <1>1, NoTxInv DEF TxInv, TxShape
<1>3. DirInv'
  <2>1. OneArtifact(dir') /\ dir' \in Dirs
    BY <1>0 DEF DiskInv, DirInv, TypeOK
  <2>2. \A a, b \in Art(dir') : a = b
    BY <2>1, DirShape, ArtOf
  <2> QED BY <1>0, <2>1, <2>2 DEF DiskInv, DirInv
<1>4. DueInv'
  BY <1>0 DEF DiskInv, DueInv, Issued
<1>5. CASE Whole
  <2>1. file' = file
    BY <1>5 DEF CrashMachine, Whole
  <2>2. Whole' /\ TornInv'
    BY <1>0, <1>5, <2>1 DEF Whole, TornInv
  <2>3. Sound(file, dir)' /\ Sound(file, savedDir)'
    BY <1>0, <1>5, <2>1 DEF DiskInv, WholeInv, Sound
  <2>4. WholeInv'
    BY <1>0, <1>5, <2>1, <2>3 DEF DiskInv, WholeInv, Top, Issued
  <2> QED BY <1>1, <1>2, <1>3, <1>4, <2>2, <2>4 DEF DiskInv
<1>6. CASE ~Whole
  <2> DEFINE j == dir.journal
  <2>1. /\ dir = savedDir /\ dir.orphans = {} /\ j # NoJournal
        /\ j.tgt \in due /\ Top(j.tgt)
        /\ AppliesTo(file, j) /\ AppliesTo(saved, j)
        /\ file # saved => file \in {Empty, Part(j.tgt), Full(j.tgt)}
    BY <1>6 DEF DiskInv, TornInv
  <2>2. dir' = dir /\ j \in Journals /\ Art(dir) = {j}
    BY <1>0, <2>1 DEF TypeOK, Dirs, Art
  <2>3. j.src \in Issued /\ j.tgt \in Issued /\ epoch[j.src] = epoch[j.tgt]
    BY <2>2, BoundsAssumption DEF DiskInv, DirInv, Issued, Journals, Docs, TypeOK
  <2>4. AppliesTo(file', j)
    <3>1. CASE file' \in {file, saved, Empty}
      BY <2>1, <3>1 DEF AppliesTo, Empty
    <3>2. CASE file # saved /\ file.form = "full" /\ file' = Part(file.doc)
      <4>1. file = Full(j.tgt)
        BY <2>1, <3>2 DEF Empty, Part
      <4> QED BY <3>2, <4>1 DEF Full, Part, AppliesTo
    <3> QED BY <3>1, <3>2 DEF CrashMachine
  <2>5. CASE file'.form = "full"
    <3>1. Whole' /\ TornInv'
      BY <1>0, <2>5 DEF Whole, TornInv
    <3>2. file'.doc \in {j.src, j.tgt}
      BY <2>4, <2>5 DEF AppliesTo
    <3>3. file'.doc \in Issued /\ Top(file'.doc)
      <4>1. CASE file'.doc = j.src
        BY <2>1, <2>3, <4>1 DEF Top
      <4>2. CASE file'.doc = j.tgt
        BY <2>1, <2>3, <4>2
      <4> QED BY <3>2, <4>1, <4>2
    <3>4. Sound(file, dir)' /\ Sound(file, savedDir)'
      BY <1>0, <2>1, <2>2, <2>4 DEF Sound
    <3>5. WholeInv'
      BY <1>0, <2>5, <3>3, <3>4 DEF WholeInv, Top, Issued
    <3> QED BY <1>1, <1>2, <1>3, <1>4, <3>1, <3>5 DEF DiskInv
  <2>6. CASE file'.form # "full"
    <3>1. ~Whole'
      BY <2>4, <2>6 DEF Whole, AppliesTo
    <3>2. TornInv'
      BY <1>0, <2>1, <2>2, <2>4 DEF TornInv, Top, Issued
    <3>3. WholeInv'
      BY <3>1 DEF WholeInv
    <3> QED BY <1>1, <1>2, <1>3, <1>4, <3>2, <3>3 DEF DiskInv
  <2> QED BY <2>5, <2>6
<1> QED BY <1>5, <1>6

-----------------------------------------------------------------------------
\* A transaction whose file was replaced under it: what it must know is that
\* the file is not its own, and all there is to lose.
LEMMA Orphaned ==
  ASSUME IInv, issued' \in Docs, issued <= issued',
         \A d \in Issued : epoch'[d] = epoch[d],
         tx' = IF tx = NoTx THEN tx ELSE [tx EXCEPT !.same = FALSE],
         UNCHANGED <<dir, savedDir, refresh, replaced>>,
         Whole', file'.form = "full" => file'.doc \in due',
         file' = Missing \/ /\ file'.form = "full" /\ due' = {file'.doc}
                            /\ file'.doc \notin Issued
                            /\ \A d \in Issued : d < file'.doc,
         \A d \in Issued : d \notin due'
  PROVE  TxInv'
<1> USE DEF IInv
<1>0. issued \in Docs /\ Issued \subseteq Issued'
  BY IssuedGrows DEF TypeOK
<1>1. CASE tx = NoTx
  BY <1>1, NoTxInv
<1>2. CASE tx # NoTx
  <2>1. /\ tx'.step = tx.step /\ tx'.by = tx.by /\ tx'.kind = tx.kind /\ ~tx'.same
        /\ tx'.src = tx.src /\ tx'.doc = tx.doc /\ tx'.new = tx.new /\ tx'.out = tx.out
    BY <1>2 DEF TypeOK, TxTypes
  <2>2. TxShape'
    <3>1. tx' # NoTx
      BY <1>2, <2>1 DEF NoTx, TxInv, TxShape
    <3> QED BY <1>2, <2>1, <3>1 DEF TxInv, TxShape
  <2>3. NewInv'
    BY <1>0, <2>1 DEF TxInv, NewInv
  <2>4. AskInv'
    <3>1. tx.step \in Asking =>
            /\ Pair([doc |-> tx.doc, at |-> tx.src])'
            /\ tx.doc \notin replaced /\ Later(tx.doc)'
      <4> SUFFICES ASSUME tx.step \in Asking
                   PROVE  /\ Pair([doc |-> tx.doc, at |-> tx.src])'
                          /\ tx.doc \notin replaced /\ Later(tx.doc)'
        OBVIOUS
      <4>1. /\ tx.src \in Issued /\ tx.doc \in Issued /\ tx.src <= tx.doc
            /\ epoch[tx.src] = epoch[tx.doc] /\ tx.doc \notin replaced
        BY Successor
      <4> QED BY <1>0, <2>1, <4>1 DEF Pair, Later
    <3>2. tx.step \in {"temp", "rename", "journalSync"} =>
            file' # Full(tx.new) /\ tx.new \in Issued
      BY Newest DEF Full, Missing
    <3>3. ThisJournal' = ThisJournal
      BY <2>1 DEF ThisJournal
    <3> QED BY <2>1, <3>1, <3>2, <3>3 DEF TxInv, AskInv, Asking
  <2>5. WriteInv'
    <3>1. tx.step = "recheck" => Replaced({tx.src, tx.new})'
      <4> SUFFICES ASSUME tx.step = "recheck" PROVE Replaced({tx.src, tx.new})'
        OBVIOUS
      <4>1. tx.src \in Issued /\ tx.new \in Issued
        BY JournalType DEF TxInv, TxShape
      <4> QED BY <2>1, <4>1 DEF Replaced
    <3>2. tx.step \in Writing => Replaced({dir.journal.src, dir.journal.tgt})'
      <4> SUFFICES ASSUME tx.step \in Writing
                   PROVE  Replaced({dir.journal.src, dir.journal.tgt})'
        OBVIOUS
      <4>1. dir.journal.tgt \in Issued /\ dir.journal.src \in Issued
        BY Written, BoundsAssumption DEF Issued, Journals, Docs
      <4> QED BY <4>1 DEF Replaced
    <3>3. ThisJournal' = ThisJournal
      BY <2>1 DEF ThisJournal
    <3>4. tx.step \in Dropping /\ tx.out = "found" => tx.doc \in Issued'
      BY <1>0 DEF TxInv, WriteInv
    <3> QED BY <2>1, <3>1, <3>2, <3>3, <3>4 DEF TxInv, WriteInv, Writing, Dropping
  <2> QED BY <2>2, <2>3, <2>4, <2>5 DEF TxInv
<1> QED BY <1>1, <1>2

LEMMA LoginInv ==
  ASSUME IInv, Login
  PROVE  DiskInv' /\ PairInv' /\ TxInv' /\ FloorInv'
<1> USE DEF IInv
<1> DEFINE n == issued + 1
<1>0. /\ issued' = n /\ epoch' = [epoch EXCEPT ![n] = n] /\ n \in Docs /\ issued \in Docs
      /\ file' = Full(n) /\ saved' = file' /\ due' = {n}
      /\ tx' = IF tx = NoTx THEN tx ELSE [tx EXCEPT !.same = FALSE]
      /\ UNCHANGED <<dir, savedDir, procVars, callVars, replaced>>
  BY BoundsAssumption DEF Login, TypeOK, Docs
<1>1. /\ \A d \in Issued : /\ epoch'[d] = epoch[d] /\ d \in Docs /\ d < n
                           /\ d \in Issued' /\ d # n
      /\ epoch'[n] = n /\ n \in Issued' /\ n \notin Issued
      /\ \A d \in Issued' : d \in Issued \/ d = n
      /\ issued <= n
  BY <1>0, BoundsAssumption DEF TypeOK, Issued, Docs
<1>2. \A d \in Docs : epoch[d] \in Nat /\ epoch[d] <= d
  BY BoundsAssumption DEF TypeOK, Docs, DiskInv, DueInv
<1>3. file'.form = "full" /\ file'.doc = n
  BY <1>0 DEF Full
<1>4. \A j \in Art(dir) \cup Art(savedDir) : j.src \in Issued /\ j.tgt \in Issued
  BY <1>0, BoundsAssumption DEF DiskInv, DirInv, TypeOK, Dirs, Journals, Art, Issued, Docs
<1>5. DirInv'
  <2>1. \A j \in Art(dir) \cup Art(savedDir) :
          j.src < j.tgt /\ j.tgt <= n /\ epoch'[j.src] = epoch'[j.tgt]
    BY <1>0, <1>1, <1>4, BoundsAssumption DEF DiskInv, DirInv, Issued, Docs
  <2> QED BY <1>0, <2>1 DEF DiskInv, DirInv, Art, OneArtifact
<1>6. DueInv'
  <2>1. \A d \in Docs : epoch'[d] <= d
    BY <1>0, <1>1, <1>2, BoundsAssumption DEF TypeOK, Docs
  <2> QED BY <1>0, <1>1, <2>1 DEF DiskInv, DueInv
<1>7. Whole' /\ TornInv'
  BY <1>0, <1>3 DEF Whole, TornInv
<1>8. WholeInv'
  <2>1. \A j \in Art(dir) \cup Art(savedDir) : ~AppliesTo(file', j)
    BY <1>1, <1>3, <1>4 DEF AppliesTo
  <2>2. Sound(file, dir)' /\ Sound(file, savedDir)'
    BY <1>0, <1>3, <2>1 DEF Sound, Art
  <2>3. \A e \in Issued : epoch[e] <= n
    BY <1>0, <1>1, <1>2, BoundsAssumption DEF Docs
  <2>4. \A e \in Issued' : epoch'[e] <= epoch'[file'.doc]
    BY <1>0, <1>1, <1>3, <2>3, BoundsAssumption DEF Docs
  <2> QED BY <1>0, <1>1, <1>3, <2>2, <2>4 DEF WholeInv, Top
<1>9. PairInv'
  <2>1. NoneReplaced
    BY <1>0, <1>1 DEF NoneReplaced
  <2>2. \A p \in Processes :
          Pair(cache'[p]) /\ Pair(candidate'[p]) /\ Pair(result'[p])
    BY <1>0 DEF PairInv, procVars
  <2> QED BY <1>0, <1>1, <2>1, <2>2, PairMoves
<1>10. TxInv'
  BY <1>0, <1>1, <1>3, <1>7, Orphaned DEF procVars
<1>11. FloorInv'
  <2>1. \A p \in Processes :
          /\ candidate[p].at # NoDoc => candidate[p].at \in Issued
          /\ result[p].doc # NoDoc => result[p].doc \in Issued
    BY DEF PairInv, Pair
  <2>2. \A c \in Callers : Home[c] \in Processes
    BY HomeAssumption
  <2> QED BY <1>0, <1>1, <2>1, <2>2 DEF FloorInv, procVars, callVars
<1> QED BY <1>5, <1>6, <1>7, <1>8, <1>9, <1>10, <1>11 DEF DiskInv

LEMMA LogoutInv ==
  ASSUME IInv, Logout
  PROVE  DiskInv' /\ PairInv' /\ TxInv' /\ FloorInv'
<1> USE DEF IInv
<1>0. /\ file' = Missing /\ saved' = Missing /\ due' = {} /\ issued \in Docs
      /\ tx' = IF tx = NoTx THEN tx ELSE [tx EXCEPT !.same = FALSE]
      /\ UNCHANGED <<dir, savedDir, issued, epoch, procVars, callVars, replaced>>
  BY DEF Logout, TypeOK, worldVars
<1>1. file'.form = "missing" /\ issued <= issued' /\ issued' \in Docs
  BY <1>0, BoundsAssumption DEF Missing, Docs
<1>2. DirInv' /\ DueInv'
  BY <1>0 DEF DiskInv, DirInv, DueInv, Art, OneArtifact, Issued
<1>3. Whole' /\ TornInv' /\ WholeInv'
  BY <1>0, <1>1 DEF Whole, TornInv, WholeInv, Sound
<1>4. PairInv'
  <2>1. NoneReplaced
    BY <1>0 DEF NoneReplaced
  <2>2. \A p \in Processes :
          Pair(cache'[p]) /\ Pair(candidate'[p]) /\ Pair(result'[p])
    BY <1>0 DEF PairInv, procVars
  <2> QED BY <1>0, <1>1, <2>1, <2>2, PairMoves
<1>5. TxInv'
  BY <1>0, <1>1, <1>3, Orphaned DEF procVars
<1>6. FloorInv'
  BY <1>0, FloorFrame DEF FloorInv, procVars, callVars
<1> QED BY <1>2, <1>3, <1>4, <1>5, <1>6 DEF DiskInv

LEMMA GoStaleInv ==
  ASSUME IInv, NEW d \in Docs, GoStale(d)
  PROVE  DiskInv' /\ PairInv' /\ TxInv' /\ FloorInv'
<1>1. /\ UNCHANGED <<diskVars, pastVars, issued, epoch, tx, refresh>>
      /\ UNCHANGED <<cache, candidate, result, floor, outdated>>
  BY DEF GoStale, procVars, callVars
<1> QED BY <1>1, DiskFrame, PairFrame, TxFrame, FloorFrame DEF IInv, TxInv, TxShape, FloorInv

-----------------------------------------------------------------------------
\* One document, whole and due, and nobody who uses it.
LEMMA InitIInv == Init => IInv
<1> SUFFICES ASSUME Init PROVE IInv
  OBVIOUS
<1>0. 0 \in Docs /\ NoDoc \notin Docs
  BY BoundsAssumption DEF Docs, NoDoc
<1>1. issued = 0 /\ Issued = {0} /\ due = {0} /\ replaced = {} /\ epoch = [d \in Docs |-> 0]
  BY DEF Init, Issued
<1>2. file = Full(0) /\ saved = file /\ file.form = "full" /\ file.doc = 0
  BY DEF Init, Full
<1>3. dir = NoDir /\ savedDir = NoDir /\ Art(dir) = {} /\ Art(savedDir) = {}
  BY ArtOf DEF Init, NoDir
<1>4. TypeOK
  <2>1. file \in Files /\ saved \in Files /\ dir \in Dirs /\ savedDir \in Dirs
    BY <1>0, <1>2, <1>3, FilesHave DEF Dirs, NoDir
  <2>2. NoState \in States /\ Failed \in Results /\ NoTx \in TxTypes
    BY FailedResult, NoTxType DEF NoState, Cached, States, MaybeDoc
  <2>3. issued \in Docs /\ spent \subseteq Docs /\ stale \subseteq Docs
        /\ epoch \in [Docs -> Docs] /\ due \subseteq Docs /\ replaced \subseteq Docs
    BY <1>0, <1>1 DEF Init
  <2>4. upsets \in 0..MaxUpsets
    BY BoundsAssumption DEF Init
  <2> QED BY <2>1, <2>2, <2>3, <2>4 DEF Init, TypeOK, Results, TxTypes
<1>5. DirInv /\ DueInv
  <2>1. OneArtifact(NoDir)
    BY DEF OneArtifact, NoDir
  <2>2. \A d \in Docs : epoch[d] <= d
    BY <1>1, BoundsAssumption DEF Docs
  <2> QED BY <1>1, <1>3, <2>1, <2>2 DEF DirInv, DueInv
<1>6. Whole
  BY <1>2 DEF Whole
<1>7. WholeInv /\ TornInv
  BY <1>0, <1>1, <1>2, <1>3, <1>6 DEF WholeInv, TornInv, Sound, Top
<1>8. PairInv
  BY FailedResult DEF Init, PairInv, Pair, NoState, Cached
<1>9. TxInv
  <2>1. tx = NoTx /\ tx.step = "none" /\ tx.kind = "none" /\ tx.src = NoDoc
    BY DEF Init, NoTx
  <2> QED BY <2>1 DEF TxInv, TxShape, NewInv, AskInv, WriteInv, Asking, Writing, Dropping
<1>10. FloorInv
  BY HomeAssumption DEF Init, FloorInv
<1> QED BY <1>4, <1>5, <1>7, <1>8, <1>9, <1>10 DEF IInv, DiskInv

LEMMA NextIInv ==
  ASSUME OrderedMetadata = TRUE, IInv, [Next]_vars PROVE IInv'
<1> DEFINE Rest == DiskInv' /\ PairInv' /\ TxInv' /\ FloorInv'
<1>1. ASSUME NEW c \in Callers,
             JoinRefresh(c) \/ ServeLoaded(c) \/ StartRefresh(c) \/ LoadFails(c)
             \/ GiveUp(c)
      PROVE  IInv'
  <2>1. TypeOK'
    BY <1>1, CallerTypes DEF IInv
  <2>2. Rest
    BY <1>1, CallerInv
  <2> QED BY <2>1, <2>2 DEF IInv
<1>2. ASSUME NEW p \in Processes,
             AcquireLock(p) \/ LockTimeout(p) \/ Revalidate(p) \/ Publish(p)
      PROVE  IInv'
  <2>1. TypeOK'
    BY <1>2, ProcessTypes
  <2>2. Rest
    BY <1>2, ProcessInv
  <2> QED BY <2>1, <2>2 DEF IInv
<1>3. CASE RecoveryStep
  BY <1>3, RecoveryTypes, PrepareJournalInv, RecoverJournalInv, RecoveryFailsInv
     DEF RecoveryStep, IInv
<1>4. CASE RefreshStep
  <2>1. Rest
    BY <1>4, ReadAgainInv, PreflightFailsInv, RefreshSucceedsInv, RefreshFailsInv,
       WriteTempInv, RenameTempInv, SyncJournalInv, RecheckFileInv, PersistFailsInv
       DEF RefreshStep
  <2> QED BY <1>4, <2>1, RefreshTypes DEF IInv
<1>5. CASE WriteStep
  <2>1. Rest
    BY <1>5, TruncateFileInv, WriteFileInv, SyncFileInv, DropJournalInv,
       SyncDroppedInv, DropFailsInv DEF WriteStep
  <2> QED BY <1>5, <2>1, WriteTypes DEF IInv
<1>6. CASE \/ \E p \in Processes : CrashProcess(p)
           \/ CrashMachine \/ Login \/ Logout
           \/ \E d \in Docs : GoStale(d)
  <2>1. TypeOK'
    BY <1>6, OutsideTypes DEF IInv
  <2>2. Rest
    BY <1>6, CrashProcessInv, CrashMachineInv, LoginInv, LogoutInv, GoStaleInv
  <2> QED BY <2>1, <2>2 DEF IInv
<1>7. CASE UNCHANGED vars
  <2>1. /\ UNCHANGED <<diskVars, pastVars, issued, epoch, tx, refresh>>
        /\ UNCHANGED <<cache, candidate, result, floor, outdated>>
    BY <1>7 DEF vars, worldVars, procVars, callVars
  <2>2. Rest
    BY <2>1, DiskFrame, PairFrame, TxFrame, FloorFrame DEF IInv, TxInv, TxShape, FloorInv
  <2>3. TypeOK'
    BY <1>7 DEF IInv, TypeOK, vars, diskVars, worldVars, procVars, callVars, pastVars
  <2> QED BY <2>2, <2>3 DEF IInv
<1> QED BY <1>1, <1>2, <1>3, <1>4, <1>5, <1>6, <1>7 DEF Next, Transaction

\* The types and the strengthened invariant hold in every state, where a
\* rename reaches the disk before a later truncation.
THEOREM Invariant == ASSUME OrderedMetadata = TRUE PROVE Spec => []IInv
BY InitIInv, NextIInv, PTL DEF Spec

(***************************************************************************)
(* The file and its journals yield the newest durable document, whatever   *)
(* crashes, failing file operations, logins and half-finished recoveries   *)
(* come between (recoverJournalLocked, persistTransactionLocked).          *)
(***************************************************************************)
LEMMA SurvivesOf == ASSUME IInv PROVE NewestSurvives
<1> USE DEF IInv
<1>1. Artifacts = Art(dir) /\ \A j : Applies(j) <=> AppliesTo(file, j)
  BY DEF Artifacts, Art, Applies, AppliesTo
<1>2. CASE Whole
  <2>1. file = Missing \/ file.form = "full"
    BY <1>2, FileShape DEF Whole, TypeOK
  <2>2. CASE file.form = "full"
    <3>1. /\ \A j \in Applicable : j.tgt \in due
          /\ Applicable = {} => file.doc \in due
      BY <1>1, <1>2, <2>2 DEF DiskInv, WholeInv, Sound, Applicable
    <3> QED BY <2>2, <3>1 DEF NewestSurvives, Yield
  <2> QED BY <2>1, <2>2 DEF NewestSurvives
<1>3. CASE ~Whole
  <2> DEFINE j == dir.journal
  <2>1. dir.orphans = {} /\ j # NoJournal /\ j.tgt \in due /\ AppliesTo(file, j)
    BY <1>3 DEF DiskInv, TornInv
  <2>2. Art(dir) = {j}
    BY <2>1 DEF Art
  <2>3. Applicable = {j}
    BY <1>1, <2>1, <2>2 DEF Applicable
  <2> QED BY <2>1, <2>3 DEF NewestSurvives, Yield
<1> QED BY <1>2, <1>3

THEOREM TheNewestSurvives ==
  ASSUME OrderedMetadata = TRUE PROVE Spec => []NewestSurvives
BY InitIInv, NextIInv, SurvivesOf, PTL DEF Spec

(***************************************************************************)
(* No process presents a refresh token whose successor is durable: what is *)
(* presented is read under the lock, from a file that is due               *)
(* (executeRefreshLocked).                                                 *)
(***************************************************************************)
THEOREM NoTokenReused ==
  ASSUME OrderedMetadata = TRUE PROVE Spec => []SpentNotReused
<1>1. IInv => SpentNotReused
  BY DEF IInv, TxInv, AskInv, SpentNotReused, Asking
<1> QED BY InitIInv, NextIInv, <1>1, PTL DEF Spec

(***************************************************************************)
(* A caller that asks after a login, while its token is fresh, is not      *)
(* answered with an earlier one, whether it is served at once or joins a   *)
(* refresh (credentials, completeRefresh).                                 *)
(***************************************************************************)
THEOREM TheLoginIsServed ==
  ASSUME OrderedMetadata = TRUE PROVE Spec => []LoginServed
<1>1. IInv => LoginServed
  BY DEF IInv, FloorInv, LoginServed
<1> QED BY InitIInv, NextIInv, <1>1, PTL DEF Spec

THEOREM CodexTypes == ASSUME OrderedMetadata = TRUE PROVE Spec => []TypeOK
<1>1. IInv => TypeOK
  BY DEF IInv
<1> QED BY InitIInv, NextIInv, <1>1, PTL DEF Spec

=============================================================================
