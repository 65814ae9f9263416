---------------------------- MODULE BranchMemory ----------------------------
(***************************************************************************)
(* Repositories, their branches, the synchronisation records kept for each *)
(* branch (branch memory) and the digest built from them (repository       *)
(* memory), with every operation on conversations that writes them.        *)
(*                                                                         *)
(* One HTTP request is one slot.  A request runs in one database session   *)
(* under READ COMMITTED and commits several transactions; it is cut into   *)
(* steps at its commits and where something it has read can be stale when  *)
(* it is used.  The ORM keeps a row as it was first read: a request's      *)
(* fields are what it remembers, not what the tables hold.  Adjacent reads *)
(* of one decision are one step.                                           *)
(***************************************************************************)
EXTENDS Integers, Sequences, FiniteSets

CONSTANTS
  Repositories,   \* repositories of one project
  Existing,       \* the repositories there are at the start
  Conversations,  \* conversations of that project
  Founders,       \* the conversations there are at the start, coding enabled
  None,           \* no repository, no conversation
  Names,          \* branch names
  DefaultName,    \* the repositories' default_branch
  Slots,          \* requests the server can be handling at the same time
  MaxBranches,    \* bound: branches ever created
  MaxCommits,     \* bound: commits ever created
  MaxRequests     \* bound: requests ever made

ASSUME MemoryAssumption ==
  /\ Existing \subseteq Repositories /\ Founders \subseteq Conversations
  /\ None \notin Repositories \cup Conversations
  /\ DefaultName \in Names
  /\ IsFiniteSet(Slots)
  /\ {MaxBranches, MaxCommits, MaxRequests} \subseteq Nat

BranchIds == 1 .. MaxBranches   \* in the order of created_at
CommitIds == 1 .. MaxCommits    \* in the order in which they became visible
NoId == 0

VARIABLES
  repository,    \* repository[r]: "absent", "live", "archived" or "deleted"
  conversation,  \* conversation[c]: the row of a conversation
  branch,        \* branch[b]: the row of a repository branch
  opened,        \* branches ever created
  memory,        \* memory[b]: the branch memory's counters and status
  records,       \* records[b]: its sync records, in the order of insertion
  commits,       \* commits[k]: commit k and its package, as they were committed
  digest,        \* digest[b]: the repository memory built from them
  clock,         \* timestamps taken for commits and packages
  req,           \* the request in each slot
  issued         \* requests made

tables == <<repository, conversation, branch, opened, memory, records, commits, digest>>
vars == <<repository, conversation, branch, opened, memory, records, commits,
          digest, clock, req, issued>>

Kinds == {"attach", "detach", "commit", "restore", "push"}
Record == [number : Nat, kind : Kinds, conversation : Conversations \cup {None},
           commit : CommitIds \cup {NoId}, package : CommitIds \cup {NoId},
           named : BOOLEAN]
\* created is the commit's created_at, generated its package's generated_at.
CommitRow == [conversation : Conversations, created : Nat, generated : Nat]
Digest == [version : Nat, sync : Nat, commit : CommitIds \cup {NoId}]
Ops == {"none", "attach", "detach", "disable", "commit", "fork", "restore", "push",
        "branch", "prune", "delete"}
Pcs == {"free", "date", "generate", "write", "refresh", "collect", "drop", "resolve", "open",
        "package", "append", "rebuild", "publish"}

Marks == SUBSET (BranchIds \X Nat)

\* conv is the conversation the request loaded, repo its repository then;
\* subject the conversation the record will name; marks the branches read,
\* each with its version; created and generated the timestamps taken, 0 before;
\* todo the digests to rebuild before going on at then.
Request == [op : Ops, pc : Pcs, conv : Conversations \cup {None},
            new : Conversations \cup {None}, subject : Conversations \cup {None},
            repo : Repositories \cup {None}, prev : Repositories \cup {None},
            target : Repositories \cup {None}, coding : BOOLEAN,
            branch : BranchIds \cup {NoId}, name : Names, default : BOOLEAN,
            commit : CommitIds \cup {NoId}, package : CommitIds \cup {NoId},
            named : BOOLEAN, seen : Nat, marks : Marks,
            created : Nat, generated : Nat,
            todo : SUBSET BranchIds, then : Pcs, read : Digest]

NoDigest == [version |-> 0, sync |-> 0, commit |-> NoId]
Free == [op |-> "none", pc |-> "free", conv |-> None, new |-> None,
         subject |-> None, repo |-> None, prev |-> None, target |-> None,
         coding |-> FALSE, branch |-> NoId, name |-> DefaultName,
         default |-> FALSE, commit |-> NoId, package |-> NoId, named |-> FALSE,
         seen |-> 0, marks |-> {}, created |-> 0, generated |-> 0,
         todo |-> {}, then |-> "free", read |-> NoDigest]

NoBranch == [repository |-> None, name |-> DefaultName, default |-> FALSE, active |-> FALSE]
NoMemory == [version |-> 0, synced |-> 0, latest |-> 0, ready |-> FALSE]
NewConversation == [exists |-> TRUE, parent |-> None, coding |-> FALSE, repository |-> None]

Init ==
  /\ repository = [r \in Repositories |-> IF r \in Existing THEN "live" ELSE "absent"]
  /\ conversation = [c \in Conversations |->
       [NewConversation EXCEPT !.exists = c \in Founders, !.coding = c \in Founders]]
  /\ branch = [b \in BranchIds |-> NoBranch]
  /\ opened = 0
  /\ memory = [b \in BranchIds |-> NoMemory]
  /\ records = [b \in BranchIds |-> <<>>]
  /\ commits = <<>>
  /\ digest = [b \in BranchIds |-> NoDigest]
  /\ clock = 0
  /\ req = [s \in Slots |-> Free]
  /\ issued = 0

\* The types of the tables.
ConversationRow == [exists : BOOLEAN, parent : Conversations \cup {None},
                    coding : BOOLEAN, repository : Repositories \cup {None}]
BranchRow == [repository : Repositories \cup {None}, name : Names,
              default : BOOLEAN, active : BOOLEAN]
MemoryRow == [version : Nat, synced : Nat, latest : Nat, ready : BOOLEAN]
RowsOK ==
  /\ repository \in [Repositories -> {"absent", "live", "archived", "deleted"}]
  /\ conversation \in [Conversations -> ConversationRow]
  /\ branch \in [BranchIds -> BranchRow]
  /\ opened \in 0 .. MaxBranches
  /\ memory \in [BranchIds -> MemoryRow]
  /\ records \in [BranchIds -> Seq(Record)]
  /\ commits \in Seq(CommitRow) /\ Len(commits) <= MaxCommits
  /\ digest \in [BranchIds -> Digest]

\* A reference to a repository is to one that is there (the foreign keys of
\* conversations and branches).
ReferencesOK ==
  /\ \A c \in Conversations : conversation[c].repository # None =>
       repository[conversation[c].repository] \in {"live", "archived"}
  /\ \A b \in BranchIds : branch[b].repository # None =>
       repository[branch[b].repository] \in {"live", "archived"}

TablesOK == RowsOK /\ ReferencesOK

TypeOK ==
  /\ TablesOK
  /\ clock \in Nat
  /\ req \in [Slots -> Request]
  /\ issued \in 0 .. MaxRequests

-----------------------------------------------------------------------------
\* The tables, as a query sees them.

RepositoryExists(r) == repository[r] \in {"live", "archived"}
BranchExists(b) == branch[b].repository # None
BranchesOf(r) == {b \in BranchIds : branch[b].repository = r}
Taken(r, n) == \E b \in BranchesOf(r) : branch[b].name = n

ActiveOf(r) == {b \in BranchesOf(r) : branch[b].active}

\* The branch a conversation's repository is synchronised on: a default one
\* first, then the oldest.
Primary(r) ==
  LET first == IF \E b \in ActiveOf(r) : branch[b].default
               THEN {b \in ActiveOf(r) : branch[b].default} ELSE ActiveOf(r)
  IN  CHOOSE b \in first : \A o \in first : b <= o

\* The conversation a chain of branches started from: the one without a parent
\* among those that parents lead to.
Lineage(c) ==
  {a \in Conversations :
     \A C \in SUBSET Conversations :
       (c \in C /\ \A d \in C : conversation[d].parent \in C \cup {None}) => a \in C}
Root(c) == CHOOSE a \in {o \in Lineage(c) : conversation[o].parent = None} : TRUE

CommitsOf(c) == {k \in DOMAIN commits : commits[k].conversation = c}

\* A conversation's newest commit, by created_at, and its newest package, by
\* generated_at: two queries, which can name different commits.
NewestCommit(c) ==
  IF CommitsOf(c) = {} THEN NoId
  ELSE CHOOSE k \in CommitsOf(c) :
         \A o \in CommitsOf(c) : commits[o].created <= commits[k].created
NewestPackage(c) ==
  IF CommitsOf(c) = {} THEN NoId
  ELSE CHOOSE k \in CommitsOf(c) :
         \A o \in CommitsOf(c) : commits[o].generated <= commits[k].generated

Latest(b) == records[b][memory[b].latest]
Detached(b) == Latest(b).kind = "detach"

\* What is told of a branch's memory: of a detached one, nothing but its version.
Reported(b) ==
  [version |-> memory[b].synced,
   conversation |-> IF Detached(b) THEN None ELSE Latest(b).conversation,
   commit |-> IF Detached(b) THEN NoId ELSE Latest(b).commit]

-----------------------------------------------------------------------------
\* Requests.

At(s, pc) == req[s].pc = pc
Doing(s, op, pc) == req[s].op = op /\ req[s].pc = pc
Go(s, r) == req' = [req EXCEPT ![s] = r] /\ UNCHANGED <<clock, issued>>
End(s) == Go(s, Free)

\* A new request; what it has read first is in r.
Start(s, r) ==
  /\ At(s, "free") /\ issued < MaxRequests
  /\ req' = [req EXCEPT ![s] = r]
  /\ issued' = issued + 1
  /\ UNCHANGED tables /\ UNCHANGED clock

\* A request that is one transaction, whose guards nothing can make stale.
Once(s) == /\ At(s, "free") /\ issued < MaxRequests
           /\ issued' = issued + 1
           /\ UNCHANGED <<clock, req>>

\* The server stops, or the request fails, between two transactions: what it
\* committed stays.  (Before its first commit this is as if it never began.)
Stop(s) ==
  /\ req[s].pc \notin {"free", "date", "generate", "write", "package"}
  /\ End(s) /\ UNCHANGED tables

Loaded(op, c) == [Free EXCEPT !.op = op, !.pc = "write", !.conv = c,
                              !.repo = conversation[c].repository,
                              !.coding = conversation[c].coding]

-----------------------------------------------------------------------------
\* Writing the history of a branch.

\* A new branch, its memory and the record that initialises it: one
\* transaction, refused when the name is taken or the repository is gone.
CanOpen(r, n) == RepositoryExists(r) /\ ~Taken(r, n) /\ opened < MaxBranches
OpenBranch(r, n, default, cleared) ==
  LET b == opened + 1 IN
  /\ opened' = b
  /\ branch' = [o \in BranchIds |->
       IF o = b THEN [repository |-> r, name |-> n, default |-> default, active |-> TRUE]
       ELSE IF o \in cleared THEN [branch[o] EXCEPT !.default = FALSE] ELSE branch[o]]
  /\ memory' = [memory EXCEPT ![b] =
       [version |-> 1, synced |-> 1, latest |-> 1, ready |-> FALSE]]
  /\ records' = [records EXCEPT ![b] =
       <<[number |-> 1, kind |-> "attach", conversation |-> None,
          commit |-> NoId, package |-> NoId, named |-> FALSE]>>]

\* Mutant: sync_version is not unique in a branch memory.
AppendAlways(b, seen) == BranchExists(b)

\* A record is inserted under the number after the version that was read; the
\* unique index refuses it when another record has taken that number.
CanAppend(b, seen) ==
  BranchExists(b) /\ \A i \in DOMAIN records[b] : records[b][i].number # seen + 1

\* What a record does not say it takes over from the latest one; a detach
\* says that there is nothing any more.
NextRecord(kind, last, seen, subject, commit, package, named) ==
  LET carried(new, old) == IF new # NoId \/ kind = "detach" THEN new ELSE old IN
  [number |-> seen + 1, kind |-> kind, conversation |-> subject,
   commit |-> carried(commit, last.commit),
   package |-> carried(package, last.package), named |-> named]

Appended(b, seen, record) ==
  [version |-> seen + 1, synced |-> seen + 1, latest |-> Len(records[b]) + 1,
   ready |-> record.kind = "push"]

\* Rebuild the digests of bs one after the other, then go on at pc.
Rebuilding(r, bs, pc) == IF bs = {} THEN (IF pc = "free" THEN Free ELSE [r EXCEPT !.pc = pc])
                         ELSE [(IF pc = "free" THEN Free ELSE r) EXCEPT
                                 !.pc = "rebuild", !.todo = bs, !.then = pc]

\* The rest of the digests after a failed one: the rollback has expired
\* everything the request knew, and it ends after the last.
AfterFailure(r, b) == Rebuilding(r, r.todo \ {b}, "free")

Kind(op) == CASE op = "attach" -> "attach"
              [] op \in {"commit", "fork"} -> "commit"
              [] op = "restore" -> "restore"
              [] op = "push" -> "push"
              [] OTHER -> "detach"

\* The repository of the subject: its root's; the root is not read again when
\* it is the conversation the request has loaded.  A restore has loaded the
\* package's conversation, and has no repository of its own to fall back on.
Known(r) ==
  LET root == Root(r.conv) IN
  IF root = r.conv THEN r.repo
  ELSE IF conversation[root].repository # None \/ r.op = "restore"
       THEN conversation[root].repository ELSE r.repo

\* Read the branch to synchronise on, and with it its memory.
Resolve(s) ==
  LET r == req[s]
      repo == Known(r)
      told == [Free EXCEPT !.op = r.op, !.commit = r.commit, !.package = r.package,
                 !.subject = IF r.op = "restore" THEN r.new ELSE Root(r.conv)]
  IN
  /\ At(s, "resolve")
  /\ UNCHANGED tables
  /\ \/ repo = None /\ End(s)
     \/ /\ repo # None /\ ActiveOf(repo) # {}
        /\ Go(s, [told EXCEPT !.pc = "append",
                           !.branch = Primary(repo), !.seen = memory[Primary(repo)].version])
     \/ /\ repo # None /\ ActiveOf(repo) = {}
        /\ Go(s, [told EXCEPT !.pc = "open", !.target = repo])

\* A repository without an active branch gets one, under its default name.
OpenDefault(s) ==
  LET r == req[s] IN
  /\ At(s, "open")
  /\ \/ /\ CanOpen(r.target, DefaultName)
        /\ OpenBranch(r.target, DefaultName, TRUE, {})
        /\ Go(s, Rebuilding([r EXCEPT !.branch = opened + 1, !.seen = 1, !.target = None],
                            {opened + 1}, "append"))
        /\ UNCHANGED <<repository, conversation, commits, digest>>
     \/ /\ ~CanOpen(r.target, DefaultName)
        /\ End(s) /\ UNCHANGED tables

\* Append the record of the request, in one transaction with the status; a
\* push is done then, everything else rebuilds the digest.
AppendRecord(s) ==
  LET r == req[s]
      b == r.branch
      record == NextRecord(Kind(r.op), Latest(b), r.seen, r.subject, r.commit,
                           r.package, r.named)
  IN
  /\ At(s, "append")
  /\ \/ /\ CanAppend(b, r.seen)
        /\ records' = [records EXCEPT ![b] = Append(@, record)]
        /\ memory' = [memory EXCEPT ![b] = Appended(b, r.seen, record)]
        /\ Go(s, IF r.op = "push" THEN Free ELSE Rebuilding(r, {b}, "free"))
        /\ UNCHANGED <<repository, conversation, branch, opened, commits, digest>>
     \/ /\ ~CanAppend(b, r.seen)
        /\ End(s) /\ UNCHANGED tables

\* Read what the digest of a branch is made of, and its row.
ReadForDigest(s) ==
  LET r == req[s] IN
  /\ At(s, "rebuild")
  /\ UNCHANGED tables
  /\ \E b \in r.todo :
       IF BranchExists(b)
       THEN Go(s, [r EXCEPT !.pc = "publish", !.branch = b,
                            !.read = [version |-> digest[b].version,
                                      sync |-> memory[b].synced,
                                      commit |-> Reported(b).commit]])
       ELSE Go(s, AfterFailure(r, b))

\* Mutant: the version the digest is stored under is read when it is stored.
PublishUnderNewest(s) ==
  LET r == req[s]
      b == r.branch
      rest == r.todo \ {b}
  IN
  /\ At(s, "publish")
  /\ BranchExists(b)
  /\ digest' = [digest EXCEPT ![b] = [r.read EXCEPT !.version = @ + 1, !.sync = memory[b].synced]]
  /\ Go(s, Rebuilding([r EXCEPT !.todo = {}, !.read = NoDigest], rest, r.then))
  /\ UNCHANGED <<repository, conversation, branch, opened, memory, records, commits>>

\* Write it: insert the row or update the one that was read.
Publish(s) ==
  LET r == req[s]
      b == r.branch
      rest == r.todo \ {b}
  IN
  /\ At(s, "publish")
  /\ \/ /\ BranchExists(b) /\ (r.read.version = 0 <=> digest[b].version = 0)
        /\ digest' = [digest EXCEPT ![b] = [r.read EXCEPT !.version = @ + 1]]
        /\ Go(s, Rebuilding([r EXCEPT !.todo = {}, !.read = NoDigest], rest, r.then))
        /\ UNCHANGED <<repository, conversation, branch, opened, memory, records, commits>>
     \/ /\ ~(BranchExists(b) /\ (r.read.version = 0 <=> digest[b].version = 0))
        /\ Go(s, AfterFailure(r, b)) /\ UNCHANGED tables

-----------------------------------------------------------------------------
\* Conversations and their repository.

Attach(s, c, r) ==
  /\ conversation[c].exists /\ conversation[c].coding /\ repository[r] = "live"
  /\ Start(s, [Loaded("attach", c) EXCEPT !.target = r])

\* The ORM writes the column only when its value changes.
WriteAttach(s) ==
  LET r == req[s] IN
  /\ Doing(s, "attach", "write")
  /\ \/ /\ RepositoryExists(r.target)
        /\ conversation' = IF r.target = r.repo THEN conversation
                           ELSE [conversation EXCEPT ![r.conv].repository = r.target]
        /\ Go(s, [r EXCEPT !.pc = "refresh", !.prev = r.repo])
        /\ UNCHANGED <<repository, branch, opened, memory, records, commits, digest>>
     \/ /\ ~RepositoryExists(r.target)
        /\ End(s) /\ UNCHANGED tables

\* The conversation is read again, and with it what others have written.
Refresh(s) ==
  LET r == req[s] IN
  /\ At(s, "refresh")
  /\ Go(s, [r EXCEPT !.repo = conversation[r.conv].repository, !.target = None,
                     !.pc = IF r.prev \in {None, r.target} THEN "resolve" ELSE "collect"])
  /\ UNCHANGED tables

Detach(s, c) ==
  /\ conversation[c].exists /\ conversation[c].coding
  /\ conversation[c].repository # None
  /\ Start(s, Loaded("detach", c))

WriteDetach(s) ==
  LET r == req[s] IN
  /\ Doing(s, "detach", "write")
  /\ conversation' = [conversation EXCEPT ![r.conv].repository = None]
  /\ Go(s, [r EXCEPT !.pc = "collect", !.prev = r.repo])
  /\ UNCHANGED <<repository, branch, opened, memory, records, commits, digest>>

\* Mutant: every branch of the repository is told, whatever conversation its
\* latest record names.
MarkedAll(root, prev) ==
  {<<b, memory[b].version>> : b \in BranchesOf(prev)}

\* The branches of the repository left behind that this conversation was
\* recorded on last, each with the version read.
Marked(root, prev) ==
  {<<b, memory[b].version>> :
     b \in {o \in BranchesOf(prev) : Latest(o).conversation = root}}

Collect(s) ==
  LET r == req[s]
      marks == Marked(Root(r.conv), r.prev)
      next == IF r.op = "attach" THEN [r EXCEPT !.pc = "resolve", !.prev = None] ELSE Free
  IN
  /\ At(s, "collect")
  /\ Go(s, IF marks = {} THEN next
           ELSE [r EXCEPT !.pc = "drop", !.marks = marks, !.prev = None])
  /\ UNCHANGED tables

\* All of them are detached in one transaction or none is.
DropAll(s) ==
  LET r == req[s]
      dropped == {m[1] : m \in r.marks}
      seen(b) == (CHOOSE m \in r.marks : m[1] = b)[2]
      record(b) == NextRecord("detach", Latest(b), seen(b), Root(r.conv), NoId, NoId, FALSE)
      next == [r EXCEPT !.marks = {}]
  IN
  /\ At(s, "drop")
  /\ \/ /\ \A m \in r.marks : CanAppend(m[1], m[2])
        /\ records' = [b \in BranchIds |->
             IF b \in dropped THEN Append(records[b], record(b)) ELSE records[b]]
        /\ memory' = [b \in BranchIds |->
             IF b \in dropped THEN Appended(b, seen(b), record(b)) ELSE memory[b]]
        /\ Go(s, Rebuilding(next, dropped, IF r.op = "attach" THEN "resolve" ELSE "free"))
        /\ UNCHANGED <<repository, conversation, branch, opened, commits, digest>>
     \/ /\ ~\A m \in r.marks : CanAppend(m[1], m[2])
        /\ End(s) /\ UNCHANGED tables

EnableCoding(s, c) ==
  /\ conversation[c].exists /\ ~conversation[c].coding
  /\ Once(s)
  /\ conversation' = [conversation EXCEPT ![c].coding = TRUE]
  /\ UNCHANGED <<repository, branch, opened, memory, records, commits, digest>>

\* Coding is switched off and the repository let go of, without a record.
DisableCoding(s, c) ==
  /\ conversation[c].exists /\ conversation[c].coding
  /\ Start(s, Loaded("disable", c))

WriteDisable(s) ==
  LET r == req[s] IN
  /\ Doing(s, "disable", "write")
  /\ conversation' = [conversation EXCEPT ![r.conv].coding = FALSE,
       ![r.conv].repository = IF r.repo = None THEN @ ELSE None]
  /\ End(s)
  /\ UNCHANGED <<repository, branch, opened, memory, records, commits, digest>>

\* The requests that will write a commit.
Committing ==
  {s \in Slots : req[s].op = "commit" /\ req[s].pc \in {"date", "generate", "write"}}

CreateCommit(s, c) ==
  /\ conversation[c].exists
  /\ Len(commits) + Cardinality(Committing) < MaxCommits
  /\ Start(s, [Loaded("commit", c) EXCEPT !.pc = "date"])

\* The commit is dated, and some queries later the package made of it; neither
\* can be seen before both are committed.
TakeTime(s) ==
  LET now == clock + 1 IN
  /\ clock' = now
  /\ \/ /\ At(s, "date")
        /\ req' = [req EXCEPT ![s] = [@ EXCEPT !.pc = "generate", !.created = now]]
     \/ /\ At(s, "generate")
        /\ req' = [req EXCEPT ![s] = [@ EXCEPT !.pc = "write", !.generated = now]]
  /\ UNCHANGED tables /\ UNCHANGED issued

\* The commit and its context package; the record follows in a transaction of
\* its own.
WriteCommit(s) ==
  LET r == req[s]
      k == Len(commits) + 1
  IN
  /\ Doing(s, "commit", "write")
  /\ commits' = Append(commits, [conversation |-> r.conv, created |-> r.created,
                                 generated |-> r.generated])
  /\ Go(s, [r EXCEPT !.pc = "resolve", !.commit = k, !.package = k,
                     !.created = 0, !.generated = 0])
  /\ UNCHANGED <<repository, conversation, branch, opened, memory, records, digest>>

\* A conversation branched off another takes its repository along.
Fork(s, c, new) ==
  /\ conversation[c].exists /\ ~conversation[new].exists
  /\ \A o \in Slots : req[o].new # new
  /\ Start(s, [Loaded("fork", c) EXCEPT !.new = new])

WriteFork(s) ==
  LET r == req[s]
      possible == r.repo \in {None} \cup {o \in Repositories : RepositoryExists(o)}
  IN
  /\ Doing(s, "fork", "write")
  /\ \/ /\ possible
        /\ conversation' = [conversation EXCEPT ![r.new] =
             [exists |-> TRUE, parent |-> r.conv, coding |-> r.coding, repository |-> r.repo]]
        /\ Go(s, IF r.repo = None THEN Free ELSE [r EXCEPT !.pc = "resolve"])
        /\ UNCHANGED <<repository, branch, opened, memory, records, commits, digest>>
     \/ /\ ~possible
        /\ End(s) /\ UNCHANGED tables

\* A conversation restored from the package of commit k starts on its own.
Restore(s, k, new) ==
  /\ ~conversation[new].exists
  /\ \A o \in Slots : req[o].new # new
  /\ Start(s, [Loaded("restore", commits[k].conversation) EXCEPT
                 !.new = new, !.commit = k, !.package = k])

WriteRestore(s) ==
  LET r == req[s] IN
  /\ Doing(s, "restore", "write")
  /\ conversation' = [conversation EXCEPT ![r.new] = NewConversation]
  /\ Go(s, [r EXCEPT !.pc = "resolve"])
  /\ UNCHANGED <<repository, branch, opened, memory, records, commits, digest>>

-----------------------------------------------------------------------------
\* Pushes and what a branch is compared with.

\* A plugin tells that the branch is synchronised; it may name the commit and
\* the package, else they are the conversation's newest.
Push(s, b, commit, package) ==
  /\ BranchExists(b) /\ ~Detached(b) /\ Latest(b).conversation # None
  /\ Start(s, [Free EXCEPT !.op = "push", !.pc = "write", !.branch = b,
                           !.subject = Latest(b).conversation, !.seen = memory[b].version,
                           !.repo = branch[b].repository, !.commit = commit,
                           !.package = package, !.named = commit # NoId \/ package # NoId])

\* Mutant: the package is looked up before the commit.
PushReadPackageFirst(s) ==
  LET r == req[s] IN
  /\ UNCHANGED tables
  /\ \/ /\ Doing(s, "push", "write")
        /\ Go(s, IF conversation[r.subject].repository # r.repo THEN Free
                 ELSE [r EXCEPT !.pc = "package", !.repo = None,
                         !.package = IF @ = NoId THEN NewestPackage(r.subject) ELSE @])
     \/ /\ At(s, "package")
        /\ Go(s, [r EXCEPT !.pc = "append",
                          !.commit = IF @ = NoId THEN NewestCommit(r.subject) ELSE @])

\* The conversation must still be attached to the branch's repository; its
\* newest commit is looked up, and then its newest package.
PushRead(s) ==
  LET r == req[s] IN
  /\ UNCHANGED tables
  /\ \/ /\ Doing(s, "push", "write")
        /\ Go(s, IF conversation[r.subject].repository # r.repo THEN Free
                 ELSE [r EXCEPT !.pc = "package", !.repo = None,
                         !.commit = IF @ = NoId THEN NewestCommit(r.subject) ELSE @])
     \/ /\ At(s, "package")
        /\ Go(s, [r EXCEPT !.pc = "append",
                          !.package = IF @ = NoId THEN NewestPackage(r.subject) ELSE @])

\* The state a branch is reported in: what its latest record names against the
\* newest commit and package of the conversation (every package has version 1).
SyncState(b) ==
  LET last == Latest(b)
      commit == NewestCommit(last.conversation)
      package == NewestPackage(last.conversation)
  IN
  CASE Detached(b) -> "detached"
    [] ~Detached(b) /\ last.conversation = None -> "detached"
    [] ~Detached(b) /\ last.conversation # None ->
         IF conversation[last.conversation].repository # branch[b].repository THEN "detached"
         ELSE IF last.commit = commit /\ last.package = package THEN "synced"
         ELSE IF commit = NoId /\ last.commit # NoId THEN "behind"
         ELSE IF commit # NoId /\ last.commit = NoId THEN "ahead"
         ELSE IF commit = last.commit THEN "conflict"
         ELSE IF commits[commit].created > commits[last.commit].created THEN "ahead"
         ELSE "behind"

\* Reading the digest, or the pull package or handoff made of it, builds it
\* when there is none; otherwise nothing changes.
ReadDigest(s, b) ==
  /\ BranchExists(b) /\ digest[b].version = 0
  /\ Start(s, Rebuilding(Free, {b}, "free"))

-----------------------------------------------------------------------------
\* Branches and repositories.

CreateBranch(s, r, n, default) ==
  /\ RepositoryExists(r) /\ ~Taken(r, n)
  /\ Start(s, [Free EXCEPT !.op = "branch", !.pc = "write", !.target = r, !.name = n,
                 !.default = default,
                 !.marks = IF ~default THEN {}
                           ELSE {<<b, 0>> : b \in {o \in BranchesOf(r) : branch[o].default}}])

\* The default flags that were read are cleared and the branch is inserted.
WriteBranch(s) ==
  LET r == req[s] IN
  /\ Doing(s, "branch", "write")
  /\ \/ /\ CanOpen(r.target, r.name)
        /\ OpenBranch(r.target, r.name, r.default, {m[1] : m \in r.marks})
        /\ Go(s, Rebuilding([Free EXCEPT !.op = "branch"], {opened + 1}, "free"))
        /\ UNCHANGED <<repository, conversation, commits, digest>>
     \/ /\ ~CanOpen(r.target, r.name)
        /\ End(s) /\ UNCHANGED tables

RenameBranch(s, b, n) ==
  /\ BranchExists(b) /\ ~Taken(branch[b].repository, n)
  /\ Once(s)
  /\ branch' = [branch EXCEPT ![b].name = n]
  /\ UNCHANGED <<repository, conversation, opened, memory, records, commits, digest>>

\* Mutant: the default branch can be archived.
ArchiveAnyBranch(s, b) ==
  /\ BranchExists(b) /\ branch[b].active
  /\ Once(s)
  /\ branch' = [branch EXCEPT ![b].active = FALSE]
  /\ UNCHANGED <<repository, conversation, opened, memory, records, commits, digest>>

ArchiveBranch(s, b) ==
  /\ BranchExists(b) /\ branch[b].active /\ ~branch[b].default
  /\ Once(s)
  /\ branch' = [branch EXCEPT ![b].active = FALSE]
  /\ UNCHANGED <<repository, conversation, opened, memory, records, commits, digest>>

RestoreBranch(s, b) ==
  /\ BranchExists(b) /\ ~branch[b].active
  /\ Once(s)
  /\ branch' = [branch EXCEPT ![b].active = TRUE]
  /\ UNCHANGED <<repository, conversation, opened, memory, records, commits, digest>>

\* Rows of a branch go with it: its memory, its records, its digest.
Removed(gone) ==
  /\ branch' = [b \in BranchIds |-> IF b \in gone THEN NoBranch ELSE branch[b]]
  /\ memory' = [b \in BranchIds |-> IF b \in gone THEN NoMemory ELSE memory[b]]
  /\ records' = [b \in BranchIds |-> IF b \in gone THEN <<>> ELSE records[b]]
  /\ digest' = [b \in BranchIds |-> IF b \in gone THEN NoDigest ELSE digest[b]]
  /\ UNCHANGED <<opened, commits>>

DeleteBranch(s, b) ==
  /\ BranchExists(b) /\ ~branch[b].active /\ ~branch[b].default
  /\ Start(s, [Free EXCEPT !.op = "prune", !.pc = "write", !.branch = b])

WritePrune(s) ==
  /\ Doing(s, "prune", "write")
  /\ Removed({req[s].branch})
  /\ End(s)
  /\ UNCHANGED <<repository, conversation>>

CreateRepository(s, r) ==
  /\ repository[r] = "absent"
  /\ Once(s)
  /\ repository' = [repository EXCEPT ![r] = "live"]
  /\ UNCHANGED <<conversation, branch, opened, memory, records, commits, digest>>

ArchiveRepository(s, r) ==
  /\ repository[r] = "live"
  /\ Once(s)
  /\ repository' = [repository EXCEPT ![r] = "archived"]
  /\ UNCHANGED <<conversation, branch, opened, memory, records, commits, digest>>

RestoreRepository(s, r) ==
  /\ repository[r] = "archived"
  /\ Once(s)
  /\ repository' = [repository EXCEPT ![r] = "live"]
  /\ UNCHANGED <<conversation, branch, opened, memory, records, commits, digest>>

\* A repository is deleted when no conversation was attached to it.
DeleteRepository(s, r) ==
  /\ RepositoryExists(r)
  /\ \A c \in Conversations : conversation[c].repository # r
  /\ Start(s, [Free EXCEPT !.op = "delete", !.pc = "write", !.target = r])

\* Mutant: a conversation attached meanwhile keeps pointing to it.
WriteDeleteOnly(s) ==
  LET r == req[s].target IN
  /\ Doing(s, "delete", "write")
  /\ Removed(BranchesOf(r))
  /\ repository' = [repository EXCEPT ![r] = "deleted"]
  /\ End(s)
  /\ UNCHANGED conversation

\* Its branches go with it; a conversation attached meanwhile loses it.
WriteDelete(s) ==
  LET r == req[s].target IN
  /\ Doing(s, "delete", "write")
  /\ Removed(BranchesOf(r))
  /\ repository' = [repository EXCEPT ![r] = "deleted"]
  /\ conversation' = [c \in Conversations |->
       IF conversation[c].repository = r THEN [conversation[c] EXCEPT !.repository = None]
       ELSE conversation[c]]
  /\ End(s)

-----------------------------------------------------------------------------
Begin(s) ==
  \/ \E c \in Conversations, r \in Repositories : Attach(s, c, r)
  \/ \E c \in Conversations : Detach(s, c)
  \/ \E c \in Conversations : EnableCoding(s, c)
  \/ \E c \in Conversations : DisableCoding(s, c)
  \/ \E c \in Conversations : CreateCommit(s, c)
  \/ \E c, new \in Conversations : Fork(s, c, new)
  \/ \E k \in DOMAIN commits, new \in Conversations : Restore(s, k, new)
  \/ \E b \in BranchIds, k, p \in {NoId} \cup DOMAIN commits :
       (k = NoId \/ p = NoId) /\ Push(s, b, k, p)
  \/ \E b \in BranchIds : ReadDigest(s, b)
  \/ \E r \in Repositories, n \in Names, d \in BOOLEAN : CreateBranch(s, r, n, d)
  \/ \E b \in BranchIds, n \in Names : RenameBranch(s, b, n)
  \/ \E b \in BranchIds : ArchiveBranch(s, b)
  \/ \E b \in BranchIds : RestoreBranch(s, b)
  \/ \E b \in BranchIds : DeleteBranch(s, b)
  \/ \E r \in Repositories : CreateRepository(s, r)
  \/ \E r \in Repositories : ArchiveRepository(s, r)
  \/ \E r \in Repositories : RestoreRepository(s, r)
  \/ \E r \in Repositories : DeleteRepository(s, r)

Continue(s) ==
  \/ WriteAttach(s) \/ Refresh(s) \/ WriteDetach(s) \/ Collect(s) \/ DropAll(s)
  \/ WriteDisable(s) \/ TakeTime(s) \/ WriteCommit(s) \/ WriteFork(s) \/ WriteRestore(s)
  \/ Resolve(s) \/ OpenDefault(s) \/ AppendRecord(s) \/ ReadForDigest(s) \/ Publish(s)
  \/ PushRead(s) \/ WriteBranch(s) \/ WritePrune(s) \/ WriteDelete(s)
  \/ Stop(s)

Next == \E s \in Slots : Begin(s) \/ Continue(s)

Spec == Init /\ [][Next]_vars

-----------------------------------------------------------------------------
\* The counters of a branch memory and the numbers of its records are one: no
\* record is lost, none shares its number, and "ready" means that the latest
\* record is a push, however many requests append at the same time.  This is
\* what _append_sync_record keeps with a version read long before.
VersionsAgree ==
  \A b \in BranchIds :
    /\ \A i \in DOMAIN records[b] : records[b][i].number = i
    /\ memory[b].version = Len(records[b])
    /\ memory[b].synced = memory[b].version
    /\ memory[b].latest = memory[b].version
    /\ BranchExists(b) <=> Len(records[b]) > 0
    /\ BranchExists(b) => (memory[b].ready <=> Latest(b).kind = "push")

\* A digest describes one record of its branch, whatever was appended while it
\* was built: build_repository_memory never mixes two.
DigestDescribesRecord ==
  \A b \in BranchIds : digest[b].version > 0 =>
    /\ digest[b].sync \in DOMAIN records[b]
    /\ LET shown == records[b][digest[b].sync] IN
       digest[b].commit = IF shown.kind = "detach" THEN NoId ELSE shown.commit

\* A branch is in conflict only for a reason: a client has named a commit or a
\* package itself; or a push that a commit of its conversation came between has
\* been handed on to another conversation, which takes over what is recorded
\* last; or two commits of its conversation overlapped, and the one dated first
\* has the package generated last.  register_push looks the two up in two
\* queries: as long as its conversation stays, a commit in between leaves the
\* branch ahead.
Split(record) == record.kind = "push" /\ record.commit # record.package
HandedOn(history, n) ==
  \E i, j \in 1 .. n : i < j /\ Split(history[i])
                      /\ history[j].conversation # history[i].conversation
NamedBy(history, n) == \E i \in 1 .. n : history[i].named
Crossed(c) ==
  \E k, o \in CommitsOf(c) : /\ commits[k].created < commits[o].created
                            /\ commits[o].generated < commits[k].generated
ConflictHasCause ==
  \A b \in BranchIds : BranchExists(b) /\ SyncState(b) = "conflict" =>
    \/ NamedBy(records[b], Len(records[b]))
    \/ HandedOn(records[b], Len(records[b]))
    \/ Crossed(Latest(b).conversation)

\* A branch that was never opened is not there.
Numbered == \A b \in BranchIds : b > opened => ~BranchExists(b)

\* Parents are there, every chain of them ends, and a commit's conversation is
\* there.
Families ==
  /\ \A c \in Conversations :
       /\ ~conversation[c].exists => conversation[c].parent = None
       /\ conversation[c].parent # None => conversation[conversation[c].parent].exists
       /\ \E a \in Lineage(c) : conversation[a].parent = None
  /\ \A k \in DOMAIN commits : conversation[commits[k].conversation].exists

\* A record that was neither named nor handed on, nor follows one that was,
\* differs in commit and package only after a push that a commit came between;
\* then its package is its conversation's, and one that was generated after the
\* commit's, unless the commit is another conversation's.
RecordsSound ==
  \A b \in BranchIds : \A n \in DOMAIN records[b] :
    LET record == records[b][n] IN
    /\ record.commit <= Len(commits)
    /\ record.commit # record.package /\ ~NamedBy(records[b], n) /\ ~HandedOn(records[b], n) =>
         /\ record.package \in CommitsOf(record.conversation)
         /\ record.commit \in CommitsOf(record.conversation) =>
              commits[record.commit].generated < commits[record.package].generated
         /\ \E i \in 1 .. n : Split(records[b][i])

\* No timestamp was taken twice, by commits or by requests that will write one.
StampsSound ==
  /\ \A k \in DOMAIN commits :
       commits[k].created \in 1 .. clock /\ commits[k].generated \in 1 .. clock
  /\ \A s \in Slots : req[s].created <= clock /\ req[s].generated <= clock
  /\ \A k, o \in DOMAIN commits : k # o =>
       commits[k].created # commits[o].created /\ commits[k].generated # commits[o].generated
  /\ \A k \in DOMAIN commits, s \in Slots :
       commits[k].created # req[s].created /\ commits[k].generated # req[s].generated
  /\ \A s, t \in Slots : s # t =>
       /\ req[s].created # 0 => req[s].created # req[t].created
       /\ req[s].generated # 0 => req[s].generated # req[t].generated

\* Version v of branch b has been read; nothing has been appended since.
Seen(b, v) == b \in 1 .. opened /\ (BranchExists(b) => v <= memory[b].version)
Current(b, v) == BranchExists(b) /\ memory[b].version = v

\* Where a request is, or will be when it has rebuilt its digests.
Stage(r) == IF r.pc \in {"rebuild", "publish"} THEN r.then ELSE r.pc

\* What is set when a request needs it.
Equipped(r) ==
  LET loading == \/ Stage(r) \in {"date", "generate", "refresh", "collect", "drop", "resolve"}
                 \/ Stage(r) = "write" /\ r.op \in {"attach", "detach", "disable",
                                                    "commit", "fork", "restore"}
  IN
  /\ loading => r.conv # None
  /\ Stage(r) = "write" /\ r.op \in {"attach", "branch", "delete"} => r.target # None
  /\ Stage(r) = "write" /\ r.op = "detach" => r.repo # None
  /\ Stage(r) = "write" /\ r.op \in {"fork", "restore"} => r.new # None
  /\ Stage(r) \in {"date", "generate"} => r.op = "commit"
  /\ r.pc = "generate" => r.created # 0
  /\ r.pc = "write" /\ r.op = "commit" => r.created # 0 /\ r.generated # 0
  /\ Stage(r) = "refresh" => r.op = "attach"
  /\ Stage(r) = "collect" => r.op \in {"attach", "detach"} /\ r.prev # None
  /\ Stage(r) = "drop" => r.op \in {"attach", "detach"}
  /\ Stage(r) = "resolve" => r.op \in {"attach", "commit", "fork", "restore"}
  /\ Stage(r) = "resolve" /\ r.op = "restore" => r.new # None
  /\ Stage(r) = "open" => r.op \in {"attach", "commit", "fork", "restore"} /\ r.target # None
  /\ Stage(r) = "append" => r.op \in {"attach", "commit", "fork", "restore", "push"}
  /\ Stage(r) = "package" => r.op = "push"
  /\ Stage(r) \in {"open", "append"} => r.subject # None
  /\ r.pc \in {"rebuild", "publish"} => r.op # "push" /\ r.then \in {"free", "append", "resolve"}
  /\ r.op # "push" => ~r.named /\ r.commit = r.package
  /\ r.op = "attach" => r.commit = NoId

\* What it has loaded stays.
Loads(r) == (r.conv # None => conversation[r.conv].exists) /\ r.commit <= Len(commits)

\* What a push has looked up.
PushKnows(r) ==
  r.op = "push" /\ Stage(r) \in {"write", "package", "append"} =>
    /\ r.subject # None
    /\ Current(r.branch, r.seen) => /\ ~Detached(r.branch)
                                    /\ Latest(r.branch).conversation = r.subject
    /\ ~r.named =>
         /\ r.pc = "write" => r.commit = NoId
         /\ r.pc # "append" => r.package = NoId
         /\ r.commit # NoId => r.commit \in CommitsOf(r.subject)
         /\ r.pc = "append" /\ r.commit # NoId =>
              /\ r.package \in CommitsOf(r.subject)
              /\ r.commit # r.package =>
                   commits[r.commit].generated < commits[r.package].generated
         /\ r.pc = "append" /\ r.commit = NoId /\ r.package # NoId =>
              r.package \in CommitsOf(r.subject)
         /\ r.pc \in {"package", "append"} /\ r.commit = NoId /\ Current(r.branch, r.seen) =>
              Latest(r.branch).commit \notin CommitsOf(r.subject)

\* What a request knows of the branches it has read.
BranchKnown(r) ==
  /\ Stage(r) = "append" \/ (r.op = "push" /\ Stage(r) \in {"write", "package"}) =>
       Seen(r.branch, r.seen)
  /\ Stage(r) = "drop" =>
       /\ \A m, o \in r.marks : m[1] = o[1] => m = o
       /\ \A m \in r.marks :
            /\ Seen(m[1], m[2])
            /\ Current(m[1], m[2]) => Latest(m[1]).conversation = Root(r.conv)
  /\ r.pc = "write" /\ r.op = "branch" =>
       /\ ~r.default => r.marks = {}
       /\ \A m \in r.marks : m[1] <= opened /\ branch[m[1]].repository \in {r.target, None}
  /\ r.pc = "write" /\ r.op = "prune" => r.branch \in 1 .. opened /\ ~branch[r.branch].default

\* What a request knows of the digests it rebuilds.
DigestKnown(r) ==
  /\ r.pc \in {"rebuild", "publish"} =>
       r.todo \subseteq 1 .. opened /\ (r.then = "append" => r.todo = {r.branch})
  /\ r.pc = "publish" =>
       /\ r.branch \in r.todo
       /\ BranchExists(r.branch) =>
            /\ r.read.sync \in DOMAIN records[r.branch]
            /\ LET shown == records[r.branch][r.read.sync] IN
               r.read.commit = IF shown.kind = "detach" THEN NoId ELSE shown.commit

Knows(r) == Equipped(r) /\ Loads(r) /\ PushKnows(r) /\ BranchKnown(r) /\ DigestKnown(r)

\* Requests that make a conversation make different ones, and there is room for
\* the commits under way.
RequestsKnow ==
  /\ \A r \in {req[s] : s \in Slots} : Knows(r)
  /\ \A s \in Slots : Stage(req[s]) = "write" /\ req[s].op \in {"fork", "restore"} =>
       ~conversation[req[s].new].exists
  /\ \A s, t \in Slots : s # t /\ req[s].new # None => req[s].new # req[t].new
  /\ Len(commits) + Cardinality(Committing) <= MaxCommits

TablesSound ==
  /\ TablesOK /\ VersionsAgree /\ DigestDescribesRecord
  /\ Numbered /\ Families /\ RecordsSound

\* The tables agree with each other, and nothing that a request has read can
\* mislead it when it writes.
Consistent == TypeOK /\ TablesSound /\ RequestsKnow

\* The inductive invariant: the same, while timestamps differ.
MemoryInv == Consistent /\ StampsSound

\* Once a repository has an active default branch it always has one, until it
\* is deleted: creating, archiving, restoring and deleting branches at the
\* same time never take the last one away (two of them may be left, though).
HasDefault(r) == \E b \in BranchesOf(r) : branch[b].default /\ branch[b].active
KeepsDefault ==
  [][\A r \in Repositories :
       HasDefault(r) => HasDefault(r)' \/ repository'[r] = "deleted"]_vars

\* The histories are those SyncHistory promises.
Entries == [kind : Kinds, conversation : Conversations \cup {None},
            commit : CommitIds \cup {NoId}, package : CommitIds \cup {NoId}]
EntryOf(record) == [kind |-> record.kind, conversation |-> record.conversation,
                  commit |-> record.commit, package |-> record.package]
Histories == INSTANCE SyncHistory WITH
  Branches <- BranchIds, Entry <- Entries,
  log <- [b \in BranchIds |-> [i \in DOMAIN records[b] |-> EntryOf(records[b][i])]]
ImplementsHistory == Histories!HistorySpec
=============================================================================
