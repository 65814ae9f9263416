--------------------------- MODULE Conversations ---------------------------
(***************************************************************************)
(* Conversations of one workspace: participants, messages, answers of the  *)
(* assistant, commits with their context packages, branches and restored   *)
(* conversations, and the views derived from them (insights).              *)
(*                                                                         *)
(* One HTTP request is one slot.  A message carries the time at which its  *)
(* transaction began and becomes visible when the transaction commits: the *)
(* two orders differ when requests overlap, and an answer carries the time *)
(* its question was stored, however long the provider takes.  The tables   *)
(* are sequences in the order of commit; a row is named by its position.   *)
(***************************************************************************)
EXTENDS Integers, Sequences, FiniteSets

CONSTANTS
  Users,             \* the members of the workspace (nobody ever leaves one)
  Slots,             \* requests the server can be handling at the same time
  MaxConversations,  \* bound: conversations ever created
  MaxMessages,       \* bound: no message or copy is begun beyond it
  MaxCommits,        \* bound: no commit is begun beyond it
  MaxRequests        \* bound: requests ever made

ASSUME ConversationsAssumption ==
  /\ {MaxConversations, MaxMessages, MaxCommits, MaxRequests} \subseteq Nat
  /\ MaxConversations > 0
  /\ IsFiniteSet(Users)

None == 0   \* no conversation, no message, no commit

VARIABLES
  conversation,  \* the conversations
  participant,   \* participant[c][u]: "owner", "member" or "none"
  message,       \* the messages
  commit,        \* the commits, each with its context package
  clock,         \* the times messages were given
  begun,         \* commits begun, the order of their created_at
  req,           \* the request in each slot
  issued         \* requests made

vars == <<conversation, participant, message, commit, clock, begun, req, issued>>
tables == <<conversation, participant, message, commit>>
clocks == <<clock, begun>>

\* point is the message a branch starts from; upto what was visible when its
\* messages were copied, as for the package of a commit.
Conversation == [parent : Nat, point : Nat, source : Nat, owner : Users,
                 upto : Nat, live : BOOLEAN]
\* origin stands for role and text; a copy keeps them, and the time, but gets
\* no checkpoint.
Message == [conversation : Nat, time : Nat, origin : Nat, checkpoint : BOOLEAN, copy : BOOLEAN]
Commit == [conversation : Nat, message : Nat, parent : Nat, created : Nat, upto : Nat,
           introduced : SUBSET Nat, people : SUBSET Users]
Roles == {"owner", "member", "none"}
Pcs == {"free", "store", "answer", "date", "package", "commit"}

\* row holds the commit being made, when there is one.
Request == [pc : Pcs, conversation : Nat, time : Nat, chat : BOOLEAN, row : Seq(Commit)]
Free == [pc |-> "free", conversation |-> None, time |-> 0, chat |-> FALSE, row |-> <<>>]

\* A conversation somebody has just created.
Init ==
  /\ \E u \in Users :
       /\ conversation = <<[parent |-> None, point |-> None, source |-> None, owner |-> u,
                           upto |-> 0, live |-> TRUE]>>
       /\ participant = <<[v \in Users |-> IF v = u THEN "owner" ELSE "none"]>>
  /\ message = <<>> /\ commit = <<>>
  /\ clock = 0 /\ begun = 0
  /\ req = [s \in Slots |-> Free]
  /\ issued = 0

TypeOK ==
  /\ conversation \in Seq(Conversation)
  /\ participant \in Seq([Users -> Roles])
  /\ message \in Seq(Message)
  /\ commit \in Seq(Commit)
  /\ clock \in Nat /\ begun \in Nat
  /\ req \in [Slots -> Request]
  /\ issued \in 0 .. MaxRequests

-----------------------------------------------------------------------------
\* The tables, as a query sees them.

In(c) == {m \in DOMAIN message : message[m].conversation = c}
UpTo(c, time) == {m \in In(c) : message[m].time <= time}

\* The messages ms of a conversation by time: the i-th is the one that i of
\* them, itself included, are not later than.
Rank(ms, m) == Cardinality({n \in ms : message[n].time <= message[m].time})
InOrder(ms) == [i \in 1 .. Cardinality(ms) |-> CHOOSE m \in ms : Rank(ms, m) = i]

CommitsOf(c) == {k \in DOMAIN commit : commit[k].conversation = c}
Participates(u, c) == participant[c][u] # "none"

\* Mutant: the newest commit is looked up among all conversations.
NewestAnywhere(c) ==
  IF commit = <<>> THEN None
  ELSE CHOOSE k \in DOMAIN commit : \A o \in DOMAIN commit : commit[o].created <= commit[k].created

\* The commit of a conversation that was created last.
Newest(c) ==
  IF CommitsOf(c) = {} THEN None
  ELSE CHOOSE k \in CommitsOf(c) : \A o \in CommitsOf(c) : commit[o].created <= commit[k].created

\* Copies of messages, in a new conversation.
Copies(ms, c) ==
  LET order == InOrder(ms) IN
  [i \in DOMAIN order |->
     [message[order[i]] EXCEPT !.conversation = c, !.checkpoint = FALSE, !.copy = TRUE]]

-----------------------------------------------------------------------------
\* Requests.

At(s, pc) == req[s].pc = pc
Go(s, r) == req' = [req EXCEPT ![s] = r] /\ UNCHANGED issued
End(s) == Go(s, Free)

Start(s, r) ==
  /\ At(s, "free") /\ issued < MaxRequests
  /\ req' = [req EXCEPT ![s] = r]
  /\ issued' = issued + 1

\* A request that reads and writes in one transaction on rows nobody changes.
Once(s) == Start(s, Free)

\* A request fails, or the server stops: what it committed stays.
Fail(s) ==
  /\ req[s].pc \in {"answer", "date", "package", "commit"}
  /\ End(s)
  /\ UNCHANGED <<tables, clocks>>

-----------------------------------------------------------------------------
\* Conversations and participants.

NewConversation(u, row, people, copied) ==
  /\ conversation' = Append(conversation, row)
  /\ participant' = Append(participant,
       [v \in Users |-> IF v = u THEN "owner" ELSE IF v \in people THEN "member" ELSE "none"])
  /\ message' = message \o copied
  /\ UNCHANGED <<commit, clocks>>

\* The row of a conversation u creates.
Row(u, parent, point, source) ==
  [parent |-> parent, point |-> point, source |-> source, owner |-> u,
   upto |-> Len(message), live |-> TRUE]

CreateConversation(s, u) ==
  /\ Len(conversation) < MaxConversations
  /\ Once(s)
  /\ NewConversation(u, Row(u, None, None, None), {}, <<>>)

\* The owner archives a conversation, or takes it back.
SetLive(s, c) ==
  /\ Once(s)
  /\ conversation' = [conversation EXCEPT ![c].live = ~@]
  /\ UNCHANGED <<participant, message, commit, clocks>>

AddParticipant(s, c, u) ==
  /\ ~Participates(u, c)
  /\ Once(s)
  /\ participant' = [participant EXCEPT ![c][u] = "member"]
  /\ UNCHANGED <<conversation, message, commit, clocks>>

\* Mutant: the owner can be removed as long as somebody else is left.
RemoveAnyone(s, c, u) ==
  /\ Participates(u, c)
  /\ Cardinality({v \in Users : Participates(v, c)}) > 1
  /\ Once(s)
  /\ participant' = [participant EXCEPT ![c][u] = "none"]
  /\ UNCHANGED <<conversation, message, commit, clocks>>

RemoveParticipant(s, c, u) ==
  /\ u # conversation[c].owner
  /\ Participates(u, c)
  /\ Cardinality({v \in Users : Participates(v, c)}) > 1
  /\ Once(s)
  /\ participant' = [participant EXCEPT ![c][u] = "none"]
  /\ UNCHANGED <<conversation, message, commit, clocks>>

-----------------------------------------------------------------------------
\* Messages and answers.

\* A participant sends a message; the chat, which also answers it, only to a
\* conversation that is not archived.
Send(s, u, c, chat) ==
  /\ Participates(u, c) /\ (chat => conversation[c].live)
  /\ Len(message) < MaxMessages
  /\ Start(s, [Free EXCEPT !.pc = "store", !.conversation = c, !.time = clock + 1, !.chat = chat])
  /\ clock' = clock + 1
  /\ UNCHANGED <<tables, begun>>

Stored(c, time, checkpoint) ==
  message' = Append(message, [conversation |-> c, time |-> time, origin |-> Len(message) + 1,
                              checkpoint |-> checkpoint, copy |-> FALSE])

\* Mutant: the answer is stored under the time of its question.
StoreMessageKeepTime(s) ==
  LET r == req[s] IN
  /\ At(s, "store")
  /\ Stored(r.conversation, r.time, FALSE)
  /\ Go(s, IF r.chat THEN [r EXCEPT !.pc = "answer"] ELSE Free)
  /\ UNCHANGED <<conversation, participant, commit, clocks>>

\* The message becomes visible; the transaction that will store the answer
\* begins with reading it back.
StoreMessage(s) ==
  LET r == req[s] IN
  /\ At(s, "store")
  /\ Stored(r.conversation, r.time, FALSE)
  /\ clock' = IF r.chat THEN clock + 1 ELSE clock
  /\ Go(s, IF r.chat THEN [r EXCEPT !.pc = "answer", !.time = clock + 1] ELSE Free)
  /\ UNCHANGED <<conversation, participant, commit, begun>>

\* The provider has answered: the answer and its checkpoint are stored.
StoreAnswer(s) ==
  LET r == req[s] IN
  /\ At(s, "answer")
  /\ Stored(r.conversation, r.time, TRUE)
  /\ End(s)
  /\ UNCHANGED <<conversation, participant, commit, clocks>>

-----------------------------------------------------------------------------
\* Commits and context packages.

Committing(r) == r.pc \in {"date", "package", "commit"}

\* A commit of message m: refused when there is one of m's checkpoint.  Its
\* parent is the newest commit there is now.
CreateCommit(s, u, c, m) ==
  /\ Participates(u, c) /\ m \in In(c)
  /\ \A k \in DOMAIN commit : commit[k].message # m
  /\ Len(commit) + Cardinality({o \in Slots : Committing(req[o])}) < MaxCommits
  /\ Start(s, [Free EXCEPT !.pc = "date", !.conversation = c,
       !.row = <<[conversation |-> c, message |-> m, parent |-> Newest(c), created |-> 0,
                  upto |-> 0, introduced |-> {}, people |-> {}]>>])
  /\ UNCHANGED <<tables, clocks>>

\* Once the parent has been found, the commit is dated.
TakeTime(s) ==
  LET row == req[s].row[1] IN
  /\ At(s, "date")
  /\ begun' = begun + 1
  /\ Go(s, [req[s] EXCEPT !.pc = "package", !.row = <<[row EXCEPT !.created = begun + 1]>>])
  /\ UNCHANGED <<tables, clock>>

Parent(row) == row.parent # None
Since(row) == IF Parent(row) THEN message[commit[row.parent].message].time ELSE 0

\* Mutant: a package starts after what was visible to the parent's.
IntroducedByInsertion(row) ==
  {m \in UpTo(row.conversation, message[row.message].time) :
     m > IF Parent(row) THEN commit[row.parent].upto ELSE 0}

\* The messages of a package: after the parent's message, up to its own.
Introduced(row) ==
  {m \in UpTo(row.conversation, message[row.message].time) : message[m].time > Since(row)}

\* The package is made from what is visible now.
ReadPackage(s) ==
  LET row == req[s].row[1] IN
  /\ At(s, "package")
  /\ Go(s, [req[s] EXCEPT !.pc = "commit",
       !.row = <<[row EXCEPT !.upto = Len(message), !.introduced = Introduced(row),
                  !.people = {u \in Users : Participates(u, row.conversation)}]>>])
  /\ UNCHANGED <<tables, clocks>>

\* Commit and package are written.  A checkpoint has one commit; but a message
\* without one gets a checkpoint from each request that commits it.
WriteCommit(s) ==
  LET row == req[s].row[1] IN
  /\ At(s, "commit")
  /\ commit' =
       IF message[row.message].checkpoint /\ \E k \in DOMAIN commit : commit[k].message = row.message
       THEN commit ELSE Append(commit, row)
  /\ End(s)
  /\ UNCHANGED <<conversation, participant, message, clocks>>

-----------------------------------------------------------------------------
\* Branches and restored conversations.

\* Mutant: a branch takes the messages that were stored before its point.
BranchByInsertion(s, u, c, m) ==
  /\ Participates(u, c) /\ m \in In(c)
  /\ Len(conversation) < MaxConversations /\ Len(message) < MaxMessages
  /\ Once(s)
  /\ NewConversation(u, Row(u, c, m, None), {},
       Copies({n \in In(c) : n <= m}, Len(conversation) + 1))

\* A branch from message m: its creator's, with copies of all up to m.
Branch(s, u, c, m) ==
  /\ Participates(u, c) /\ m \in In(c)
  /\ Len(conversation) < MaxConversations /\ Len(message) < MaxMessages
  /\ Once(s)
  /\ NewConversation(u, Row(u, c, m, None), {},
       Copies(UpTo(c, message[m].time), Len(conversation) + 1))

\* A conversation made of the package of commit k: the messages it introduced,
\* and its people, as u asks for; u owns it whoever owned the other.
Restore(s, u, k, messages, people) ==
  /\ Len(conversation) < MaxConversations /\ Len(message) < MaxMessages
  /\ Once(s)
  /\ NewConversation(u, Row(u, None, None, k),
       IF people THEN commit[k].people ELSE {},
       IF messages THEN Copies(commit[k].introduced, Len(conversation) + 1) ELSE <<>>)

-----------------------------------------------------------------------------
Begin(s) ==
  \/ \E u \in Users : CreateConversation(s, u)
  \/ \E c \in DOMAIN conversation : SetLive(s, c)
  \/ \E c \in DOMAIN conversation, u \in Users : AddParticipant(s, c, u)
  \/ \E c \in DOMAIN conversation, u \in Users : RemoveParticipant(s, c, u)
  \/ \E u \in Users, c \in DOMAIN conversation, chat \in BOOLEAN : Send(s, u, c, chat)
  \/ \E u \in Users, c \in DOMAIN conversation, m \in DOMAIN message : CreateCommit(s, u, c, m)
  \/ \E u \in Users, c \in DOMAIN conversation, m \in DOMAIN message : Branch(s, u, c, m)
  \/ \E u \in Users, k \in DOMAIN commit, messages, people \in BOOLEAN :
       Restore(s, u, k, messages, people)

Continue(s) ==
  StoreMessage(s) \/ StoreAnswer(s)
  \/ TakeTime(s) \/ ReadPackage(s) \/ WriteCommit(s) \/ Fail(s)

Next == \E s \in Slots : Begin(s) \/ Continue(s)

Spec == Init /\ [][Next]_vars

-----------------------------------------------------------------------------
\* A conversation has one owner, its row's, who always takes part in it:
\* participants come and go by several requests, and a branch or a restored
\* conversation brings the people of another along (remove_participant,
\* _restore_participants).
OwnerParticipates ==
  \A c \in DOMAIN conversation :
    {u \in Users : participant[c][u] = "owner"} = {conversation[c].owner}

\* A commit with the ones before it: whatever is in every set that holds it and
\* the parents of its own.
Ancestry(k) ==
  {j \in DOMAIN commit :
     \A K \in SUBSET DOMAIN commit :
       (k \in K /\ \A i \in K : commit[i].parent \in K \cup {None}) => j \in K}

\* Nothing that was said is lost between two packages: a message up to that of
\* a commit, visible when its package was made, is introduced by this package
\* or one before it, unless it came late, that is, it became visible after the
\* package of an ancestor whose message is later was made.  (The packages can
\* overlap, when a later commit is of an earlier message.)  generate_for_commit
\* cuts at the parent's message with a parent read long before.
PackagesComplete ==
  \A k \in DOMAIN commit :
    \A m \in UpTo(commit[k].conversation, message[commit[k].message].time) :
      m <= commit[k].upto =>
        \E j \in Ancestry(k) :
          \/ m \in commit[j].introduced
          \/ m > commit[j].upto /\ message[m].time <= message[commit[j].message].time

\* Conversations have their participants, and what they were made from is there.
ConversationsSound ==
  /\ Len(participant) = Len(conversation)
  /\ \A row \in {conversation[c] : c \in DOMAIN conversation} :
       /\ row.parent # None => row.point \in In(row.parent)
       /\ row.upto <= Len(message)
  /\ \A c \in DOMAIN conversation : conversation[c].parent < c

\* No two messages of a conversation have the same time, and copies are its
\* oldest ones.
MessagesSound ==
  /\ \A m \in DOMAIN message :
       /\ message[m].conversation \in DOMAIN conversation
       /\ message[m].time \in 1 .. clock
  /\ \A m, n \in DOMAIN message :
       m # n /\ message[m].conversation = message[n].conversation =>
         /\ message[m].time # message[n].time
         /\ message[m].copy /\ ~message[n].copy => message[m].time < message[n].time

\* The copies in a branch are of what was visible up to its point.
Twins(m, n) ==
  message[m].time = message[n].time /\ message[m].origin = message[n].origin
BranchesSound ==
  \A c \in DOMAIN conversation : conversation[c].parent # None =>
    LET row == conversation[c]
        copied == {m \in UpTo(row.parent, message[row.point].time) : m <= row.upto}
        copies == {n \in In(c) : message[n].copy}
    IN  /\ \A m \in copied : \E n \in copies : Twins(m, n)
        /\ \A n \in copies : \E m \in copied : Twins(m, n)

\* A commit, made or in the making, is of a message of its conversation, and
\* its parent is a commit of the same.
RowSound(row) ==
  /\ row.message \in In(row.conversation)
  /\ row.parent # None => row.parent \in CommitsOf(row.conversation)
  /\ row.created <= begun

\* Its package introduces what was visible between the two messages.
PackageSound(row) ==
  /\ row.upto <= Len(message)
  /\ row.introduced \subseteq In(row.conversation)
  /\ \A m \in UpTo(row.conversation, message[row.message].time) :
       m <= row.upto /\ message[m].time > Since(row) => m \in row.introduced

CommitsSound ==
  /\ \A row \in {commit[k] : k \in DOMAIN commit} : RowSound(row) /\ PackageSound(row)
  /\ \A k \in DOMAIN commit : commit[k].parent < k

\* The time of a message to be stored is its own, and later than what has been
\* copied into its conversation.
Storing(r) == r.pc \in {"store", "answer"}
RequestKnows(r) ==
  /\ Storing(r) =>
       /\ r.conversation \in DOMAIN conversation
       /\ r.time \in 1 .. clock
       /\ \A m \in In(r.conversation) :
            message[m].time # r.time /\ (message[m].copy => message[m].time < r.time)
  /\ Committing(r) => Len(r.row) = 1 /\ RowSound(r.row[1])
  /\ r.pc = "commit" => PackageSound(r.row[1])
RequestsKnow ==
  /\ \A r \in {req[s] : s \in Slots} : RequestKnows(r)
  /\ \A s, t \in Slots :
       s # t /\ Storing(req[s]) /\ Storing(req[t]) => req[s].time # req[t].time

\* The inductive invariant.
ConversationsInv ==
  /\ TypeOK /\ ConversationsSound /\ MessagesSound /\ BranchesSound /\ CommitsSound
  /\ RequestsKnow
=============================================================================
