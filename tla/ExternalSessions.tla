-------------------------- MODULE ExternalSessions --------------------------
(***************************************************************************)
(* The server side of transcript synchronisation: external AI sessions,    *)
(* their append-only transcript chunks and the snapshot assembled from     *)
(* them.                                                                   *)
(*                                                                         *)
(* One HTTP request is one slot.  A handler runs in one database session   *)
(* under READ COMMITTED and is cut into steps at every point where another *)
(* transaction may commit between two of its reads, or between its reads   *)
(* and its own commit.  Rows read are cached by the ORM and not refreshed, *)
(* so a step uses what an earlier step of the same request read.           *)
(*                                                                         *)
(* All the sessions here belong to one (provider, repository, branch,      *)
(* user, machine): the key under which connect looks for one to resume.    *)
(***************************************************************************)
EXTENDS Integers, Sequences

CONSTANTS
  Slots,        \* requests the server can be handling at the same time
  Paths,        \* transcript files a chunk's content can come from
  NoPath,       \* no transcript file
  MaxSessions,  \* bound: external AI sessions ever created
  Faults        \* the faults of a run, a subset of {"loss", "kill", "crash"}

ASSUME SessionsAssumption ==
  /\ MaxSessions \in Nat
  /\ NoPath \notin Paths
  /\ Faults \subseteq {"loss", "kill", "crash"}

SessionIds == 1 .. MaxSessions
NoSession == 0
NoSnapshot == -1

\* A chunk is identified by where its bytes come from: raw_content is the
\* bytes start .. end-1 of the transcript file path.
Chunk == [path : Paths, start : Nat, end : Nat]

Ops == {"connect", "upload", "disconnect", "get", "snapshot"}
Phases == {"free", "new", "create", "refresh", "ensure", "rebuild", "publish",
           "respond", "check", "append", "close", "done"}
Results == {"none", "ok", "conflict", "refused", "error"}

\* op .. path are the request, phase the handler's place, off and count what
\* it has read (last_synced_offset, number of chunks), res the reply.
Request == [op : Ops, sid : Nat, seq : Nat, path : Paths \cup {NoPath},
            start : Nat, end : Nat, phase : Phases, off : Nat, count : Nat,
            res : Results]

VARIABLES
  created,   \* sessions constructed so far; ids are in order of started_at
  status,    \* status[s]: "none" until the row is committed
  synced,    \* last_synced_offset
  chunks,    \* chunks[s][n] is the chunk with sequence_number n
  snapshot,  \* how many chunks the snapshot's content joins, or NoSnapshot
  req        \* the request in each slot

tables == <<created, status, synced, chunks, snapshot>>
serverVars == <<created, status, synced, chunks, snapshot, req>>

FreeSlot == [op |-> "get", sid |-> NoSession, seq |-> 0, path |-> NoPath,
             start |-> 0, end |-> 0, phase |-> "free", off |-> 0,
             count |-> 0, res |-> "none"]

NewRequest(op, s) == [FreeSlot EXCEPT !.op = op, !.sid = s, !.phase = "new"]

UploadRequest(s, n, f, from, to) ==
  [NewRequest("upload", s) EXCEPT !.seq = n, !.path = f, !.start = from, !.end = to]

ServerTypeOK ==
  /\ created \in 0 .. MaxSessions
  /\ status \in [SessionIds -> {"none", "ACTIVE", "CLOSED"}]
  /\ synced \in [SessionIds -> Nat]
  /\ chunks \in [SessionIds -> Seq(Chunk)]
  /\ snapshot \in [SessionIds -> Nat \cup {NoSnapshot}]
  /\ req \in [Slots -> Request]

ServerInit ==
  /\ created = 0
  /\ status = [s \in SessionIds |-> "none"]
  /\ synced = [s \in SessionIds |-> 0]
  /\ chunks = [s \in SessionIds |-> <<>>]
  /\ snapshot = [s \in SessionIds |-> NoSnapshot]
  /\ req = [k \in Slots |-> FreeSlot]

-----------------------------------------------------------------------------
(* Steps of a handler *)

\* Handler k, of operation op, is at phase ph.
At(k, op, ph) == req[k].op = op /\ req[k].phase = ph

Goto(k, ph) == req' = [req EXCEPT ![k].phase = ph]

Reply(k, result) == req' = [req EXCEPT ![k] = [@ EXCEPT !.phase = "done", !.res = result]]

Active == {s \in SessionIds : status[s] = "ACTIVE"}

\* Mutant: connect never looks for a session to resume.
ConnectFindAlwaysNew(k) ==
  /\ At(k, "connect", "new")
  /\ created < MaxSessions
  /\ created' = created + 1
  /\ req' = [req EXCEPT ![k] = [@ EXCEPT !.phase = "create", !.sid = created + 1]]
  /\ UNCHANGED <<status, synced, chunks, snapshot>>

\* Mutant: connect resumes the last session even when it is closed.
ConnectFindReopens(k) ==
  /\ At(k, "connect", "new")
  /\ IF created = 0
     THEN /\ created' = 1
          /\ req' = [req EXCEPT ![k] = [@ EXCEPT !.phase = "create", !.sid = 1]]
          /\ UNCHANGED status
     ELSE /\ status' = [status EXCEPT ![created] = "ACTIVE"]
          /\ req' = [req EXCEPT ![k] = [@ EXCEPT !.phase = "ensure", !.sid = created, !.off = synced[created]]]
          /\ UNCHANGED created
  /\ UNCHANGED <<synced, chunks, snapshot>>

\* _find_resumable_session: the ACTIVE session started last, if any; if there
\* is none, connect constructs one.  The row found is cached with its offset.
ConnectFind(k) ==
  /\ At(k, "connect", "new")
  /\ \/ \E s \in Active :
          /\ \A t \in Active : t <= s
          /\ req' = [req EXCEPT ![k] = [@ EXCEPT !.phase = "ensure", !.sid = s, !.off = synced[s]]]
          /\ UNCHANGED created
     \/ /\ Active = {}
        /\ created < MaxSessions
        /\ created' = created + 1
        /\ req' = [req EXCEPT ![k] = [@ EXCEPT !.phase = "create", !.sid = created + 1]]
  /\ UNCHANGED <<status, synced, chunks, snapshot>>

\* The new session is committed on its own; its snapshot follows in a second
\* transaction.
ConnectCreate(k) ==
  /\ At(k, "connect", "create")
  /\ status' = [status EXCEPT ![req[k].sid] = "ACTIVE"]
  /\ synced' = [synced EXCEPT ![req[k].sid] = 0]
  /\ req' = [req EXCEPT ![k] = [@ EXCEPT !.phase = "refresh", !.off = 0]]
  /\ UNCHANGED <<created, chunks, snapshot>>

\* Its row is read again; another process may have resumed it by then.
ConnectRefresh(k) ==
  /\ At(k, "connect", "refresh")
  /\ req' = [req EXCEPT ![k] = [@ EXCEPT !.phase = "rebuild", !.off = synced[req[k].sid]]]
  /\ UNCHANGED tables

\* GET .../snapshot starts with ensure_snapshot, as connect does on a resume.
EnsureSnapshot(k) ==
  /\ At(k, "connect", "ensure") \/ At(k, "snapshot", "new")
  /\ Goto(k, IF snapshot[req[k].sid] = NoSnapshot THEN "rebuild" ELSE "respond")
  /\ UNCHANGED tables

\* rebuild_snapshot reads the chunks ...
RebuildRead(k) ==
  /\ req[k].phase = "rebuild"
  /\ req' = [req EXCEPT ![k] = [@ EXCEPT !.phase = "publish", !.count = Len(chunks[req[k].sid])]]
  /\ UNCHANGED tables

\* ... and later looks for the snapshot row and writes it, with the content it
\* joined from them.
RebuildPublish(k) ==
  /\ req[k].phase = "publish"
  /\ snapshot' = [snapshot EXCEPT ![req[k].sid] = req[k].count]
  /\ Goto(k, "respond")
  /\ UNCHANGED <<created, status, synced, chunks>>

\* _to_response counts the chunks now; last_synced_offset is the cached row's.
Respond(k) ==
  /\ req[k].phase = "respond"
  /\ req' = [req EXCEPT ![k] = [@ EXCEPT !.phase = "done", !.res = "ok", !.count = Len(chunks[req[k].sid])]]
  /\ UNCHANGED tables

\* Mutant: the status is not checked.
UploadLoadAnyStatus(k) ==
  /\ At(k, "upload", "new")
  /\ IF req[k].end <= req[k].start THEN Reply(k, "refused")
     ELSE IF req[k].start # synced[req[k].sid] THEN Reply(k, "conflict")
     ELSE Goto(k, "check")
  /\ UNCHANGED tables

\* upload_chunk loads the session row and checks status and offsets on it.
UploadLoad(k) ==
  /\ At(k, "upload", "new")
  /\ LET r == req[k] IN
     \/ status[r.sid] # "ACTIVE" /\ Reply(k, "refused")
     \/ status[r.sid] = "ACTIVE" /\ r.end <= r.start /\ Reply(k, "refused")
     \/ status[r.sid] = "ACTIVE" /\ r.end > r.start /\ r.start # synced[r.sid]
        /\ Reply(k, "conflict")
     \/ status[r.sid] = "ACTIVE" /\ r.end > r.start /\ r.start = synced[r.sid]
        /\ Goto(k, "check")
  /\ UNCHANGED tables

\* _next_sequence_number is a second read.
UploadCheck(k) ==
  /\ At(k, "upload", "check")
  /\ IF req[k].seq = Len(chunks[req[k].sid]) + 1 THEN Goto(k, "append")
                                                 ELSE Reply(k, "conflict")
  /\ UNCHANGED tables

\* Mutant: upload_chunk leaves the snapshot to the next connect.
StoreWithoutRebuild(r, n) ==
  /\ chunks' = [chunks EXCEPT ![r.sid] =
                  Append(@, [path |-> r.path, start |-> r.start, end |-> r.end])]
  /\ synced' = [synced EXCEPT ![r.sid] = r.end]
  /\ UNCHANGED snapshot

\* What appending the chunk of request r as number n of its session does.
Store(r, n) ==
  /\ chunks' = [chunks EXCEPT ![r.sid] =
                  Append(@, [path |-> r.path, start |-> r.start, end |-> r.end])]
  /\ synced' = [synced EXCEPT ![r.sid] = r.end]
  /\ snapshot' = [snapshot EXCEPT ![r.sid] = n]

\* Mutant: no unique(session, sequence_number), so the loser is stored as well.
UploadAppendNotUnique(k) ==
  /\ At(k, "upload", "append")
  /\ Store(req[k], Len(chunks[req[k].sid]) + 1)
  /\ Reply(k, "ok")
  /\ UNCHANGED <<created, status>>

\* The chunk, the offset and the rebuilt snapshot are one commit.  The row
\* lock taken by the flush orders two appends to a session; the loser's insert
\* violates unique(session, sequence_number) and everything is rolled back.
UploadAppend(k) ==
  /\ At(k, "upload", "append")
  /\ LET r == req[k]
         n == Len(chunks[r.sid])
     IN \/ /\ n >= r.seq
           /\ Reply(k, "error")
           /\ UNCHANGED <<synced, chunks, snapshot>>
        \/ /\ n < r.seq
           /\ Store(r, n + 1)
           /\ Reply(k, "ok")
  /\ UNCHANGED <<created, status>>

DisconnectLoad(k) ==
  /\ At(k, "disconnect", "new")
  /\ IF status[req[k].sid] = "CLOSED" THEN Reply(k, "ok") ELSE Goto(k, "close")
  /\ UNCHANGED tables

DisconnectCommit(k) ==
  /\ At(k, "disconnect", "close")
  /\ status' = [status EXCEPT ![req[k].sid] = "CLOSED"]
  /\ Reply(k, "ok")
  /\ UNCHANGED <<created, synced, chunks, snapshot>>

\* GET /external-ai-sessions/{id}
GetSession(k) ==
  /\ At(k, "get", "new")
  /\ req' = [req EXCEPT ![k] = [@ EXCEPT !.phase = "done", !.res = "ok", !.off = synced[req[k].sid]]]
  /\ UNCHANGED tables

\* The open transaction is rolled back: the server stops, the database
\* connection is lost, or a concurrent rebuild inserted the snapshot row between
\* this one's look and its insert.
ServerFail(k) ==
  /\ "crash" \in Faults
  /\ req[k].phase \notin {"free", "done"}
  /\ Reply(k, "error")
  /\ UNCHANGED tables

ServerStep(k) ==
  \/ ConnectFind(k) \/ ConnectCreate(k) \/ ConnectRefresh(k) \/ EnsureSnapshot(k)
  \/ RebuildRead(k) \/ RebuildPublish(k) \/ Respond(k)
  \/ UploadLoad(k) \/ UploadCheck(k) \/ UploadAppend(k)
  \/ DisconnectLoad(k) \/ DisconnectCommit(k) \/ GetSession(k)

-----------------------------------------------------------------------------
(* Safety *)

\* The offset up to which a list of chunks reaches.
EndOf(list) == IF list = <<>> THEN 0 ELSE list[Len(list)].end

\* The chunks of a session join without gap or overlap, from offset 0 up to
\* last_synced_offset, whatever uploads raced on it (upload_chunk checks
\* offset and sequence with two separate reads and takes no lock first).
Contiguous ==
  \A s \in SessionIds :
    /\ synced[s] = EndOf(chunks[s])
    /\ \A n \in DOMAIN chunks[s] :
         /\ chunks[s][n].start < chunks[s][n].end
         /\ chunks[s][n].start = IF n = 1 THEN 0 ELSE chunks[s][n - 1].end

\* The assembled transcript is the one of the session's chunks: once a chunk
\* is stored the snapshot joins all of them (rebuild_snapshot, and the model's
\* docstring "Deterministic assembled transcript for one external AI session").
SnapshotMatchesChunks ==
  \A s \in SessionIds : chunks[s] # <<>> => snapshot[s] = Len(chunks[s])

\* connect resumes rather than duplicates: a machine has one ACTIVE session.
SingleActiveSession ==
  \A s, t \in Active : s = t

=============================================================================
