------------------------ MODULE TranscriptSync_proofs ------------------------
(***************************************************************************)
(* Proofs about TranscriptSync, for any number of processes, slots,        *)
(* transcripts and sessions.                                               *)
(***************************************************************************)
EXTENDS TranscriptSync, TLAPS

USE SessionsAssumption, PluginAssumption

-----------------------------------------------------------------------------
(* Type correctness *)

\* A handler that is past its first step, and any other than connect, has a
\* session.
LEMMA HandlerHasSession ==
  ASSUME ServerTypeOK, RequestsKnow, NEW k \in Slots,
         req[k].phase \notin {"free", "done"},
         ~ At(k, "connect", "new")
  PROVE  /\ req[k] \in Request
         /\ req[k].sid \in SessionIds
         /\ chunks[req[k].sid] \in Seq(Chunk)
         /\ Len(chunks[req[k].sid]) \in Nat
BY DEF ServerTypeOK, RequestsKnow, RequestKnows, Request, At, SessionIds

\* Moving a handler on and replying keep the slots well typed.
LEMMA GotoType ==
  ASSUME req \in [Slots -> Request], NEW k \in Slots, NEW ph \in Phases, Goto(k, ph)
  PROVE  req' \in [Slots -> Request]
BY DEF Goto, Request

LEMMA ReplyType ==
  ASSUME req \in [Slots -> Request], NEW k \in Slots, NEW r \in Results, Reply(k, r)
  PROVE  req' \in [Slots -> Request]
<1>1. req[k] \in Request
  OBVIOUS
<1>2. [req[k] EXCEPT !.phase = "done", !.res = r] \in Request
  BY <1>1 DEF Request, Phases
<1>. QED
  BY <1>2 DEF Reply

\* Every handler step keeps the server's tables and requests well typed.
LEMMA ServerStepType ==
  ASSUME ServerTypeOK, RequestsKnow, NEW k \in Slots, ServerStep(k)
  PROVE  ServerTypeOK'
<1>. USE DEF ServerTypeOK, tables
<1>0. req[k] \in Request
  OBVIOUS
<1>1. CASE ConnectFind(k)
  <2>1. CASE \E s \in Active : req' = [req EXCEPT ![k] = [@ EXCEPT !.phase = "ensure", !.sid = s, !.off = synced[s]]]
    <3>1. PICK s \in Active : req' = [req EXCEPT ![k] = [@ EXCEPT !.phase = "ensure", !.sid = s, !.off = synced[s]]]
      BY <2>1
    <3>2. s \in Nat /\ synced[s] \in Nat
      BY <3>1 DEF Active, SessionIds
    <3>3. [req[k] EXCEPT !.phase = "ensure", !.sid = s, !.off = synced[s]] \in Request
      BY <1>0, <3>2 DEF Request, Phases
    <3>. QED
      BY <1>1, <2>1, <3>1, <3>3 DEF ConnectFind
  <2>2. CASE created < MaxSessions /\ created' = created + 1
             /\ req' = [req EXCEPT ![k] = [@ EXCEPT !.phase = "create", !.sid = created + 1]]
    <3>0. created + 1 \in Nat /\ created + 1 \in 0 .. MaxSessions
      BY <2>2
    <3>1. [req[k] EXCEPT !.phase = "create", !.sid = created + 1] \in Request
      BY <1>0, <3>0 DEF Request, Phases
    <3>. QED
      BY <1>1, <2>2, <3>0, <3>1 DEF ConnectFind
  <2>. QED
    BY <1>1, <2>1, <2>2 DEF ConnectFind
<1>2. CASE ConnectCreate(k)
  <2>1. [req[k] EXCEPT !.phase = "refresh", !.off = 0] \in Request
    BY <1>0 DEF Request, Phases
  <2>. QED
    BY <1>2, <2>1 DEF ConnectCreate
<1>3. CASE EnsureSnapshot(k)
  BY <1>3, GotoType DEF EnsureSnapshot, Phases
<1>4. CASE RebuildRead(k)
  <2>1. Len(chunks[req[k].sid]) \in Nat
    BY <1>4, HandlerHasSession DEF RebuildRead, At
  <2>2. [req[k] EXCEPT !.phase = "publish", !.count = Len(chunks[req[k].sid])] \in Request
    BY <1>0, <2>1 DEF Request, Phases
  <2>. QED
    BY <1>4, <2>2 DEF RebuildRead
<1>5. CASE RebuildPublish(k)
  <2>1. snapshot' \in [SessionIds -> Nat \cup {NoSnapshot}]
    BY <1>5, <1>0 DEF RebuildPublish, Request
  <2>. QED
    BY <1>5, <2>1, GotoType DEF RebuildPublish, Phases
<1>6. CASE Respond(k)
  <2>1. Len(chunks[req[k].sid]) \in Nat
    BY <1>6, HandlerHasSession DEF Respond, At
  <2>2. [req[k] EXCEPT !.phase = "done", !.res = "ok", !.count = Len(chunks[req[k].sid])] \in Request
    BY <1>0, <2>1 DEF Request, Phases, Results
  <2>. QED
    BY <1>6, <2>2 DEF Respond
<1>7. CASE UploadLoad(k)
  BY <1>7, GotoType, ReplyType DEF UploadLoad, Phases, Results
<1>8. CASE UploadCheck(k)
  BY <1>8, GotoType, ReplyType DEF UploadCheck, Phases, Results
<1>9. CASE UploadAppend(k)
  <2>1. req' \in [Slots -> Request]
    BY <1>9, ReplyType DEF UploadAppend, Store, Results
  <2>2. req[k].path \in Paths /\ Len(chunks[req[k].sid]) + 1 \in Nat
        /\ chunks[req[k].sid] \in Seq(Chunk)
    <3>1. req[k].op = "upload" /\ req[k].phase = "append"
      BY <1>9 DEF UploadAppend, At
    <3>2. chunks[req[k].sid] \in Seq(Chunk) /\ Len(chunks[req[k].sid]) \in Nat
      BY <3>1, HandlerHasSession DEF At
    <3>3. req[k].path \in Paths
      BY <3>1 DEF RequestsKnow, RequestKnows
    <3>. QED
      BY <3>2, <3>3
  <2>3. req[k].seq \in Nat /\ req[k].end \in Nat
    BY <1>0 DEF Request
  <2>4. CASE Len(chunks[req[k].sid]) >= req[k].seq
    BY <1>9, <2>1, <2>2, <2>3, <2>4 DEF UploadAppend, Store
  <2>5. CASE Len(chunks[req[k].sid]) < req[k].seq
    <3>1. PICK row \in Chunk :
            row = [path |-> req[k].path, start |-> req[k].start, end |-> req[k].end]
      BY <1>0, <2>2 DEF Request, Chunk
    <3>2. Append(chunks[req[k].sid], row) \in Seq(Chunk)
      BY <2>2
    <3>3. /\ chunks' = [chunks EXCEPT ![req[k].sid] = Append(@, row)]
          /\ synced' = [synced EXCEPT ![req[k].sid] = req[k].end]
          /\ snapshot' = [snapshot EXCEPT ![req[k].sid] = Len(chunks[req[k].sid]) + 1]
          /\ UNCHANGED <<created, status>>
      BY <1>9, <2>2, <2>3, <2>5, <3>1 DEF UploadAppend, Store
    <3>4. chunks' \in [SessionIds -> Seq(Chunk)]
      BY <3>2, <3>3
    <3>5. synced' \in [SessionIds -> Nat] /\ snapshot' \in [SessionIds -> Nat \cup {NoSnapshot}]
      BY <2>2, <2>3, <3>3
    <3>. QED
      BY <2>1, <3>3, <3>4, <3>5
  <2>. QED
    BY <2>2, <2>3, <2>4, <2>5
<1>10. CASE DisconnectLoad(k)
  BY <1>10, GotoType, ReplyType DEF DisconnectLoad, Phases, Results
<1>11. CASE DisconnectCommit(k)
  BY <1>11, ReplyType DEF DisconnectCommit, Results
<1>12. CASE GetSession(k)
  <2>1. synced[req[k].sid] \in Nat
    BY <1>12, HandlerHasSession DEF GetSession, At
  <2>2. [req[k] EXCEPT !.phase = "done", !.res = "ok", !.off = synced[req[k].sid]] \in Request
    BY <1>0, <2>1 DEF Request, Phases, Results
  <2>. QED
    BY <1>12, <2>2 DEF GetSession
<1>13. CASE ConnectRefresh(k)
  <2>1. synced[req[k].sid] \in Nat
    BY <1>13, HandlerHasSession DEF ConnectRefresh, At
  <2>2. [req[k] EXCEPT !.phase = "rebuild", !.off = synced[req[k].sid]] \in Request
    BY <1>0, <2>1 DEF Request, Phases
  <2>. QED
    BY <1>13, <2>2 DEF ConnectRefresh
<1>. QED
  BY <1>1, <1>2, <1>3, <1>4, <1>5, <1>6, <1>7, <1>8, <1>9, <1>10, <1>11, <1>12, <1>13 DEF ServerStep

-----------------------------------------------------------------------------
(* A process's own step *)

\* A step in which process p becomes pr, which waits for nothing, and at most
\* frees the slot p waited on, keeps the invariant as long as pr and the state
\* it leaves on disk are sound.
LEMMA ProcessMoves ==
  ASSUME SyncInv, NEW p \in Procs, NEW pr \in Process,
         proc' = [proc EXCEPT ![p] = pr],
         pr.pc \notin Waiting, Bound(pr), Lags(pr.st),
         disk' \in PluginState, Lags(disk'),
         \/ UNCHANGED req
         \/ proc[p].pc \in Waiting /\ TakeAnswer(p),
         UNCHANGED <<tables, size>>
  PROVE  SyncInv'
<1>. USE DEF tables
<1>1. \A q \in Procs : proc'[q] = IF q = p THEN pr ELSE proc[q]
  BY DEF SyncInv, TypeOK
<1>2. FreeSlot \in Request
  BY DEF FreeSlot, Request, Ops, Phases, Results, NoSession
<1>3. \/ UNCHANGED req
      \/ proc[p].pc \in Waiting /\ proc[p].slot \in Slots
         /\ req' = [req EXCEPT ![proc[p].slot] = FreeSlot]
  BY DEF SyncInv, ProcessesWait, TakeAnswer
<1>4. TypeOK'
  <2>1. req' \in [Slots -> Request]
    BY <1>2, <1>3 DEF SyncInv, TypeOK, ServerTypeOK
  <2>2. proc' \in [Procs -> Process]
    BY DEF SyncInv, TypeOK
  <2>. QED
    BY <2>1, <2>2 DEF SyncInv, TypeOK, ServerTypeOK
<1>5. Contiguous' /\ SessionRows'
  BY DEF SyncInv, Contiguous, SessionRows, EndOf
<1>6. RequestsKnow'
  <2>1. RequestKnows(FreeSlot)'
    BY DEF RequestKnows, FreeSlot
  <2>2. \A k \in Slots : RequestKnows(req[k])'
    <3>1. SUFFICES ASSUME NEW k \in Slots PROVE RequestKnows(req[k])'
      OBVIOUS
    <3>2. req'[k] = req[k] \/ req'[k] = FreeSlot
      BY <1>3 DEF SyncInv, TypeOK, ServerTypeOK
    <3>3. RequestKnows(req[k])
      BY DEF SyncInv, RequestsKnow
    <3>. QED
      BY <3>2, <3>3, <2>1 DEF RequestKnows
  <2>3. \A k \in Slots : req'[k].phase = "create" => req'[k] = req[k]
    BY <1>3 DEF SyncInv, TypeOK, ServerTypeOK, FreeSlot
  <2>. QED
    BY <2>2, <2>3 DEF SyncInv, RequestsKnow
<1>7. ProcessesWait'
  <2>1. \A q \in Procs : proc'[q].pc \in Waiting => q # p /\ proc'[q] = proc[q]
    BY <1>1
  <2>2. ASSUME NEW q \in Procs, q # p, proc[q].pc \in Waiting
        PROVE  req'[proc[q].slot] = req[proc[q].slot]
    BY <1>3, <2>2 DEF SyncInv, ProcessesWait, TypeOK, ServerTypeOK
  <2>. QED
    BY <2>1, <2>2 DEF SyncInv, ProcessesWait
<1>8. CopiesLag'
  BY <1>1 DEF SyncInv, CopiesLag, Lags, Bound
<1>. QED
  BY <1>4, <1>5, <1>6, <1>7, <1>8 DEF SyncInv

\* A step in which process p becomes pr, waiting at a free slot k that now
\* holds its request r, keeps the invariant as long as r knows its session.
LEMMA ProcessSends ==
  ASSUME SyncInv, NEW p \in Procs, NEW pr \in Process, NEW k \in Slots, NEW r \in Request,
         proc' = [proc EXCEPT ![p] = pr],
         pr.pc \in Waiting, Bound(pr), Lags(pr.st), pr.slot = k,
         req[k].phase = "free",
         req' = [req EXCEPT ![k] = r],
         r.phase = "new", r.op = OpOf(pr.pc), RequestKnows(r),
         pr.pc # "connecting" => r.sid = pr.st.sid,
         pr.pc = "uploading" => r.seq = pr.st.seq,
         UNCHANGED <<tables, size, disk>>
  PROVE  SyncInv'
<1>. USE DEF tables
<1>1. \A q \in Procs : proc'[q] = IF q = p THEN pr ELSE proc[q]
  BY DEF SyncInv, TypeOK
<1>2. \A j \in Slots : req'[j] = IF j = k THEN r ELSE req[j]
  BY DEF SyncInv, TypeOK, ServerTypeOK
<1>4. TypeOK'
  <2>1. req' \in [Slots -> Request]
    BY DEF SyncInv, TypeOK, ServerTypeOK
  <2>2. proc' \in [Procs -> Process]
    BY DEF SyncInv, TypeOK
  <2>. QED
    BY <2>1, <2>2 DEF SyncInv, TypeOK, ServerTypeOK
<1>5. Contiguous' /\ SessionRows'
  BY DEF SyncInv, Contiguous, SessionRows, EndOf
<1>6. RequestsKnow'
  <2>1. SUFFICES ASSUME NEW j \in Slots PROVE RequestKnows(req[j])'
    BY <1>2 DEF SyncInv, RequestsKnow
  <2>2. RequestKnows(r)'
    BY DEF RequestKnows
  <2>3. RequestKnows(req[j])
    BY DEF SyncInv, RequestsKnow
  <2>. QED
    BY <1>2, <2>2, <2>3 DEF RequestKnows
<1>7. ProcessesWait'
  <2>1. \A q \in Procs : (q # p /\ proc[q].pc \in Waiting) => proc[q].slot # k
    BY DEF SyncInv, ProcessesWait
  <2>2. \A q \in Procs : (q # p /\ proc[q].pc \in Waiting) => req'[proc[q].slot] = req[proc[q].slot]
    BY <1>2, <2>1 DEF SyncInv, ProcessesWait
  <2>. QED
    BY <1>1, <1>2, <2>1, <2>2 DEF SyncInv, ProcessesWait
<1>8. CopiesLag'
  BY <1>1 DEF SyncInv, CopiesLag, Lags, Bound
<1>. QED
  BY <1>4, <1>5, <1>6, <1>7, <1>8 DEF SyncInv

-----------------------------------------------------------------------------
(* Each action of a process *)

LEMMA IdleSound ==
  Idle \in Process /\ Idle.pc \notin Waiting /\ Bound(Idle) /\ Lags(Idle.st)
BY DEF Idle, Process, Pcs, Waiting, HookEvents, FreshState, PluginState, NoSession, Bound, Lags

\* A process that just ends, or that takes its reply and ends, and leaves a
\* sound state on disk.
LEMMA FinishKeeps ==
  ASSUME SyncInv, NEW p \in Procs, Finish(p),
         disk' \in PluginState, Lags(disk'),
         \/ UNCHANGED req
         \/ proc[p].pc \in Waiting /\ TakeAnswer(p),
         UNCHANGED <<tables, size>>
  PROVE  SyncInv'
BY IdleSound, ProcessMoves DEF Finish

\* Begin copies the state on disk, perhaps with another path or dirty.
LEMMA BeginKeeps ==
  ASSUME SyncInv, NEW p \in Procs, NEW ev, NEW f \in Paths \cup {NoPath},
         NEW pc \in {"save", "connect", "flush"}, NEW st \in PluginState,
         Begin(p, ev, f, pc, st),
         st.sid = disk.sid, st.off = disk.off, st.seq = disk.seq,
         (ev = "push" /\ pc # "connect") => st.sid # NoSession
  PROVE  SyncInv'
<1> DEFINE pr == [Idle EXCEPT !.pc = pc, !.ev = ev, !.path = f, !.st = st]
<1>1. pr \in Process
  BY IdleSound DEF Begin, Process, Pcs, HookEvents
<1>2. pr.pc \notin Waiting /\ Bound(pr)
  BY DEF Bound, Idle, Waiting
<1>3. Lags(pr.st)
  BY DEF Idle, SyncInv, CopiesLag, Lags
<1>4. disk' \in PluginState /\ Lags(disk')
  BY DEF Begin, serverVars, SyncInv, TypeOK, CopiesLag, Lags
<1>. QED
  BY <1>1, <1>2, <1>3, <1>4, ProcessMoves DEF Begin, serverVars, tables

LEMMA HookKeeps ==
  ASSUME SyncInv, NEW p \in Procs, NEW f \in Payloads, Hook(p, f)
  PROVE  SyncInv'
<1>1. f \in Paths \cup {NoPath} /\ disk \in PluginState
  BY DEF SyncInv, TypeOK
<1>2. /\ WithPath(disk, f) \in PluginState /\ Dirty(WithPath(disk, f)) \in PluginState
      /\ WithPath(disk, f).sid = disk.sid /\ Dirty(WithPath(disk, f)).sid = disk.sid
      /\ WithPath(disk, f).off = disk.off /\ Dirty(WithPath(disk, f)).off = disk.off
      /\ WithPath(disk, f).seq = disk.seq /\ Dirty(WithPath(disk, f)).seq = disk.seq
  BY <1>1 DEF WithPath, Dirty, PluginState
<1>3. CASE BeginSessionStart(p, f)
  BY <1>1, <1>3, BeginKeeps DEF BeginSessionStart
<1>4. CASE BeginPostToolUse(p, f)
  BY <1>1, <1>2, <1>4, BeginKeeps DEF BeginPostToolUse
<1>5. CASE BeginStop(p, f)
  BY <1>1, <1>2, <1>5, BeginKeeps DEF BeginStop
<1>6. ASSUME NEW ev \in {"compact", "end"}, BeginForcedFlush(p, ev, f)
      PROVE  SyncInv'
  BY <1>1, <1>2, <1>6, BeginKeeps DEF BeginForcedFlush
<1>. QED
  BY <1>3, <1>4, <1>5, <1>6 DEF Hook

LEMMA BeginPushKeeps ==
  ASSUME SyncInv, NEW p \in Procs, BeginPush(p)
  PROVE  SyncInv'
<1>1. disk \in PluginState
  BY DEF SyncInv, TypeOK
<1>2. Dirty(disk) \in PluginState /\ Dirty(disk).sid = disk.sid
      /\ Dirty(disk).off = disk.off /\ Dirty(disk).seq = disk.seq
  BY <1>1 DEF Dirty, PluginState
<1>. QED
  BY <1>1, <1>2, BeginKeeps DEF BeginPush

\* What a process in flight is known to be.
LEMMA ProcessFacts ==
  ASSUME SyncInv, NEW p \in Procs
  PROVE  /\ proc[p] \in Process /\ proc[p].st \in PluginState
         /\ Bound(proc[p]) /\ Lags(proc[p].st)
         /\ disk \in PluginState /\ Lags(disk)
BY DEF SyncInv, TypeOK, CopiesLag, Process

LEMMA SaveKeeps ==
  ASSUME SyncInv, NEW p \in Procs, Save(p)
  PROVE  SyncInv'
<1>1. disk' \in PluginState /\ Lags(disk')
  BY ProcessFacts DEF Save, serverVars, Lags
<1>2. CASE Finish(p)
  BY <1>1, <1>2, FinishKeeps DEF Save, serverVars, tables
<1>3. CASE ~Finish(p)
  <2> DEFINE pr == [proc[p] EXCEPT !.pc = "flush"]
  <2>1. pr \in Process /\ pr.pc \notin Waiting /\ pr.st = proc[p].st
        /\ pr.ev = proc[p].ev /\ pr.pc = "flush"
    BY ProcessFacts DEF Process, Pcs, Waiting
  <2>2. proc' = [proc EXCEPT ![p] = pr]
    BY <1>3 DEF Save
  <2>4. Bound(pr) /\ Lags(pr.st)
    BY <2>1, ProcessFacts DEF Save, Bound, Lags
  <2>. QED
    BY <1>1, <2>1, <2>2, <2>4, ProcessMoves DEF Save, serverVars, tables
<1>. QED
  BY <1>2, <1>3

\* The answer a process takes, and that taking it is one of ProcessMoves's cases.
LEMMA AnswerFacts ==
  ASSUME SyncInv, NEW p \in Procs, NEW pc \in Waiting, Answered(p, pc)
  PROVE  /\ Answer(p) \in Request /\ RequestKnows(Answer(p))
         /\ Answer(p).op = OpOf(pc) /\ Answer(p).phase = "done"
         /\ pc # "connecting" => Answer(p).sid = proc[p].st.sid
         /\ pc = "uploading" => Answer(p).seq = proc[p].st.seq
         /\ proc[p].pc \in Waiting
BY DEF Answered, Answer, SyncInv, TypeOK, ServerTypeOK, ProcessesWait, RequestsKnow

\* Going on after the flush with a sound copy of the state.
LEMMA AfterFlushKeeps ==
  ASSUME SyncInv, NEW p \in Procs, NEW st \in PluginState, NEW goal \in Nat,
         AfterFlush(p, st, goal), Lags(st), proc[p].ev = "push" => st.sid # NoSession,
         disk' \in PluginState, Lags(disk'),
         \/ UNCHANGED req
         \/ proc[p].pc \in Waiting /\ TakeAnswer(p),
         UNCHANGED <<tables, size>>
  PROVE  SyncInv'
<1>1. CASE Finish(p)
  BY <1>1, FinishKeeps
<1>2. CASE ~Finish(p)
  <2>1. PICK pc \in {"disconnect", "verify"} :
          /\ proc' = [proc EXCEPT ![p] = [@ EXCEPT !.pc = pc, !.st = st, !.slot = NoSlot, !.goal = goal]]
          /\ st.sid # NoSession
    BY <1>2 DEF AfterFlush
  <2> DEFINE pr == [proc[p] EXCEPT !.pc = pc, !.st = st, !.slot = NoSlot, !.goal = goal]
  <2>2. pr \in Process /\ pr.pc = pc /\ pr.st = st /\ pr.pc \notin Waiting
    <3>1. proc[p] \in Process /\ pc \in Pcs /\ pc \notin Waiting
      BY ProcessFacts DEF Pcs, Waiting
    <3>. QED
      BY <3>1, Zenon DEF Process
  <2>3. Bound(pr) /\ Lags(pr.st)
    BY <2>1, <2>2 DEF Bound
  <2>. QED
    BY <2>1, <2>2, <2>3, ProcessMoves
<1>. QED
  BY <1>1, <1>2

LEMMA ConnectKeeps ==
  ASSUME SyncInv, NEW p \in Procs, Connect(p)
  PROVE  SyncInv'
<1> DEFINE r == NewRequest("connect", NoSession)
<1>1. r \in Request /\ r.phase = "new" /\ r.op = "connect" /\ RequestKnows(r)
  BY DEF NewRequest, FreeSlot, Request, Ops, Phases, Results, NoSession, RequestKnows
<1>2. PICK k \in Slots : /\ req[k].phase = "free" /\ req' = [req EXCEPT ![k] = r]
                         /\ proc' = [proc EXCEPT ![p] = [@ EXCEPT !.pc = "connecting", !.slot = k]]
  BY DEF Connect, Send
<1> DEFINE pr == [proc[p] EXCEPT !.pc = "connecting", !.slot = k]
<1>3. pr \in Process /\ pr.pc = "connecting" /\ pr.slot = k /\ pr.st = proc[p].st
  BY ProcessFacts DEF Process, Pcs, Waiting
<1>4. Bound(pr) /\ Lags(pr.st) /\ pr.pc \in Waiting /\ r.op = OpOf(pr.pc)
  BY <1>1, <1>3, ProcessFacts DEF Bound, Lags, Waiting, OpOf
<1>. QED
  BY <1>1, <1>2, <1>3, <1>4, ProcessSends DEF Connect, Send

LEMMA ConnectedKeeps ==
  ASSUME SyncInv, NEW p \in Procs, Connected(p)
  PROVE  SyncInv'
<1> DEFINE a  == Answer(p)
           s0 == [proc[p].st EXCEPT !.sid = a.sid, !.off = a.off, !.seq = a.count + 1,
                                    !.dirty = FALSE]
           st == WithPath(s0, proc[p].path)
<1>1. a \in Request /\ RequestKnows(a) /\ a.op = "connect" /\ a.phase = "done" /\ a.res = "ok"
      /\ proc[p].pc \in Waiting
  BY AnswerFacts DEF Connected, Waiting, OpOf
<1>2. a.sid \in SessionIds /\ status[a.sid] # "none" /\ a.off <= synced[a.sid]
      /\ a.count <= Len(chunks[a.sid]) /\ Len(chunks[a.sid]) \in Nat
  BY <1>1 DEF RequestKnows, SyncInv, TypeOK, ServerTypeOK
<1>3. st \in PluginState /\ st.sid = a.sid /\ st.off = a.off /\ st.seq = a.count + 1
  <2>1. a.sid \in Nat /\ a.off \in Nat /\ a.count + 1 \in Nat
    BY <1>1 DEF Request
  <2>2. proc[p].st \in PluginState /\ proc[p].path \in Paths \cup {NoPath}
    BY ProcessFacts DEF Process
  <2>3. s0 \in PluginState /\ s0.sid = a.sid /\ s0.off = a.off /\ s0.seq = a.count + 1
    BY <2>1, <2>2 DEF PluginState
  <2>. HIDE DEF s0
  <2>. QED
    BY <2>2, <2>3 DEF WithPath, PluginState
<1>4. Lags(st) /\ st.sid # NoSession
  BY <1>1, <1>2, <1>3 DEF Lags, Request, SessionIds, NoSession
<1>5. disk' = st /\ TakeAnswer(p) /\ UNCHANGED <<tables, size>>
  BY DEF Connected
<1>6. disk' \in PluginState /\ Lags(disk')
  BY <1>3, <1>4, <1>5 DEF Lags, tables
<1>7. CASE Finish(p)
  BY <1>1, <1>5, <1>6, <1>7, FinishKeeps
<1>8. CASE proc' = [proc EXCEPT ![p] = [@ EXCEPT !.pc = "flush", !.st = Dirty(st), !.slot = NoSlot]]
  <2> DEFINE pr == [proc[p] EXCEPT !.pc = "flush", !.st = Dirty(st), !.slot = NoSlot]
  <2>1. Dirty(st) \in PluginState /\ Dirty(st).sid = st.sid /\ Dirty(st).off = st.off
        /\ Dirty(st).seq = st.seq
    BY <1>3 DEF Dirty, PluginState
  <2>2. pr \in Process /\ pr.pc = "flush" /\ pr.st = Dirty(st) /\ pr.pc \notin Waiting
    <3>. HIDE DEF st
    <3>1. proc[p] \in Process
      BY ProcessFacts
    <3>. QED
      BY <2>1, <3>1 DEF Process, Pcs, Waiting
  <2>3. Bound(pr) /\ Lags(pr.st)
    BY <1>4, <2>1, <2>2 DEF Bound, Lags
  <2>. QED
    BY <1>1, <1>5, <1>6, <1>8, <2>2, <2>3, ProcessMoves
<1>. QED
  BY <1>7, <1>8 DEF Connected

\* The transcript's length, as flush_transcript reads it.
LEMMA LengthType ==
  ASSUME SyncInv, NEW st \in PluginState
  PROVE  Length(st) \in 0 .. MaxSize /\ (Length(st) > st.off => st.path \in Paths)
BY DEF SyncInv, TypeOK, PluginState, Length

LEMMA FlushUnboundKeeps ==
  ASSUME SyncInv, NEW p \in Procs, FlushUnbound(p)
  PROVE  SyncInv'
<1>1. proc[p].ev # "push"
  BY ProcessFacts DEF FlushUnbound, Bound
<1>2. disk' \in PluginState /\ Lags(disk')
  BY ProcessFacts DEF FlushUnbound, serverVars, Lags
<1>. QED
  BY <1>1, <1>2, ProcessFacts, AfterFlushKeeps DEF FlushUnbound, serverVars, tables

LEMMA FlushCleanKeeps ==
  ASSUME SyncInv, NEW p \in Procs, FlushClean(p)
  PROVE  SyncInv'
<1> DEFINE st == [proc[p].st EXCEPT !.dirty = FALSE]
<1>1. st \in PluginState /\ st.sid = proc[p].st.sid /\ st.off = proc[p].st.off
      /\ st.seq = proc[p].st.seq
  BY ProcessFacts DEF PluginState
<1>2. Length(st) \in Nat
  BY <1>1, LengthType
<1>3. disk' = st /\ AfterFlush(p, st, Length(st)) /\ UNCHANGED <<serverVars, size>>
      /\ proc[p].st.sid # NoSession
  BY DEF FlushClean
<1>. HIDE DEF st
<1>4. Lags(st)
  BY <1>1, ProcessFacts DEF Lags
<1>5. Lags(disk')
  BY <1>3, <1>4 DEF Lags, serverVars
<1>. QED
  BY <1>1, <1>2, <1>3, <1>4, <1>5, AfterFlushKeeps DEF serverVars, tables

LEMMA FlushUploadKeeps ==
  ASSUME SyncInv, NEW p \in Procs, FlushUpload(p)
  PROVE  SyncInv'
<1> DEFINE st == proc[p].st
           r  == UploadRequest(st.sid, st.seq, st.path, st.off, Length(st))
<1>1. PICK k \in Slots :
        /\ req[k].phase = "free" /\ req' = [req EXCEPT ![k] = r]
        /\ proc' = [proc EXCEPT ![p] = [@ EXCEPT !.pc = "uploading", !.slot = k, !.goal = Length(st)]]
  BY DEF FlushUpload
<1>2. st.sid # NoSession /\ st.off < Length(st) /\ UNCHANGED <<tables, size, disk>>
  <2>1. Length(st) \in Nat /\ st.off \in Nat
    BY ProcessFacts, LengthType DEF PluginState
  <2>. QED
    BY <2>1 DEF FlushUpload, NothingToSend
<1>3. Length(st) \in 0 .. MaxSize /\ st.path \in Paths
  BY <1>2, ProcessFacts, LengthType DEF PluginState
<1>4. st.sid \in Nat /\ st.seq \in Nat /\ st.off \in Nat /\ Length(st) \in Nat
  BY <1>3, ProcessFacts DEF PluginState
<1> DEFINE pr == [proc[p] EXCEPT !.pc = "uploading", !.slot = k, !.goal = Length(st)]
<1>5. pr \in Process /\ pr.pc = "uploading" /\ pr.slot = k /\ pr.st = st
  <2>1. proc[p] \in Process
    BY ProcessFacts
  <2>. QED
    BY <1>4, <2>1 DEF Process, Pcs, Waiting
<1>6. r \in Request /\ r.phase = "new" /\ r.op = "upload" /\ r.sid = st.sid /\ r.seq = st.seq
      /\ r.path = st.path /\ r.end = Length(st)
  <2>. HIDE DEF st
  <2>. QED
    BY <1>3, <1>4 DEF UploadRequest, NewRequest, FreeSlot, Request, Ops, Phases, Results
<1>7. Lags(st)
  BY ProcessFacts
<1>. HIDE DEF r, pr, st
<1>8. RequestKnows(r)
  BY <1>2, <1>3, <1>6, <1>7 DEF RequestKnows, Lags
<1>9. Bound(pr) /\ Lags(pr.st) /\ pr.pc \in Waiting /\ r.op = OpOf(pr.pc)
  BY <1>2, <1>5, <1>6, <1>7 DEF Bound, Waiting, OpOf
<1>10. proc' = [proc EXCEPT ![p] = pr]
  BY <1>1 DEF pr, st
<1>. QED
  BY <1>1, <1>2, <1>5, <1>6, <1>8, <1>9, <1>10, ProcessSends

LEMMA UploadedKeeps ==
  ASSUME SyncInv, NEW p \in Procs, Uploaded(p)
  PROVE  SyncInv'
<1> DEFINE a  == Answer(p)
           st == [proc[p].st EXCEPT !.off = a.end, !.seq = @ + 1, !.dirty = FALSE]
<1>1. a \in Request /\ RequestKnows(a) /\ a.op = "upload" /\ a.phase = "done" /\ a.res = "ok"
      /\ a.sid = proc[p].st.sid /\ a.seq = proc[p].st.seq /\ proc[p].pc \in Waiting
      /\ proc[p].pc = "uploading"
  BY AnswerFacts DEF Uploaded, Answered, Waiting, OpOf
<1>2. a.sid \in SessionIds /\ status[a.sid] # "none" /\ a.end <= synced[a.sid]
      /\ a.seq <= Len(chunks[a.sid]) /\ Len(chunks[a.sid]) \in Nat /\ a.sid # NoSession
  <2>1. a.sid \in SessionIds /\ status[a.sid] # "none" /\ a.end <= synced[a.sid]
        /\ a.seq <= Len(chunks[a.sid])
    BY <1>1 DEF RequestKnows
  <2>. QED
    BY <2>1 DEF SyncInv, TypeOK, ServerTypeOK, SessionIds, NoSession
<1>3. proc[p].st \in PluginState /\ proc[p].goal \in Nat
  BY ProcessFacts DEF Process
<1>4. a.end \in Nat /\ proc[p].st.seq + 1 \in Nat
  BY <1>1, <1>3 DEF Request, PluginState
<1>5. st \in PluginState /\ st.sid = a.sid /\ st.off = a.end /\ st.seq = a.seq + 1
  <2>. HIDE DEF a
  <2>. QED
    BY <1>1, <1>3, <1>4 DEF PluginState
<1>6. disk' = st /\ AfterFlush(p, st, proc[p].goal) /\ TakeAnswer(p) /\ UNCHANGED <<tables, size>>
  BY DEF Uploaded
<1>. HIDE DEF st, a
<1>7. Lags(st)
  <2>1. a.seq \in Nat
    BY <1>1 DEF Request
  <2>2. a.seq + 1 <= Len(chunks[a.sid]) + 1
    BY <1>2, <2>1
  <2>. QED
    BY <1>2, <1>5, <2>2 DEF Lags
<1>8. Lags(disk')
  BY <1>6, <1>7 DEF Lags, tables
<1>. QED
  BY <1>1, <1>2, <1>3, <1>5, <1>6, <1>7, <1>8, AfterFlushKeeps

\* A request about the session a process is bound to, sent from pc.
LEMMA SendKeeps ==
  ASSUME SyncInv, NEW p \in Procs,
         NEW op \in {"disconnect", "get", "snapshot"}, NEW pc \in Waiting,
         op = OpOf(pc), pc # "connecting", pc # "uploading",
         proc[p].st.sid # NoSession,
         Send(p, NewRequest(op, proc[p].st.sid), pc)
  PROVE  SyncInv'
<1> DEFINE r == NewRequest(op, proc[p].st.sid)
<1>1. PICK k \in Slots : /\ req[k].phase = "free" /\ req' = [req EXCEPT ![k] = r]
                         /\ proc' = [proc EXCEPT ![p] = [@ EXCEPT !.pc = pc, !.slot = k]]
  BY DEF Send
<1> DEFINE pr == [proc[p] EXCEPT !.pc = pc, !.slot = k]
<1>2. proc[p] \in Process /\ proc[p].st \in PluginState /\ Lags(proc[p].st)
  BY ProcessFacts
<1>3. pr \in Process /\ pr.pc = pc /\ pr.slot = k /\ pr.st = proc[p].st
  BY <1>2 DEF Process, Pcs, Waiting
<1>4. proc[p].st.sid \in Nat
  BY <1>2 DEF PluginState
<1>5. r \in Request /\ r.phase = "new" /\ r.op = op /\ r.sid = proc[p].st.sid
  BY <1>4 DEF NewRequest, FreeSlot, Request, Ops, Phases, Results
<1>. HIDE DEF r, pr
<1>6. RequestKnows(r)
  BY <1>2, <1>5 DEF RequestKnows, Lags
<1>7. Bound(pr) /\ Lags(pr.st)
  BY <1>2, <1>3 DEF Bound
<1>8. proc' = [proc EXCEPT ![p] = pr]
  BY <1>1 DEF pr
<1>9. UNCHANGED <<tables, size, disk>>
  BY DEF Send
<1>10. /\ pr.pc \in Waiting /\ r.op = OpOf(pr.pc)
       /\ pr.pc # "connecting" /\ pr.pc # "uploading"
       /\ r.sid = pr.st.sid
  BY <1>3, <1>5
<1>. QED
  BY <1>1, <1>3, <1>5, <1>6, <1>7, <1>8, <1>9, <1>10, ProcessSends

LEMMA RequestsKeep ==
  ASSUME SyncInv, NEW p \in Procs, Disconnect(p) \/ Verify(p) \/ Fetch(p)
  PROVE  SyncInv'
<1>1. proc[p].pc \in {"disconnect", "verify", "fetch"} => proc[p].st.sid # NoSession
  BY ProcessFacts DEF Bound
<1>2. CASE Disconnect(p)
  BY <1>1, <1>2, SendKeeps DEF Disconnect, Waiting, OpOf
<1>3. CASE Verify(p)
  BY <1>1, <1>3, SendKeeps DEF Verify, Waiting, OpOf
<1>4. CASE Fetch(p)
  BY <1>1, <1>4, SendKeeps DEF Fetch, Waiting, OpOf
<1>. QED
  BY <1>2, <1>3, <1>4

\* Disconnected and Unreachable: the binding is cleared.
LEMMA ClearBindingKeeps ==
  ASSUME SyncInv, NEW p \in Procs, Disconnected(p) \/ Unreachable(p)
  PROVE  SyncInv'
<1>1. [proc[p].st EXCEPT !.sid = NoSession, !.dirty = FALSE] \in PluginState
      /\ [proc[p].st EXCEPT !.sid = NoSession, !.dirty = FALSE].sid = NoSession
  BY ProcessFacts DEF PluginState, NoSession
<1>2. disk' \in PluginState /\ Lags(disk') /\ Finish(p)
  BY <1>1 DEF Disconnected, Unreachable, ClearBinding, Lags
<1>3. CASE Disconnected(p)
  BY <1>2, <1>3, AnswerFacts, FinishKeeps DEF Disconnected, Waiting
<1>4. CASE Unreachable(p)
  BY <1>2, <1>4, FinishKeeps DEF Unreachable, serverVars, tables
<1>. QED
  BY <1>3, <1>4

LEMMA VerifiedKeeps ==
  ASSUME SyncInv, NEW p \in Procs, Verified(p)
  PROVE  SyncInv'
<1> DEFINE a  == Answer(p)
           st == [proc[p].st EXCEPT !.off = a.off]
           pr == [proc[p] EXCEPT !.pc = "fetch", !.st = st, !.slot = NoSlot]
<1>1. a \in Request /\ RequestKnows(a) /\ a.op = "get" /\ a.phase = "done" /\ a.res = "ok"
      /\ a.sid = proc[p].st.sid /\ proc[p].pc \in Waiting /\ proc[p].pc = "verifying"
  BY AnswerFacts DEF Verified, Answered, Waiting, OpOf
<1>2. a.off <= synced[a.sid] /\ a.off \in Nat
  BY <1>1 DEF RequestKnows, Request
<1>3. proc[p] \in Process /\ proc[p].st \in PluginState /\ Lags(proc[p].st)
      /\ proc[p].st.sid # NoSession /\ disk \in PluginState /\ Lags(disk)
  BY <1>1, ProcessFacts DEF Bound
<1>4. TakeAnswer(p) /\ UNCHANGED <<tables, size>>
  BY DEF Verified
<1>5. st \in PluginState /\ st.sid = a.sid /\ st.off = a.off /\ st.seq = proc[p].st.seq
  <2>. HIDE DEF a
  <2>. QED
    BY <1>1, <1>2, <1>3 DEF PluginState
<1>6. CASE Finish(p) /\ UNCHANGED disk
  <2>1. Lags(disk')
    BY <1>3, <1>4, <1>6 DEF Lags, tables
  <2>. QED
    BY <1>1, <1>3, <1>4, <1>6, <2>1, FinishKeeps
<1>7. CASE disk' = st /\ proc' = [proc EXCEPT ![p] = pr]
  <2>. HIDE DEF a, st
  <2>1. pr \in Process /\ pr.pc = "fetch" /\ pr.st = st /\ pr.pc \notin Waiting
    BY <1>3, <1>5 DEF Process, Pcs, Waiting
  <2>2. Lags(st)
    BY <1>1, <1>2, <1>3, <1>5 DEF Lags
  <2>3. Lags(disk')
    BY <1>4, <1>7, <2>2 DEF Lags, tables
  <2>4. Bound(pr)
    BY <1>1, <1>3, <1>5, <2>1 DEF Bound
  <2>. HIDE DEF pr
  <2>. QED
    BY <1>1, <1>4, <1>5, <1>7, <2>1, <2>2, <2>3, <2>4, ProcessMoves
<1>. QED
  BY <1>6, <1>7 DEF Verified

LEMMA FetchedKeeps ==
  ASSUME SyncInv, NEW p \in Procs, Fetched(p)
  PROVE  SyncInv'
<1> DEFINE pr == [proc[p] EXCEPT !.pc = "pushed", !.slot = NoSlot]
<1>1. proc[p] \in Process /\ proc[p].st \in PluginState /\ Lags(proc[p].st)
      /\ disk \in PluginState /\ Lags(disk)
  BY ProcessFacts
<1>2. pr \in Process /\ pr.pc = "pushed" /\ pr.st = proc[p].st /\ pr.pc \notin Waiting
  BY <1>1 DEF Process, Pcs, Waiting
<1>3. proc[p].pc \in Waiting /\ TakeAnswer(p) /\ UNCHANGED <<tables, size, disk>>
  BY DEF Fetched, Answered, Waiting
<1>4. Bound(pr) /\ Lags(pr.st) /\ Lags(disk')
  BY <1>1, <1>2, <1>3 DEF Bound, Lags, tables
<1>5. proc' = [proc EXCEPT ![p] = pr]
  BY DEF Fetched
<1>. HIDE DEF pr
<1>. QED
  BY <1>1, <1>2, <1>3, <1>4, <1>5, ProcessMoves

\* The ways a process ends that leave the state file alone.
LEMMA EndKeeps ==
  ASSUME SyncInv, NEW p \in Procs, PushDone(p) \/ Rejected(p) \/ GiveUp(p) \/ Kill(p)
  PROVE  SyncInv'
<1>1. Finish(p) /\ UNCHANGED <<tables, size, disk>>
  BY DEF PushDone, Rejected, GiveUp, Kill, serverVars, tables
<1>2. disk' \in PluginState /\ Lags(disk')
  BY <1>1, ProcessFacts DEF Lags, tables
<1>3. UNCHANGED req \/ (proc[p].pc \in Waiting /\ TakeAnswer(p))
  BY DEF PushDone, Rejected, GiveUp, Kill, serverVars, Answered
<1>. QED
  BY <1>1, <1>2, <1>3, FinishKeeps

LEMMA StepKeeps ==
  ASSUME SyncInv, NEW p \in Procs,
         Step(p) \/ Unreachable(p) \/ GiveUp(p) \/ Kill(p)
  PROVE  SyncInv'
BY SaveKeeps, ConnectKeeps, ConnectedKeeps, FlushUnboundKeeps, FlushCleanKeeps,
   FlushUploadKeeps, UploadedKeeps, RequestsKeep, ClearBindingKeeps, VerifiedKeeps,
   FetchedKeeps, EndKeeps DEF Step

-----------------------------------------------------------------------------
(* A handler's step *)

\* What a handler step leaves alone: the other slots, and in its own slot the
\* operation, the sequence number and, except for connect, the session.
Frame(k) ==
  /\ \A j \in Slots : j # k => req'[j] = req[j]
  /\ req'[k].op = req[k].op /\ req'[k].seq = req[k].seq
  /\ req'[k].path = req[k].path /\ req'[k].end = req[k].end
  /\ req'[k].start = req[k].start
  /\ req'[k].phase # "free"
  /\ req[k].op # "connect" => req'[k].sid = req[k].sid

LEMMA GotoFrame ==
  ASSUME req \in [Slots -> Request], NEW k \in Slots, NEW ph \in Phases \ {"free"}, Goto(k, ph)
  PROVE  Frame(k)
BY DEF Goto, Request, Frame

LEMMA ReplyFrame ==
  ASSUME req \in [Slots -> Request], NEW k \in Slots, NEW res, Reply(k, res)
  PROVE  Frame(k)
BY DEF Reply, Request, Frame

LEMMA ServerFrame ==
  ASSUME ServerTypeOK, NEW k \in Slots, ServerStep(k) \/ ServerFail(k)
  PROVE  Frame(k)
<1>1. req \in [Slots -> Request] /\ req[k] \in Request
  BY DEF ServerTypeOK
<1>2. CASE ConnectFind(k)
  <2>1. ASSUME NEW s, NEW off, req' = [req EXCEPT ![k] = [@ EXCEPT !.phase = "ensure", !.sid = s, !.off = off]],
               req[k].op = "connect"
        PROVE  Frame(k)
    BY <1>1, <2>1 DEF Frame, Request
  <2>2. ASSUME NEW s, req' = [req EXCEPT ![k] = [@ EXCEPT !.phase = "create", !.sid = s]],
               req[k].op = "connect"
        PROVE  Frame(k)
    BY <1>1, <2>2 DEF Frame, Request
  <2>. QED
    BY <1>2, <2>1, <2>2 DEF ConnectFind, At
<1>3. CASE ConnectCreate(k)
  BY <1>1, <1>3 DEF ConnectCreate, Request, Frame
<1>4. CASE RebuildRead(k)
  BY <1>1, <1>4 DEF RebuildRead, Request, Frame
<1>5. CASE Respond(k)
  BY <1>1, <1>5 DEF Respond, Request, Frame
<1>6. CASE GetSession(k)
  BY <1>1, <1>6 DEF GetSession, Request, Frame
<1>7. CASE EnsureSnapshot(k) \/ RebuildPublish(k)
  BY <1>1, <1>7, GotoFrame DEF EnsureSnapshot, RebuildPublish, Phases
<1>8. CASE UploadLoad(k) \/ UploadCheck(k) \/ UploadAppend(k)
  BY <1>1, <1>8, GotoFrame, ReplyFrame DEF UploadLoad, UploadCheck, UploadAppend, Phases
<1>9. CASE DisconnectLoad(k) \/ DisconnectCommit(k) \/ ServerFail(k)
  BY <1>1, <1>9, GotoFrame, ReplyFrame DEF DisconnectLoad, DisconnectCommit, ServerFail, Phases
<1>10. CASE ConnectRefresh(k)
  BY <1>1, <1>10 DEF ConnectRefresh, Request, Frame
<1>. QED
  BY <1>2, <1>3, <1>4, <1>5, <1>6, <1>7, <1>8, <1>9, <1>10 DEF ServerStep

\* What an upload about to append knows: its chunk fits if its number is free.
LEMMA AppendFacts ==
  ASSUME SyncInv, NEW k \in Slots, At(k, "upload", "append")
  PROVE  LET r == req[k] IN
         /\ r \in Request /\ r.sid \in SessionIds /\ status[r.sid] # "none"
         /\ r.start < r.end /\ r.seq <= Len(chunks[r.sid]) + 1
         /\ r.seq = Len(chunks[r.sid]) + 1 => r.start = synced[r.sid]
         /\ chunks[r.sid] \in Seq(Chunk) /\ Len(chunks[r.sid]) \in Nat
         /\ r.path \in Paths /\ r.end <= MaxSize
<1>1. ServerTypeOK /\ RequestsKnow
  BY DEF SyncInv, TypeOK
<1>2. req[k].phase = "append" /\ req[k].op = "upload"
  BY DEF At
<1>3. /\ req[k] \in Request /\ req[k].sid \in SessionIds
      /\ chunks[req[k].sid] \in Seq(Chunk) /\ Len(chunks[req[k].sid]) \in Nat
  BY <1>1, <1>2, HandlerHasSession DEF At
<1>4. RequestKnows(req[k])
  BY <1>1 DEF RequestsKnow
<1>. QED
  BY <1>2, <1>3, <1>4 DEF RequestKnows

\* An append either changes no table or extends one session by its chunk.
LEMMA AppendEffect ==
  ASSUME SyncInv, NEW k \in Slots, UploadAppend(k)
  PROVE  LET r == req[k] IN
         \/ Reply(k, "error") /\ UNCHANGED tables
         \/ /\ Reply(k, "ok") /\ UNCHANGED <<created, status>>
            /\ r.seq = Len(chunks[r.sid]) + 1 /\ r.start = synced[r.sid]
            /\ chunks' = [chunks EXCEPT ![r.sid] =
                            Append(@, [path |-> r.path, start |-> r.start, end |-> r.end])]
            /\ synced' = [synced EXCEPT ![r.sid] = r.end]
<1>1. /\ req[k].seq \in Nat /\ Len(chunks[req[k].sid]) \in Nat
      /\ req[k].seq <= Len(chunks[req[k].sid]) + 1
      /\ req[k].seq = Len(chunks[req[k].sid]) + 1 => req[k].start = synced[req[k].sid]
  BY AppendFacts DEF UploadAppend, Store, Request
<1>. QED
  BY <1>1 DEF UploadAppend, Store, tables

\* The tables only grow: sessions appear, offsets and chunk lists never shrink,
\* and an offset moves only together with a new chunk.
LEMMA TablesGrow ==
  ASSUME SyncInv, NEW k \in Slots, ServerStep(k) \/ ServerFail(k), NEW s \in SessionIds
  PROVE  /\ status[s] # "none" => status'[s] # "none"
         /\ synced[s] <= synced'[s]
         /\ Len(chunks[s]) <= Len(chunks'[s])
         /\ chunks'[s] # chunks[s] => Len(chunks'[s]) = Len(chunks[s]) + 1
         /\ chunks'[s] = chunks[s] => synced'[s] = synced[s]
<1>1. /\ status \in [SessionIds -> {"none", "ACTIVE", "CLOSED"}]
      /\ synced \in [SessionIds -> Nat] /\ synced[s] \in Nat
      /\ chunks \in [SessionIds -> Seq(Chunk)]
      /\ chunks[s] \in Seq(Chunk) /\ Len(chunks[s]) \in Nat
  BY DEF SyncInv, TypeOK, ServerTypeOK
<1>2. CASE UNCHANGED <<status, synced, chunks>>
  BY <1>1, <1>2
<1>3. CASE ConnectCreate(k)
  <2>1. req[k].sid \in SessionIds /\ status[req[k].sid] = "none"
    BY <1>3 DEF ConnectCreate, At, SyncInv, RequestsKnow, RequestKnows, TypeOK, ServerTypeOK, SessionIds
  <2>2. chunks[req[k].sid] = <<>> /\ synced[req[k].sid] = 0
    BY <2>1 DEF SyncInv, SessionRows, Contiguous, EndOf
  <2>. QED
    BY <1>1, <1>3, <2>2 DEF ConnectCreate
<1>4. CASE UploadAppend(k)
  <2>1. CASE UNCHANGED tables
    BY <1>2, <2>1 DEF tables
  <2> DEFINE r == req[k]
             piece == [path |-> r.path, start |-> r.start, end |-> r.end]
  <2>2. CASE /\ r.start = synced[r.sid] /\ UNCHANGED <<created, status>>
             /\ chunks' = [chunks EXCEPT ![r.sid] = Append(@, piece)]
             /\ synced' = [synced EXCEPT ![r.sid] = r.end]
    <3>1. r.start < r.end /\ r.start \in Nat /\ r.end \in Nat /\ r.sid \in SessionIds
      BY <1>4, AppendFacts DEF UploadAppend, Store, Request
    <3>2. CASE s # r.sid
      BY <1>1, <2>2, <3>2
    <3>3. CASE s = r.sid
      <4>1. chunks'[s] = Append(chunks[s], piece) /\ synced'[s] = r.end
        BY <1>1, <2>2, <3>1, <3>3
      <4>2. piece \in Chunk
        BY <1>4, <3>1, AppendFacts DEF UploadAppend, Store, Chunk
      <4>. HIDE DEF piece
      <4>3. Len(chunks'[s]) = Len(chunks[s]) + 1
        BY <1>1, <4>1, <4>2
      <4>4. status'[s] = status[s] /\ synced[s] <= synced'[s]
        BY <2>2, <3>1, <3>3, <4>1
      <4>. QED
        BY <1>1, <4>3, <4>4
    <3>. QED
      BY <3>2, <3>3
  <2>. QED
    BY <1>4, <2>1, <2>2, AppendEffect
<1>5. CASE DisconnectCommit(k)
  BY <1>1, <1>5 DEF DisconnectCommit
<1>. QED
  BY <1>2, <1>3, <1>4, <1>5 DEF ServerStep, ServerFail, tables, ConnectFind, ConnectRefresh, EnsureSnapshot,
     RebuildRead, RebuildPublish, Respond, UploadLoad, UploadCheck, DisconnectLoad, GetSession

\* Uploads the server answers "error" (or whose row it cannot write) leave all
\* as it is; one that succeeds leaves the chunks of its session joined up.
LEMMA ServerContiguous ==
  ASSUME SyncInv, NEW k \in Slots, ServerStep(k) \/ ServerFail(k)
  PROVE  Contiguous'
<1>1. /\ synced \in [SessionIds -> Nat] /\ chunks \in [SessionIds -> Seq(Chunk)] /\ Contiguous
  BY DEF SyncInv, TypeOK, ServerTypeOK
<1>2. CASE UNCHANGED <<synced, chunks>>
  BY <1>1, <1>2 DEF Contiguous, EndOf
<1>3. CASE ConnectCreate(k)
  <2>1. req[k].sid \in SessionIds /\ status[req[k].sid] = "none"
    BY <1>3 DEF ConnectCreate, At, SyncInv, RequestsKnow, RequestKnows, TypeOK, ServerTypeOK, SessionIds
  <2>2. synced[req[k].sid] = 0
    BY <2>1 DEF SyncInv, SessionRows, Contiguous, EndOf
  <2>3. synced' = synced /\ chunks' = chunks
    BY <1>1, <1>3, <2>2 DEF ConnectCreate
  <2>. QED
    BY <1>2, <2>3
<1>4. CASE UploadAppend(k)
  <2>1. CASE UNCHANGED tables
    BY <1>2, <2>1 DEF tables
  <2> DEFINE r == req[k]
             piece == [path |-> r.path, start |-> r.start, end |-> r.end]
  <2>2. CASE /\ r.start = synced[r.sid]
             /\ chunks' = [chunks EXCEPT ![r.sid] = Append(@, piece)]
             /\ synced' = [synced EXCEPT ![r.sid] = r.end]
    <3>1. r.start < r.end /\ r.start \in Nat /\ r.end \in Nat /\ r.sid \in SessionIds /\ piece \in Chunk
      BY <1>4, AppendFacts DEF UploadAppend, Store, Request, Chunk
    <3>2. piece.start = r.start /\ piece.end = r.end
      OBVIOUS
    <3>. HIDE DEF piece, r
    <3>3. SUFFICES ASSUME NEW s \in SessionIds
                   PROVE  /\ synced'[s] = EndOf(chunks'[s])
                          /\ \A n \in DOMAIN chunks'[s] :
                               /\ chunks'[s][n].start < chunks'[s][n].end
                               /\ chunks'[s][n].start = IF n = 1 THEN 0 ELSE chunks'[s][n - 1].end
      BY DEF Contiguous, EndOf
    <3>4. CASE s # r.sid
      <4>1. synced'[s] = synced[s] /\ chunks'[s] = chunks[s]
        BY <1>1, <2>2, <3>4
      <4>. QED
        BY <1>1, <4>1 DEF Contiguous, EndOf
    <3>5. CASE s = r.sid
      <4> DEFINE c == chunks[s]
      <4>1. c \in Seq(Chunk) /\ Len(c) \in Nat
        BY <1>1
      <4>2. chunks'[s] = Append(c, piece) /\ synced'[s] = r.end
        BY <1>1, <2>2, <3>1, <3>5
      <4>3. r.start = EndOf(c)
        BY <1>1, <2>2, <3>5 DEF Contiguous
      <4>4. \A n \in DOMAIN c : /\ c[n].start < c[n].end
                               /\ c[n].start = IF n = 1 THEN 0 ELSE c[n - 1].end
        BY <1>1 DEF Contiguous
      <4>. HIDE DEF c
      <4>5. /\ Len(Append(c, piece)) = Len(c) + 1 /\ Append(c, piece) # <<>>
            /\ Append(c, piece)[Len(c) + 1] = piece
            /\ \A n \in 1 .. Len(c) : Append(c, piece)[n] = c[n]
            /\ DOMAIN Append(c, piece) = 1 .. Len(c) + 1
        BY <3>1, <4>1
      <4>6. synced'[s] = EndOf(chunks'[s])
        BY <3>2, <4>2, <4>5 DEF EndOf
      <4>7. ASSUME NEW n \in 1 .. Len(c) + 1
            PROVE  /\ Append(c, piece)[n].start < Append(c, piece)[n].end
                   /\ Append(c, piece)[n].start = IF n = 1 THEN 0 ELSE Append(c, piece)[n - 1].end
        <5>1. CASE n \in 1 .. Len(c)
          <6>1. n \in DOMAIN c /\ (n # 1 => n - 1 \in 1 .. Len(c))
            BY <4>1, <5>1
          <6>. QED
            BY <4>4, <4>5, <5>1, <6>1
        <5>2. CASE n = Len(c) + 1
          <6>1. c = <<>> <=> Len(c) = 0
            BY <4>1
          <6>2. CASE Len(c) = 0
            BY <3>1, <3>2, <4>3, <4>5, <5>2, <6>1, <6>2 DEF EndOf
          <6>3. CASE Len(c) # 0
            <7>1. n # 1 /\ n - 1 = Len(c) /\ Len(c) \in 1 .. Len(c)
              BY <4>1, <5>2, <6>3
            <7>. QED
              BY <3>1, <3>2, <4>3, <4>5, <5>2, <6>1, <6>3, <7>1 DEF EndOf
          <6>. QED
            BY <6>2, <6>3
        <5>. QED
          BY <4>1, <5>1, <5>2
      <4>. QED
        BY <4>2, <4>5, <4>6, <4>7
    <3>. QED
      BY <3>4, <3>5
  <2>. QED
    BY <1>4, <2>1, <2>2, AppendEffect
<1>. QED
  BY <1>2, <1>3, <1>4 DEF ServerStep, ServerFail, tables, ConnectFind, ConnectRefresh, EnsureSnapshot,
     RebuildRead, RebuildPublish, Respond, UploadLoad, UploadCheck, DisconnectLoad, DisconnectCommit, GetSession

\* A session row appears only when its own connect commits it.
LEMMA ServerCommits ==
  ASSUME SyncInv, NEW k \in Slots, ServerStep(k) \/ ServerFail(k), NEW s \in SessionIds,
         status[s] = "none", status'[s] # "none"
  PROVE  req[k].phase = "create" /\ req'[k].phase # "create" /\ s = req[k].sid
<1>1. status \in [SessionIds -> {"none", "ACTIVE", "CLOSED"}] /\ req \in [Slots -> Request]
  BY DEF SyncInv, TypeOK, ServerTypeOK
<1>2. CASE UNCHANGED status
  BY <1>2
<1>3. CASE ConnectCreate(k)
  BY <1>1, <1>3 DEF ConnectCreate, At, Request
<1>4. CASE DisconnectCommit(k)
  <2>1. RequestKnows(req[k]) /\ req[k].phase = "close" /\ req[k].op = "disconnect"
    BY <1>4 DEF SyncInv, RequestsKnow, DisconnectCommit, At
  <2>2. req[k].sid \in SessionIds /\ status[req[k].sid] # "none"
    BY <2>1 DEF RequestKnows
  <2>. QED
    BY <1>1, <1>4, <2>2 DEF DisconnectCommit
<1>. QED
  BY <1>2, <1>3, <1>4 DEF ServerStep, ServerFail, tables, ConnectFind, ConnectRefresh, EnsureSnapshot,
     RebuildRead, RebuildPublish, Respond, UploadLoad, UploadCheck, UploadAppend, DisconnectLoad, GetSession

LEMMA ServerSessionRows ==
  ASSUME SyncInv, NEW k \in Slots, ServerStep(k) \/ ServerFail(k)
  PROVE  SessionRows' /\ created <= created'
<1>1. /\ created \in 0 .. MaxSessions /\ req[k] \in Request
      /\ RequestKnows(req[k]) /\ SessionRows
      /\ chunks \in [SessionIds -> Seq(Chunk)]
  BY DEF SyncInv, TypeOK, ServerTypeOK, RequestsKnow
<1>2. created <= created' /\ created' \in Int
  <2>1. created' = created \/ created' = created + 1
    BY DEF ServerStep, ServerFail, tables, ConnectFind, ConnectCreate,
       ConnectRefresh, EnsureSnapshot, RebuildRead, RebuildPublish, Respond, UploadLoad, UploadCheck, UploadAppend,
       DisconnectLoad, DisconnectCommit, GetSession
  <2>. QED
    BY <1>1, <2>1
<1>3. SUFFICES ASSUME NEW s \in SessionIds
               PROVE  /\ s > created' => status'[s] = "none"
                      /\ status'[s] = "none" => chunks'[s] = <<>>
  BY <1>2 DEF SessionRows
<1>4. s > created' => status'[s] = "none"
  <2>1. SUFFICES ASSUME s > created', status'[s] # "none" PROVE FALSE
    OBVIOUS
  <2>2. s > created /\ status[s] = "none"
    BY <1>1, <1>2, <2>1 DEF SessionRows, SessionIds
  <2>3. req[k].phase = "create" /\ s = req[k].sid
    BY <2>1, <2>2, ServerCommits
  <2>. QED
    BY <1>1, <2>2, <2>3 DEF RequestKnows
<1>5. status'[s] = "none" => chunks'[s] = <<>>
  <2>1. SUFFICES ASSUME status'[s] = "none" PROVE chunks'[s] = <<>>
    OBVIOUS
  <2>2. status[s] = "none" /\ chunks[s] = <<>>
    BY <1>1, <2>1, TablesGrow DEF SessionRows
  <2>3. CASE UploadAppend(k)
    <3>1. s # req[k].sid
      BY <2>2, <2>3, AppendFacts DEF UploadAppend, Store
    <3>. QED
      BY <1>1, <2>2, <2>3, <3>1, AppendEffect DEF tables
  <2>4. CASE ~UploadAppend(k)
    BY <2>2, <2>4 DEF ServerStep, ServerFail, tables, ConnectFind, ConnectCreate,
       ConnectRefresh, EnsureSnapshot, RebuildRead, RebuildPublish, Respond, UploadLoad, UploadCheck, DisconnectLoad,
       DisconnectCommit, GetSession
  <2>. QED
    BY <2>3, <2>4
<1>. QED
  BY <1>4, <1>5

\* The other requests know what they knew: above all, the offset moves only
\* with a new chunk, so an upload that has been overtaken is out of sequence.
LEMMA OthersKnow ==
  ASSUME SyncInv, NEW k \in Slots, ServerStep(k) \/ ServerFail(k), NEW j \in Slots, j # k
  PROVE  RequestKnows(req[j])'
<1> DEFINE r == req[j]
<1>1. r \in Request /\ RequestKnows(r) /\ req'[j] = r
  BY ServerFrame DEF SyncInv, TypeOK, ServerTypeOK, RequestsKnow, Frame
<1>2. /\ synced \in [SessionIds -> Nat] /\ synced' \in [SessionIds -> Nat]
      /\ chunks \in [SessionIds -> Seq(Chunk)] /\ chunks' \in [SessionIds -> Seq(Chunk)]
      /\ created \in Int /\ created' \in Int
  BY ServerStepType DEF SyncInv, TypeOK, ServerTypeOK, ServerFail, tables
<1>3. created <= created'
  BY ServerSessionRows
<1>. HIDE DEF r
<1>4. CASE r.phase = "create"
  <2>1. r.sid \in 1 .. created /\ status[r.sid] = "none" /\ r.sid \in SessionIds
    BY <1>1, <1>4 DEF RequestKnows, SyncInv, TypeOK, ServerTypeOK, SessionIds
  <2>2. status'[r.sid] = "none"
    <3>1. SUFFICES ASSUME status'[r.sid] # "none" PROVE FALSE
      OBVIOUS
    <3>2. req[k].phase = "create" /\ r.sid = req[k].sid
      BY <2>1, <3>1, ServerCommits
    <3>. QED
      BY <1>4, <3>2 DEF r, SyncInv, RequestsKnow
  <2>3. r.op = "connect" /\ r.sid \in 1 .. created'
    BY <1>1, <1>2, <1>3, <1>4, <2>1 DEF RequestKnows
  <2>. QED
    BY <1>1, <1>4, <2>2, <2>3 DEF RequestKnows
<1>5. CASE r.phase # "create" /\ r.sid \in SessionIds /\ status[r.sid] # "none"
  <2>1. /\ status'[r.sid] # "none" /\ synced[r.sid] <= synced'[r.sid]
        /\ Len(chunks[r.sid]) <= Len(chunks'[r.sid])
        /\ chunks'[r.sid] # chunks[r.sid] => Len(chunks'[r.sid]) = Len(chunks[r.sid]) + 1
        /\ chunks'[r.sid] = chunks[r.sid] => synced'[r.sid] = synced[r.sid]
    BY <1>5, TablesGrow
  <2>2. /\ synced[r.sid] \in Nat /\ synced'[r.sid] \in Nat
        /\ Len(chunks[r.sid]) \in Nat /\ Len(chunks'[r.sid]) \in Nat
    BY <1>2, <1>5
  <2>3. r.seq \in Nat /\ r.off \in Nat /\ r.count \in Nat /\ r.start \in Nat /\ r.end \in Nat
    BY <1>1 DEF Request
  <2>4. CASE r.op = "upload"
    <3>1. r.phase # "free" => r.path \in Paths /\ r.end <= MaxSize /\ r.seq <= Len(chunks'[r.sid]) + 1
      <4>1. r.phase # "free" => r.path \in Paths /\ r.end <= MaxSize /\ r.seq <= Len(chunks[r.sid]) + 1
        BY <1>1, <2>4, Zenon DEF RequestKnows
      <4>. QED
        BY <2>1, <2>2, <2>3, <4>1
    <3>2. r.phase \in {"check", "append"} =>
            r.start < r.end /\ (r.seq = Len(chunks'[r.sid]) + 1 => r.start = synced'[r.sid])
      <4>1. r.phase \in {"check", "append"} =>
              /\ r.start < r.end /\ r.seq <= Len(chunks[r.sid]) + 1
              /\ r.seq = Len(chunks[r.sid]) + 1 => r.start = synced[r.sid]
        BY <1>1, <2>4, Zenon DEF RequestKnows
      <4>. QED
        BY <2>1, <2>2, <2>3, <4>1
    <3>3. r.phase = "done" /\ r.res = "ok" => r.end <= synced'[r.sid] /\ r.seq <= Len(chunks'[r.sid])
      <4>1. r.phase = "done" /\ r.res = "ok" => r.end <= synced[r.sid] /\ r.seq <= Len(chunks[r.sid])
        BY <1>1, <2>4, Zenon DEF RequestKnows
      <4>. QED
        BY <2>1, <2>2, <2>3, <4>1
    <3>4. r.phase \notin {"refresh", "ensure", "rebuild", "publish", "respond"}
      BY <1>1, <2>4 DEF RequestKnows
    <3>. QED
      BY <1>1, <1>5, <2>1, <2>4, <3>1, <3>2, <3>3, <3>4 DEF RequestKnows
  <2>5. CASE r.op # "upload"
    <3>1. r.phase \in {"refresh", "ensure", "rebuild", "publish", "respond"} =>
            r.op = "snapshot" \/ (r.op = "connect" /\ r.off <= synced'[r.sid])
      BY <1>1, <2>1, <2>2, <2>3 DEF RequestKnows
    <3>2. (r.op \in {"connect", "get"} /\ r.phase = "done" /\ r.res = "ok") =>
            r.off <= synced'[r.sid] /\ (r.op = "connect" => r.count <= Len(chunks'[r.sid]))
      BY <1>1, <2>1, <2>2, <2>3 DEF RequestKnows
    <3>. QED
      BY <1>1, <1>5, <2>1, <2>5, <3>1, <3>2 DEF RequestKnows
  <2>. QED
    BY <2>4, <2>5
<1>6. CASE r.phase # "create" /\ ~(r.sid \in SessionIds /\ status[r.sid] # "none")
  BY <1>1, <1>6 DEF RequestKnows
<1>. QED
  BY <1>4, <1>5, <1>6

\* The request a handler works on knows what its next phase needs.
LEMMA OwnKnows ==
  ASSUME SyncInv, NEW k \in Slots, ServerStep(k) \/ ServerFail(k)
  PROVE  RequestKnows(req[k])'
<1> DEFINE r == req[k]
           q == req'[k]
<1>1. /\ r \in Request /\ RequestKnows(r) /\ req \in [Slots -> Request]
      /\ synced \in [SessionIds -> Nat] /\ chunks \in [SessionIds -> Seq(Chunk)]
      /\ status \in [SessionIds -> {"none", "ACTIVE", "CLOSED"}]
      /\ created \in 0 .. MaxSessions /\ SessionRows
  BY DEF SyncInv, TypeOK, ServerTypeOK, RequestsKnow
<1>2. CASE ConnectFind(k)
  <2>1. ASSUME NEW s \in Active,
               req' = [req EXCEPT ![k] = [@ EXCEPT !.phase = "ensure", !.sid = s, !.off = synced[s]]]
        PROVE  RequestKnows(req[k])'
    <3>1. q.op = "connect" /\ q.phase = "ensure" /\ q.sid = s /\ q.off = synced[s]
      BY <1>1, <1>2, <2>1 DEF Request, ConnectFind, At
    <3>2. s \in SessionIds /\ status'[s] # "none" /\ synced'[s] \in Nat /\ synced'[s] = synced[s]
      BY <1>1, <1>2, <2>1 DEF ConnectFind, Active
    <3>. QED
      BY <3>1, <3>2 DEF RequestKnows
  <2>2. CASE /\ created < MaxSessions /\ created' = created + 1
             /\ req' = [req EXCEPT ![k] = [@ EXCEPT !.phase = "create", !.sid = created + 1]]
    <3>1. q.op = "connect" /\ q.phase = "create" /\ q.sid = created + 1
      BY <1>1, <1>2, <2>2 DEF Request, ConnectFind, At
    <3>2. created + 1 \in 1 .. created' /\ created + 1 \in SessionIds /\ created + 1 > created
      BY <1>1, <2>2 DEF SessionIds
    <3>3. status'[created + 1] = "none"
      BY <1>1, <1>2, <3>2 DEF SessionRows, ConnectFind
    <3>. QED
      BY <3>1, <3>2, <3>3 DEF RequestKnows
  <2>. QED
    BY <1>2, <2>1, <2>2 DEF ConnectFind
<1>3. CASE ConnectCreate(k)
  <2>1. q.op = "connect" /\ q.phase = "refresh" /\ q.sid = r.sid /\ q.off = 0
    BY <1>1, <1>3 DEF Request, ConnectCreate, At
  <2>2. r.sid \in SessionIds
    BY <1>1, <1>3 DEF ConnectCreate, At, RequestKnows, SessionIds
  <2>3. status'[r.sid] # "none" /\ synced'[r.sid] = 0
    BY <1>1, <1>3, <2>2 DEF ConnectCreate
  <2>. QED
    BY <2>1, <2>2, <2>3 DEF RequestKnows
<1>4. CASE EnsureSnapshot(k)
  <2>1. q.op = r.op /\ q.phase \in {"rebuild", "respond"} /\ q.sid = r.sid /\ q.off = r.off
        /\ (At(k, "connect", "ensure") \/ At(k, "snapshot", "new"))
    BY <1>1, <1>4 DEF Request, EnsureSnapshot, Goto
  <2>. QED
    BY <1>1, <1>4, <2>1 DEF EnsureSnapshot, RequestKnows, At, tables
<1>5. CASE RebuildRead(k)
  <2>1. q.op = r.op /\ q.phase = "publish" /\ q.sid = r.sid /\ q.off = r.off /\ r.phase = "rebuild"
    BY <1>1, <1>5 DEF Request, RebuildRead
  <2>. QED
    BY <1>1, <1>5, <2>1 DEF RebuildRead, RequestKnows, tables
<1>6. CASE RebuildPublish(k)
  <2>1. q.op = r.op /\ q.phase = "respond" /\ q.sid = r.sid /\ q.off = r.off /\ r.phase = "publish"
    BY <1>1, <1>6 DEF Request, RebuildPublish, Goto
  <2>. QED
    BY <1>1, <1>6, <2>1 DEF RebuildPublish, RequestKnows
<1>7. CASE Respond(k)
  <2>1. q.op = r.op /\ q.phase = "done" /\ q.sid = r.sid /\ q.off = r.off /\ r.phase = "respond"
        /\ q.count = Len(chunks[r.sid])
    BY <1>1, <1>7 DEF Request, Respond
  <2>2. r.sid \in SessionIds
    BY <1>1, <2>1 DEF RequestKnows
  <2>3. Len(chunks[r.sid]) \in Nat
    BY <1>1, <2>2
  <2>. QED
    BY <1>1, <1>7, <2>1, <2>2, <2>3 DEF Respond, RequestKnows, tables
<1>8. CASE UploadLoad(k)
  <2>1. r.op = "upload" /\ r.phase = "new" /\ UNCHANGED tables
    BY <1>8 DEF UploadLoad, At
  <2>2. CASE Goto(k, "check") /\ r.end > r.start /\ r.start = synced[r.sid]
    <3>1. q = [r EXCEPT !.phase = "check"]
      BY <1>1, <2>2 DEF Goto
    <3>2. q.op = "upload" /\ q.phase = "check" /\ q.sid = r.sid /\ q.start = r.start
          /\ q.end = r.end /\ q.seq = r.seq /\ q.path = r.path
      BY <1>1, <2>1, <3>1 DEF Request
    <3>3. r.start \in Nat /\ r.end \in Nat
      BY <1>1 DEF Request
    <3>. HIDE DEF q, r
    <3>. QED
      BY <1>1, <2>1, <2>2, <3>2, <3>3 DEF q, r, RequestKnows, tables
  <2>3. CASE \E res \in {"refused", "conflict"} : Reply(k, res)
    <3>1. q.op = "upload" /\ q.phase = "done" /\ q.res # "ok" /\ q.sid = r.sid /\ q.seq = r.seq
          /\ q.path = r.path /\ q.end = r.end
      BY <1>1, <2>1, <2>3 DEF Request, Reply
    <3>. QED
      BY <1>1, <2>1, <3>1 DEF RequestKnows, tables
  <2>. QED
    BY <1>8, <2>2, <2>3 DEF UploadLoad
<1>9. CASE UploadCheck(k)
  <2>1. r.op = "upload" /\ r.phase = "check" /\ UNCHANGED tables
    BY <1>9 DEF UploadCheck, At
  <2>2. CASE Goto(k, "append")
    <3>1. q.op = "upload" /\ q.phase = "append" /\ q.sid = r.sid /\ q.start = r.start
          /\ q.end = r.end /\ q.seq = r.seq /\ q.path = r.path
      BY <1>1, <2>1, <2>2 DEF Request, Goto
    <3>. HIDE DEF q, r
    <3>. QED
      BY <1>1, <2>1, <3>1 DEF q, r, RequestKnows, tables
  <2>3. CASE Reply(k, "conflict")
    <3>1. q.op = "upload" /\ q.phase = "done" /\ q.res # "ok" /\ q.sid = r.sid /\ q.seq = r.seq
          /\ q.path = r.path /\ q.end = r.end
      BY <1>1, <2>1, <2>3 DEF Request, Reply
    <3>. QED
      BY <1>1, <2>1, <3>1 DEF RequestKnows, tables
  <2>. QED
    BY <1>9, <2>2, <2>3 DEF UploadCheck
<1>10. CASE UploadAppend(k)
  <2>1. r.op = "upload" /\ r.phase = "append"
    BY <1>10 DEF UploadAppend, Store, At
  <2>2. CASE Reply(k, "error") /\ UNCHANGED tables
    <3>1. q.op = "upload" /\ q.phase = "done" /\ q.res # "ok" /\ q.sid = r.sid /\ q.seq = r.seq
          /\ q.path = r.path /\ q.end = r.end
      BY <1>1, <2>1, <2>2 DEF Request, Reply
    <3>. QED
      BY <1>1, <2>1, <2>2, <3>1 DEF RequestKnows, tables
  <2>3. CASE /\ Reply(k, "ok") /\ UNCHANGED <<created, status>>
             /\ r.seq = Len(chunks[r.sid]) + 1
             /\ chunks' = [chunks EXCEPT ![r.sid] =
                              Append(@, [path |-> r.path, start |-> r.start, end |-> r.end])]
             /\ synced' = [synced EXCEPT ![r.sid] = r.end]
    <3>1. q.op = "upload" /\ q.phase = "done" /\ q.sid = r.sid /\ q.seq = r.seq
          /\ q.path = r.path /\ q.end = r.end
      BY <1>1, <2>1, <2>3 DEF Request, Reply
    <3>2. r.sid \in SessionIds /\ status[r.sid] # "none" /\ r.path \in Paths /\ r.end <= MaxSize
          /\ Len(chunks[r.sid]) \in Nat /\ r.start < r.end
      BY <1>10, AppendFacts DEF UploadAppend, Store
    <3>3. synced'[r.sid] = r.end
      BY <1>1, <2>3, <3>2
    <3>4. Len(chunks'[r.sid]) = Len(chunks[r.sid]) + 1
      <4>1. chunks'[r.sid] = Append(chunks[r.sid], [path |-> r.path, start |-> r.start, end |-> r.end])
        BY <1>1, <2>3, <3>2
      <4>2. [path |-> r.path, start |-> r.start, end |-> r.end] \in Chunk
        BY <1>1, <3>2 DEF Request, Chunk
      <4>. QED
        BY <1>1, <3>2, <4>1, <4>2
    <3>5. r.end \in Nat /\ r.seq \in Nat
      BY <1>1 DEF Request
    <3>. HIDE DEF q, r
    <3>. QED
      BY <2>3, <3>1, <3>2, <3>3, <3>4, <3>5 DEF q, RequestKnows
  <2>. QED
    BY <1>10, <2>2, <2>3, AppendEffect
<1>11. CASE DisconnectLoad(k) \/ DisconnectCommit(k)
  <2>1. q.op = "disconnect" /\ q.phase \in {"close", "done"} /\ q.sid = r.sid
        /\ r.op = "disconnect" /\ r.phase \in {"new", "close"}
    <3>1. r.op = "disconnect" /\ r.phase \in {"new", "close"}
          /\ (Goto(k, "close") \/ Reply(k, "ok"))
      BY <1>11 DEF DisconnectLoad, DisconnectCommit, At
    <3>2. CASE Goto(k, "close")
      BY <1>1, <3>1, <3>2 DEF Goto, Request
    <3>3. CASE Reply(k, "ok")
      BY <1>1, <3>1, <3>3 DEF Reply, Request
    <3>. QED
      BY <3>1, <3>2, <3>3
  <2>2. r.sid \in SessionIds /\ status[r.sid] # "none"
    BY <1>1, <2>1 DEF RequestKnows
  <2>3. status'[r.sid] # "none"
    BY <1>11, <2>2, TablesGrow DEF ServerStep
  <2>. QED
    BY <2>1, <2>2, <2>3 DEF RequestKnows
<1>12. CASE GetSession(k)
  <2>1. q.op = "get" /\ q.phase = "done" /\ q.sid = r.sid /\ q.off = synced[r.sid]
        /\ r.op = "get" /\ r.phase = "new"
    BY <1>1, <1>12 DEF Request, GetSession, At
  <2>2. r.sid \in SessionIds /\ status[r.sid] # "none" /\ synced[r.sid] \in Nat
    BY <1>1, <2>1 DEF RequestKnows
  <2>. QED
    BY <1>12, <2>1, <2>2 DEF GetSession, RequestKnows, tables
<1>13. CASE ServerFail(k)
  <2>1. q.op = r.op /\ q.phase = "done" /\ q.res = "error" /\ q.sid = r.sid /\ q.seq = r.seq
        /\ q.path = r.path /\ q.end = r.end /\ r.phase # "free" /\ UNCHANGED tables
    BY <1>1, <1>13 DEF Request, Reply, ServerFail
  <2>2. r.op = "connect" \/ (r.sid \in SessionIds /\ status[r.sid] # "none")
    BY <1>1, <2>1 DEF RequestKnows
  <2>. QED
    BY <1>1, <2>1, <2>2 DEF RequestKnows, tables
<1>14. CASE ConnectRefresh(k)
  <2>1. /\ q.op = "connect" /\ q.phase = "rebuild" /\ q.sid = r.sid /\ q.off = synced[r.sid]
        /\ r.op = "connect" /\ r.phase = "refresh" /\ UNCHANGED tables
    BY <1>1, <1>14 DEF Request, ConnectRefresh, At
  <2>2. r.sid \in SessionIds /\ status[r.sid] # "none" /\ synced[r.sid] \in Nat
    BY <1>1, <2>1 DEF RequestKnows
  <2>. QED
    BY <2>1, <2>2 DEF RequestKnows, tables
<1>. QED
  BY <1>2, <1>3, <1>4, <1>5, <1>6, <1>7, <1>8, <1>9, <1>10, <1>11, <1>12, <1>13, <1>14 DEF ServerStep

\* No two connects construct the same session.
LEMMA CreatesDiffer ==
  ASSUME SyncInv, NEW k \in Slots, ServerStep(k) \/ ServerFail(k),
         NEW i \in Slots, NEW j \in Slots, i # j,
         req'[i].phase = "create", req'[j].phase = "create"
  PROVE  req'[i].sid # req'[j].sid
<1>1. /\ req \in [Slots -> Request] /\ created \in 0 .. MaxSessions
      /\ \A m \in Slots : RequestKnows(req[m])
      /\ (req[i].phase = "create" /\ req[j].phase = "create") => req[i].sid # req[j].sid
  BY DEF SyncInv, TypeOK, ServerTypeOK, RequestsKnow
<1>2. \A m \in Slots : req'[m].phase = "create" =>
        \/ req[m].phase = "create" /\ req'[m] = req[m]
        \/ m = k /\ req'[m].sid = created + 1
  <2>1. SUFFICES ASSUME NEW m \in Slots, req'[m].phase = "create"
                 PROVE  \/ req[m].phase = "create" /\ req'[m] = req[m]
                        \/ m = k /\ req'[m].sid = created + 1
    OBVIOUS
  <2>2. CASE m # k
    BY <2>1, <2>2, ServerFrame DEF SyncInv, TypeOK, Frame
  <2>3. CASE m = k
    <3>1. CASE ConnectFind(k)
      <4>1. ~\E s \in Active : req' = [req EXCEPT ![k] = [@ EXCEPT !.phase = "ensure", !.sid = s, !.off = synced[s]]]
        <5>1. SUFFICES ASSUME NEW s, NEW off,
                              req' = [req EXCEPT ![k] = [@ EXCEPT !.phase = "ensure", !.sid = s, !.off = off]]
                       PROVE  req'[k].phase = "ensure"
          BY <2>1, <2>3
        <5>. QED
          BY <1>1, <5>1 DEF Request
      <4>2. req' = [req EXCEPT ![k] = [@ EXCEPT !.phase = "create", !.sid = created + 1]]
        BY <3>1, <4>1, Zenon DEF ConnectFind
      <4>3. req[k] \in Request
        BY <1>1
      <4>. QED
        BY <1>1, <2>3, <4>2, <4>3 DEF Request
    <3>2. CASE ConnectCreate(k) \/ ConnectRefresh(k) \/ RebuildRead(k) \/ Respond(k) \/ GetSession(k)
      <4>1. req'[k].phase \in {"refresh", "rebuild", "publish", "done"}
        <5>1. CASE ConnectCreate(k)
          BY <1>1, <5>1 DEF ConnectCreate, Request
        <5>2. CASE RebuildRead(k)
          BY <1>1, <5>2 DEF RebuildRead, Request
        <5>3. CASE Respond(k)
          BY <1>1, <5>3 DEF Respond, Request
        <5>4. CASE GetSession(k)
          BY <1>1, <5>4 DEF GetSession, Request
        <5>5. CASE ConnectRefresh(k)
          BY <1>1, <5>5 DEF ConnectRefresh, Request
        <5>. QED
          BY <3>2, <5>1, <5>2, <5>3, <5>4, <5>5
      <4>. QED
        BY <2>1, <2>3, <4>1
    <3>3. ASSUME NEW ph, ph # "create", Goto(k, ph) PROVE FALSE
      BY <1>1, <2>1, <2>3, <3>3 DEF Goto, Request
    <3>4. ASSUME NEW res, Reply(k, res) PROVE FALSE
      BY <1>1, <2>1, <2>3, <3>4 DEF Reply, Request
    <3>. QED
      BY <3>1, <3>2, <3>3, <3>4 DEF ServerStep, ServerFail, EnsureSnapshot, RebuildPublish,
         UploadLoad, UploadCheck, UploadAppend, DisconnectLoad, DisconnectCommit
  <2>. QED
    BY <2>2, <2>3
<1>3. \A m \in Slots : req[m].phase = "create" => req[m].sid \in 1 .. created
  BY <1>1 DEF RequestKnows
<1>. QED
  BY <1>1, <1>2, <1>3

LEMMA ServerKeeps ==
  ASSUME SyncInv, NEW k \in Slots, ServerStep(k) \/ ServerFail(k), UNCHANGED clientVars
  PROVE  SyncInv'
<1>1. ServerTypeOK'
  BY ServerStepType, ReplyType DEF SyncInv, TypeOK, ServerFail, ServerTypeOK, tables, Results
<1>2. TypeOK'
  BY <1>1 DEF SyncInv, TypeOK, clientVars
<1>3. RequestsKnow'
  BY OthersKnow, OwnKnows, CreatesDiffer DEF RequestsKnow
<1>4. ProcessesWait'
  <2>1. ASSUME NEW p \in Procs, proc[p].pc \in Waiting
        PROVE  LET j == proc[p].slot IN
               /\ j \in Slots /\ req'[j].phase # "free" /\ req'[j].op = OpOf(proc[p].pc)
               /\ proc[p].pc # "connecting" => req'[j].sid = proc[p].st.sid
               /\ proc[p].pc = "uploading" => req'[j].seq = proc[p].st.seq
    <3> DEFINE j == proc[p].slot
    <3>1. /\ j \in Slots /\ req[j].phase # "free" /\ req[j].op = OpOf(proc[p].pc)
          /\ proc[p].pc # "connecting" => req[j].sid = proc[p].st.sid
          /\ proc[p].pc = "uploading" => req[j].seq = proc[p].st.seq
      BY <2>1 DEF SyncInv, ProcessesWait
    <3>2. proc[p].pc # "connecting" => req[j].op # "connect"
      BY <2>1, <3>1 DEF OpOf, Waiting
    <3>3. Frame(k)
      BY ServerFrame DEF SyncInv, TypeOK
    <3>. QED
      BY <3>1, <3>2, <3>3 DEF Frame
  <2>2. proc' = proc
    BY DEF clientVars
  <2>. QED
    BY <2>1, <2>2 DEF SyncInv, ProcessesWait
<1>5. CopiesLag'
  <2>1. ASSUME NEW st \in PluginState, Lags(st)
        PROVE  st.sid # NoSession =>
                 /\ st.sid \in SessionIds /\ status'[st.sid] # "none"
                 /\ st.off <= synced'[st.sid] /\ st.seq <= Len(chunks'[st.sid]) + 1
    <3>1. SUFFICES ASSUME st.sid # NoSession
                   PROVE  /\ st.sid \in SessionIds /\ status'[st.sid] # "none"
                          /\ st.off <= synced'[st.sid] /\ st.seq <= Len(chunks'[st.sid]) + 1
      OBVIOUS
    <3>2. /\ st.sid \in SessionIds /\ status[st.sid] # "none"
          /\ st.off <= synced[st.sid] /\ st.seq <= Len(chunks[st.sid]) + 1
      BY <2>1, <3>1 DEF Lags
    <3>3. /\ status'[st.sid] # "none" /\ synced[st.sid] <= synced'[st.sid]
          /\ Len(chunks[st.sid]) <= Len(chunks'[st.sid])
      BY <3>2, TablesGrow
    <3>4. /\ synced[st.sid] \in Nat /\ synced'[st.sid] \in Nat
          /\ Len(chunks[st.sid]) \in Nat /\ Len(chunks'[st.sid]) \in Nat
      BY <1>1, <3>2 DEF SyncInv, TypeOK, ServerTypeOK
    <3>5. st.off \in Nat /\ st.seq \in Nat
      BY DEF PluginState
    <3>. QED
      BY <3>2, <3>3, <3>4, <3>5
  <2>2. \A st \in PluginState : Lags(st) => Lags(st)'
    BY <2>1 DEF Lags
  <2>3. disk' = disk /\ proc' = proc
    BY DEF clientVars
  <2>4. \A p \in Procs : proc[p].st \in PluginState /\ disk \in PluginState /\ Bound(proc[p])
                         /\ Lags(proc[p].st) /\ Lags(disk)
    BY ProcessFacts
  <2>5. disk \in PluginState /\ Lags(disk)
    BY DEF SyncInv, TypeOK, CopiesLag
  <2>. QED
    BY <2>1, <2>3, <2>4, <2>5 DEF CopiesLag, Lags, Bound
<1>. QED
  BY <1>2, <1>3, <1>4, <1>5, ServerContiguous, ServerSessionRows DEF SyncInv

-----------------------------------------------------------------------------
(* The theorems *)

LEMMA WriteKeeps ==
  ASSUME SyncInv, NEW f \in Paths, Write(f)
  PROVE  SyncInv'
<1>1. size' \in [Paths -> 0 .. MaxSize]
  BY DEF Write, SyncInv, TypeOK
<1>. QED
  BY <1>1 DEF Write, SyncInv, TypeOK, ServerTypeOK, serverVars, Contiguous, EndOf, SessionRows,
     RequestsKnow, RequestKnows, ProcessesWait, CopiesLag, Lags, Bound

LEMMA DiscardKeeps ==
  ASSUME SyncInv, NEW k \in Slots, Discard(k)
  PROVE  SyncInv'
<1>. USE DEF tables, clientVars
<1>1. FreeSlot \in Request /\ FreeSlot.phase = "free" /\ FreeSlot.op = "get"
  BY DEF FreeSlot, Request, Ops, Phases, Results, NoSession
<1>2. req \in [Slots -> Request] /\ req' = [req EXCEPT ![k] = FreeSlot]
  BY DEF SyncInv, TypeOK, ServerTypeOK, Discard
<1>3. TypeOK' /\ Contiguous' /\ SessionRows' /\ CopiesLag'
  BY <1>1, <1>2 DEF Discard, SyncInv, TypeOK, ServerTypeOK, Contiguous, EndOf, SessionRows,
     CopiesLag, Lags, Bound
<1>4. RequestsKnow'
  <2>1. \A j \in Slots : req'[j] = req[j] \/ req'[j] = FreeSlot
    BY <1>2
  <2>2. \A j \in Slots : RequestKnows(req[j])'
    <3>1. SUFFICES ASSUME NEW j \in Slots PROVE RequestKnows(req[j])'
      OBVIOUS
    <3>2. RequestKnows(req[j])
      BY DEF SyncInv, RequestsKnow
    <3>. QED
      BY <1>1, <2>1, <3>2 DEF RequestKnows, Discard
  <2>3. \A j \in Slots : req'[j].phase = "create" => req'[j] = req[j]
    BY <1>1, <2>1
  <2>. QED
    BY <2>2, <2>3 DEF SyncInv, RequestsKnow
<1>5. ProcessesWait'
  <2>1. \A p \in Procs : proc[p].pc \in Waiting => proc[p].slot # k /\ req'[proc[p].slot] = req[proc[p].slot]
    BY <1>2 DEF Discard, SyncInv, ProcessesWait
  <2>. QED
    BY <2>1 DEF Discard, SyncInv, ProcessesWait
<1>. QED
  BY <1>3, <1>4, <1>5 DEF SyncInv

LEMMA InitSound ==
  ASSUME Init
  PROVE  SyncInv
<1>. USE DEF Init, ServerInit
<1>1. TypeOK
  BY IdleSound DEF TypeOK, ServerTypeOK, FreeSlot, Request, Ops, Phases, Results, NoSession,
     FreshState, PluginState
<1>2. Contiguous /\ SessionRows
  BY DEF Contiguous, EndOf, SessionRows
<1>3. RequestsKnow
  BY DEF RequestsKnow, RequestKnows, FreeSlot
<1>4. ProcessesWait
  BY IdleSound DEF ProcessesWait
<1>5. CopiesLag
  BY IdleSound DEF CopiesLag, Lags, FreshState
<1>. QED
  BY <1>1, <1>2, <1>3, <1>4, <1>5 DEF SyncInv

\* The inductive step: every action of Next keeps the invariant.
LEMMA NextKeeps ==
  ASSUME SyncInv, [Next]_vars
  PROVE  SyncInv'
<1>1. ASSUME NEW f \in Paths, Write(f) PROVE SyncInv'
  BY <1>1, WriteKeeps
<1>2. ASSUME NEW p \in Procs, NEW f \in Payloads, Hook(p, f) PROVE SyncInv'
  BY <1>2, HookKeeps
<1>3. ASSUME NEW p \in Procs, BeginPush(p) PROVE SyncInv'
  BY <1>3, BeginPushKeeps
<1>4. ASSUME NEW p \in Procs, Step(p) \/ Unreachable(p) \/ GiveUp(p) \/ Kill(p) PROVE SyncInv'
  BY <1>4, StepKeeps
<1>5. ASSUME NEW k \in Slots, Handler(k) \/ (ServerFail(k) /\ UNCHANGED clientVars) PROVE SyncInv'
  BY <1>5, ServerKeeps DEF Handler
<1>6. ASSUME NEW k \in Slots, Discard(k) PROVE SyncInv'
  BY <1>6, DiscardKeeps
<1>7. CASE UNCHANGED vars
  BY <1>7 DEF vars, serverVars, clientVars, SyncInv, TypeOK, ServerTypeOK, Contiguous, EndOf,
     SessionRows, RequestsKnow, RequestKnows, ProcessesWait, CopiesLag, Lags, Bound
<1>. QED
  BY <1>1, <1>2, <1>3, <1>4, <1>5, <1>6, <1>7 DEF Next

\* The invariant holds in every reachable state, whatever hooks, pushes,
\* handlers, lost replies, kills and crashes interleave.
THEOREM Invariance == Spec => []SyncInv
<1>1. Init => SyncInv
  BY InitSound
<1>2. SyncInv /\ [Next]_vars => SyncInv'
  BY NextKeeps
<1>. QED
  BY <1>1, <1>2, PTL DEF Spec

\* Type correctness of the server's tables and requests and of the plugin.
THEOREM TypeCorrect == Spec => []TypeOK
<1>1. SyncInv => TypeOK
  BY DEF SyncInv
<1>. QED
  BY <1>1, Invariance, PTL

\* The stored chunks of a session always join without gap or overlap up to
\* last_synced_offset: two unlocked reads of upload_chunk suffice.
THEOREM ChunksJoin == Spec => []Contiguous
<1>1. SyncInv => Contiguous
  BY DEF SyncInv
<1>. QED
  BY <1>1, Invariance, PTL

\* No copy of the plugin state, on disk or in a process, is ahead of the server.
THEOREM NothingAhead == Spec => []NeverAhead
<1>1. SyncInv => NeverAhead
  BY DEF SyncInv, CopiesLag, Lags, NeverAhead, Copies
<1>. QED
  BY <1>1, Invariance, PTL

-----------------------------------------------------------------------------
(* Refinement *)

\* Every step of a handler is a step of the abstract log, or none.
LEMMA ServerStepsLog ==
  ASSUME SyncInv, NEW k \in Slots, ServerStep(k) \/ ServerFail(k)
  PROVE  [Log!Next]_<<status, chunks>>
<1>. USE DEF Log!Next, Log!Open, Log!Extend, Log!Close
<1>1. req[k] \in Request /\ RequestKnows(req[k])
  BY DEF SyncInv, TypeOK, ServerTypeOK, RequestsKnow
<1>2. CASE ConnectCreate(k)
  <2>1. req[k].sid \in SessionIds /\ status[req[k].sid] = "none"
    BY <1>2 DEF ConnectCreate, At, SyncInv, RequestsKnow, RequestKnows, TypeOK, ServerTypeOK, SessionIds
  <2>. QED
    BY <1>2, <2>1 DEF ConnectCreate
<1>3. CASE UploadAppend(k)
  <2> DEFINE r == req[k]
             piece == [path |-> r.path, start |-> r.start, end |-> r.end]
  <2>1. CASE UNCHANGED tables
    BY <2>1 DEF tables
  <2>2. CASE /\ UNCHANGED <<created, status>> /\ r.start = synced[r.sid]
             /\ chunks' = [chunks EXCEPT ![r.sid] = Append(@, piece)]
    <3>1. r.start < r.end /\ r.sid \in SessionIds /\ status[r.sid] # "none" /\ r.path \in Paths
          /\ r.end <= MaxSize
      BY <1>3, AppendFacts DEF UploadAppend, Store
    <3>2. r.start \in 0 .. MaxSize /\ r.end \in 0 .. MaxSize
      BY <1>1, <3>1 DEF Request
    <3>3. piece \in [path : Paths, start : 0 .. MaxSize, end : 0 .. MaxSize]
          /\ piece.start = r.start /\ piece.end = r.end
      BY <3>1, <3>2
    <3>4. piece.start = Log!Reach(chunks[r.sid])
      BY <2>2, <3>1, <3>3 DEF Log!Reach, SyncInv, Contiguous, EndOf
    <3>5. piece.end > piece.start
      BY <1>1, <3>1, <3>3 DEF Request
    <3>. HIDE DEF piece, r
    <3>. QED
      BY <2>2, <3>1, <3>3, <3>4, <3>5
  <2>. QED
    BY <1>3, <2>1, <2>2, AppendEffect
<1>4. CASE DisconnectCommit(k)
  <2>1. req[k].sid \in SessionIds /\ status[req[k].sid] \in {"ACTIVE", "CLOSED"}
    BY <1>1, <1>4 DEF DisconnectCommit, At, RequestKnows, SyncInv, TypeOK, ServerTypeOK
  <2>2. CASE status[req[k].sid] = "ACTIVE"
    BY <1>4, <2>1, <2>2 DEF DisconnectCommit
  <2>3. CASE status[req[k].sid] = "CLOSED"
    BY <1>4, <2>1, <2>3 DEF DisconnectCommit, SyncInv, TypeOK, ServerTypeOK
  <2>. QED
    BY <2>1, <2>2, <2>3
<1>. QED
  BY <1>2, <1>3, <1>4 DEF ServerStep, ServerFail, tables, ConnectFind, ConnectRefresh, EnsureSnapshot,
     RebuildRead, RebuildPublish, Respond, UploadLoad, UploadCheck, DisconnectLoad, GetSession

\* The plugin and the server implement the append-only log: sessions open once
\* and close once, and a transcript is only ever extended at its end.
THEOREM ImplementsLog == Spec => LogSpec
<1>1. Init => Log!Init
  BY DEF Init, ServerInit, Log!Init
<1>2. SyncInv /\ [Next]_vars => [Log!Next]_<<status, chunks>>
  <2>1. SUFFICES ASSUME SyncInv, [Next]_vars PROVE [Log!Next]_<<status, chunks>>
    OBVIOUS
  <2>2. ASSUME NEW k \in Slots, Handler(k) \/ (ServerFail(k) /\ UNCHANGED clientVars)
        PROVE  [Log!Next]_<<status, chunks>>
    BY <2>1, <2>2, ServerStepsLog DEF Handler
  <2>3. ASSUME UNCHANGED tables PROVE UNCHANGED <<status, chunks>>
    BY <2>3 DEF tables
  <2>4. ASSUME NEW f \in Paths, Write(f) PROVE UNCHANGED tables
    BY <2>4 DEF Write, serverVars, tables
  <2>5. ASSUME NEW p \in Procs, NEW f \in Payloads, Hook(p, f) PROVE UNCHANGED tables
    BY <2>5 DEF Hook, BeginSessionStart, BeginPostToolUse, BeginStop, BeginForcedFlush, Begin,
       serverVars, tables
  <2>6. ASSUME NEW p \in Procs, BeginPush(p) \/ Unreachable(p) \/ GiveUp(p) \/ Kill(p)
        PROVE  UNCHANGED tables
    BY <2>6 DEF BeginPush, Begin, Unreachable, GiveUp, Kill, serverVars, tables
  <2>7. ASSUME NEW p \in Procs, Step(p) PROVE UNCHANGED tables
    BY <2>7 DEF Step, Save, Connect, Connected, FlushUnbound, FlushClean, FlushUpload, Uploaded,
       Disconnect, Disconnected, Verify, Verified, Fetch, Fetched, PushDone, Rejected, Send,
       serverVars, tables
  <2>8. ASSUME NEW k \in Slots, Discard(k) PROVE UNCHANGED tables
    BY <2>8 DEF Discard
  <2>9. UNCHANGED vars => UNCHANGED tables
    BY DEF vars, serverVars, tables
  <2>. QED
    BY <2>1, <2>2, <2>3, <2>4, <2>5, <2>6, <2>7, <2>8, <2>9 DEF Next
<1>. QED
  BY <1>1, <1>2, Invariance, PTL DEF Spec, LogSpec, Log!Spec

-----------------------------------------------------------------------------
(* One request at a time *)

\* Request r has been answered with success.
Reported(r, op) == r.op = op /\ r.phase = "done" /\ r.res = "ok"

\* What a request knows when there is no other: what it has read is still so.
AloneKnows(r) ==
  /\ r.phase = "create" => Active = {}
  /\ r.phase = "publish" => r.count = Len(chunks[r.sid])
  /\ (r.op = "upload" /\ r.phase \in {"check", "append"}) => status[r.sid] = "ACTIVE"
  /\ (\/ r.op = "connect" /\ r.phase \in {"refresh", "ensure", "rebuild", "publish", "respond"}
      \/ Reported(r, "connect")) =>
       status[r.sid] = "ACTIVE" /\ r.off = synced[r.sid]
  /\ Reported(r, "connect") => r.count = Len(chunks[r.sid])

\* The inductive invariant of a server that handles one request at a time.
AloneInv ==
  /\ SnapshotMatchesChunks /\ SingleActiveSession
  /\ \A k \in Slots : AloneKnows(req[k])

\* A step that leaves the tables and a slot keeps what its request knows.
LEMMA ClientAlone ==
  ASSUME AloneInv, UNCHANGED tables,
         \A k \in Slots : req'[k] = req[k] \/ req'[k].phase \in {"new", "free"}
  PROVE  AloneInv'
<1>1. SnapshotMatchesChunks' /\ SingleActiveSession'
  BY DEF AloneInv, tables, SnapshotMatchesChunks, SingleActiveSession, Active
<1>2. SUFFICES ASSUME NEW k \in Slots PROVE AloneKnows(req[k])'
  BY <1>1 DEF AloneInv
<1>3. CASE req'[k] = req[k]
  BY <1>3 DEF AloneInv, AloneKnows, Reported, tables, Active
<1>4. CASE req'[k].phase \in {"new", "free"}
  BY <1>4 DEF AloneKnows, Reported
<1>. QED
  BY <1>3, <1>4

\* Sending a request puts a new one in a free slot.
LEMMA SendNew ==
  ASSUME req \in [Slots -> Request], NEW k \in Slots, NEW r, r.phase \in {"new", "free"},
         req' = [req EXCEPT ![k] = r]
  PROVE  \A j \in Slots : req'[j] = req[j] \/ req'[j].phase \in {"new", "free"}
BY DEF Request

LEMMA TakeFrees ==
  ASSUME req \in [Slots -> Request], NEW k, req' = [req EXCEPT ![k] = FreeSlot]
  PROVE  \A j \in Slots : req'[j] = req[j] \/ req'[j].phase \in {"new", "free"}
<1>1. FreeSlot.phase = "free"
  BY DEF FreeSlot
<1>. QED
  BY <1>1

\* The plugin's steps change no table, and a slot only from or to free.
LEMMA PluginFrame ==
  ASSUME req \in [Slots -> Request], [Next]_vars,
         ~ \E k \in Slots : Handler(k) \/ (ServerFail(k) /\ UNCHANGED clientVars)
  PROVE  /\ UNCHANGED tables
         /\ \A k \in Slots : req'[k] = req[k] \/ req'[k].phase \in {"new", "free"}
<1>. USE DEF serverVars, tables
<1>1. CASE UNCHANGED serverVars
  BY <1>1
<1>2. ASSUME NEW r, NEW p, NEW pc, r.phase \in {"new", "free"}, Send(p, r, pc)
      PROVE  /\ UNCHANGED tables
             /\ \A k \in Slots : req'[k] = req[k] \/ req'[k].phase \in {"new", "free"}
  BY <1>2, SendNew DEF Send
<1>3. ASSUME NEW p, TakeAnswer(p), UNCHANGED tables
      PROVE  /\ UNCHANGED tables
             /\ \A k \in Slots : req'[k] = req[k] \/ req'[k].phase \in {"new", "free"}
  BY <1>3, TakeFrees DEF TakeAnswer
<1>4. ASSUME NEW op, NEW s PROVE NewRequest(op, s).phase \in {"new", "free"}
  BY DEF NewRequest, FreeSlot
<1>5. ASSUME NEW p \in Procs, FlushUpload(p)
      PROVE  /\ UNCHANGED tables
             /\ \A k \in Slots : req'[k] = req[k] \/ req'[k].phase \in {"new", "free"}
  <2>1. PICK k \in Slots : req' = [req EXCEPT ![k] = UploadRequest(proc[p].st.sid, proc[p].st.seq,
                              proc[p].st.path, proc[p].st.off, Length(proc[p].st))]
    BY <1>5 DEF FlushUpload
  <2>2. UploadRequest(proc[p].st.sid, proc[p].st.seq, proc[p].st.path, proc[p].st.off,
                      Length(proc[p].st)).phase \in {"new", "free"}
    BY DEF UploadRequest, NewRequest, FreeSlot
  <2>. QED
    BY <1>5, <2>1, <2>2, SendNew DEF FlushUpload
<1>6. ASSUME NEW p \in Procs, Step(p)
      PROVE  /\ UNCHANGED tables
             /\ \A k \in Slots : req'[k] = req[k] \/ req'[k].phase \in {"new", "free"}
  <2>1. CASE Save(p) \/ FlushUnbound(p) \/ FlushClean(p) \/ PushDone(p)
    BY <1>1, <2>1 DEF Save, FlushUnbound, FlushClean, PushDone
  <2>2. CASE Connect(p) \/ Disconnect(p) \/ Verify(p) \/ Fetch(p)
    BY <1>2, <1>4, <2>2 DEF Connect, Disconnect, Verify, Fetch
  <2>3. CASE Connected(p) \/ Uploaded(p) \/ Disconnected(p) \/ Verified(p) \/ Fetched(p) \/ Rejected(p)
    BY <1>3, <2>3 DEF Connected, Uploaded, Disconnected, Verified, Fetched, Rejected
  <2>. QED
    BY <1>5, <1>6, <2>1, <2>2, <2>3 DEF Step
<1>7. ASSUME NEW p \in Procs, NEW f \in Payloads, Hook(p, f) PROVE UNCHANGED serverVars
  BY <1>7 DEF Hook, BeginSessionStart, BeginPostToolUse, BeginStop, BeginForcedFlush, Begin
<1>8. ASSUME NEW p \in Procs, BeginPush(p) \/ Unreachable(p) \/ GiveUp(p) \/ Kill(p)
      PROVE  UNCHANGED serverVars
  BY <1>8 DEF BeginPush, Begin, Unreachable, GiveUp, Kill
<1>9. ASSUME NEW k \in Slots, Discard(k)
      PROVE  /\ UNCHANGED tables
             /\ \A j \in Slots : req'[j] = req[j] \/ req'[j].phase \in {"new", "free"}
  BY <1>9, TakeFrees DEF Discard
<1>10. ASSUME NEW f \in Paths, Write(f) PROVE UNCHANGED serverVars
  BY <1>10 DEF Write
<1>. QED
  BY <1>1, <1>6, <1>7, <1>8, <1>9, <1>10 DEF Next, vars

\* A step that leaves the tables alone keeps what is said of them.
LEMMA TablesAlone ==
  ASSUME AloneInv, UNCHANGED <<status, chunks, snapshot>>
  PROVE  SnapshotMatchesChunks' /\ SingleActiveSession'
BY DEF AloneInv, SnapshotMatchesChunks, SingleActiveSession, Active

\* With one slot, every step of its handler keeps what the request knows.
LEMMA ServerAlone ==
  ASSUME SyncInv, AloneInv, NEW k, Slots = {k}, ServerStep(k) \/ ServerFail(k)
  PROVE  AloneInv'
<1>1. /\ req \in [Slots -> Request] /\ k \in Slots /\ req[k] \in Request
      /\ status \in [SessionIds -> {"none", "ACTIVE", "CLOSED"}]
      /\ synced \in [SessionIds -> Nat] /\ chunks \in [SessionIds -> Seq(Chunk)]
      /\ snapshot \in [SessionIds -> Nat \cup {NoSnapshot}]
      /\ RequestKnows(req[k]) /\ AloneKnows(req[k])
  BY DEF SyncInv, TypeOK, ServerTypeOK, RequestsKnow, AloneInv
<1>2. SUFFICES SnapshotMatchesChunks' /\ SingleActiveSession' /\ AloneKnows(req[k])'
  BY DEF AloneInv
<1>3. ASSUME UNCHANGED tables PROVE SnapshotMatchesChunks' /\ SingleActiveSession'
  BY <1>3, TablesAlone DEF tables
<1>4. ASSUME NEW res, res # "ok", Reply(k, res) PROVE AloneKnows(req[k])'
  <2>1. req'[k].phase = "done" /\ req'[k].res # "ok"
    BY <1>1, <1>4 DEF Reply, Request
  <2>. QED
    BY <2>1 DEF AloneKnows, Reported
<1>5. CASE ConnectFind(k)
  <2>1. UNCHANGED <<status, synced, chunks, snapshot>> /\ req[k].op = "connect"
    BY <1>5 DEF ConnectFind, At
  <2>2. CASE \E s \in Active : req' = [req EXCEPT ![k] = [@ EXCEPT !.phase = "ensure", !.sid = s, !.off = synced[s]]]
    <3>1. PICK s \in Active : req' = [req EXCEPT ![k] = [@ EXCEPT !.phase = "ensure", !.sid = s, !.off = synced[s]]]
      BY <2>2
    <3>2. req'[k].phase = "ensure" /\ req'[k].sid = s /\ req'[k].off = synced[s] /\ status[s] = "ACTIVE"
      BY <1>1, <3>1 DEF Request, Active
    <3>3. AloneKnows(req[k])'
      BY <2>1, <3>2 DEF AloneKnows, Reported
    <3>. QED
      BY <2>1, <3>3, TablesAlone
  <2>3. CASE Active = {} /\ req' = [req EXCEPT ![k] = [@ EXCEPT !.phase = "create", !.sid = created + 1]]
    <3>1. req'[k].phase = "create" /\ Active' = {}
      BY <1>1, <2>1, <2>3 DEF Request, Active
    <3>2. AloneKnows(req[k])'
      BY <3>1 DEF AloneKnows, Reported
    <3>. QED
      BY <2>1, <3>2, TablesAlone
  <2>. QED
    BY <1>5, <2>2, <2>3 DEF ConnectFind
<1>6. CASE ConnectCreate(k)
  <2>1. /\ req[k].phase = "create" /\ req[k].op = "connect" /\ Active = {}
        /\ req[k].sid \in SessionIds /\ status[req[k].sid] = "none"
    BY <1>1, <1>6 DEF ConnectCreate, At, RequestKnows, AloneKnows, SyncInv, TypeOK, ServerTypeOK, SessionIds
  <2>2. \A s \in SessionIds : status'[s] = "ACTIVE" => s = req[k].sid
    BY <1>1, <1>6, <2>1 DEF ConnectCreate, Active
  <2>3. SnapshotMatchesChunks' /\ SingleActiveSession'
    BY <1>6, <2>2 DEF ConnectCreate, AloneInv, SnapshotMatchesChunks, SingleActiveSession, Active
  <2>4. req'[k].phase = "refresh" /\ req'[k].sid = req[k].sid /\ req'[k].off = 0
    BY <1>1, <1>6 DEF ConnectCreate, Request
  <2>5. status'[req[k].sid] = "ACTIVE" /\ synced'[req[k].sid] = 0
    BY <1>1, <1>6, <2>1 DEF ConnectCreate
  <2>6. AloneKnows(req[k])'
    BY <2>4, <2>5 DEF AloneKnows, Reported
  <2>. QED
    BY <2>3, <2>6
<1>7. CASE EnsureSnapshot(k)
  <2>1. PICK ph \in {"rebuild", "respond"} : Goto(k, ph)
    BY <1>7 DEF EnsureSnapshot
  <2>2. /\ req'[k].phase \in {"rebuild", "respond"} /\ req'[k].op = req[k].op
        /\ req'[k].sid = req[k].sid /\ req'[k].off = req[k].off
    BY <1>1, <2>1 DEF Goto, Request
  <2>3. req[k].op = "connect" => status[req[k].sid] = "ACTIVE" /\ req[k].off = synced[req[k].sid]
    BY <1>1, <1>7 DEF EnsureSnapshot, At, AloneKnows
  <2>4. UNCHANGED tables
    BY <1>7 DEF EnsureSnapshot
  <2>5. AloneKnows(req[k])'
    BY <2>2, <2>3, <2>4 DEF AloneKnows, Reported, tables
  <2>. QED
    BY <1>3, <2>4, <2>5
<1>8. CASE RebuildRead(k)
  <2>1. /\ req'[k].phase = "publish" /\ req'[k].op = req[k].op /\ req'[k].sid = req[k].sid
        /\ req'[k].off = req[k].off /\ req'[k].count = Len(chunks[req[k].sid])
    BY <1>1, <1>8 DEF RebuildRead, Request
  <2>2. UNCHANGED tables /\ req[k].phase = "rebuild"
    BY <1>8 DEF RebuildRead
  <2>3. req[k].op = "connect" => status[req[k].sid] = "ACTIVE" /\ req[k].off = synced[req[k].sid]
    BY <1>1, <2>2 DEF AloneKnows
  <2>4. AloneKnows(req[k])'
    BY <2>1, <2>2, <2>3 DEF AloneKnows, Reported, tables
  <2>. QED
    BY <1>3, <2>2, <2>4
<1>9. CASE RebuildPublish(k)
  <2>1. /\ req'[k].phase = "respond" /\ req'[k].op = req[k].op /\ req'[k].sid = req[k].sid
        /\ req'[k].off = req[k].off
    BY <1>1, <1>9 DEF RebuildPublish, Goto, Request
  <2>2. UNCHANGED <<status, synced, chunks>> /\ req[k].phase = "publish"
        /\ snapshot' = [snapshot EXCEPT ![req[k].sid] = Len(chunks[req[k].sid])]
    BY <1>1, <1>9 DEF RebuildPublish, AloneKnows
  <2>3. req[k].op = "connect" => status[req[k].sid] = "ACTIVE" /\ req[k].off = synced[req[k].sid]
    BY <1>1, <2>2 DEF AloneKnows
  <2>4. AloneKnows(req[k])'
    BY <2>1, <2>2, <2>3 DEF AloneKnows, Reported
  <2>5. SnapshotMatchesChunks' /\ SingleActiveSession'
    BY <1>1, <2>2 DEF AloneInv, SnapshotMatchesChunks, SingleActiveSession, Active
  <2>. QED
    BY <2>4, <2>5
<1>10. CASE Respond(k)
  <2>1. /\ req'[k].phase = "done" /\ req'[k].op = req[k].op /\ req'[k].sid = req[k].sid
        /\ req'[k].off = req[k].off /\ req'[k].count = Len(chunks[req[k].sid])
    BY <1>1, <1>10 DEF Respond, Request
  <2>2. UNCHANGED tables /\ req[k].phase = "respond"
    BY <1>10 DEF Respond
  <2>3. req[k].op = "connect" => status[req[k].sid] = "ACTIVE" /\ req[k].off = synced[req[k].sid]
    BY <1>1, <2>2 DEF AloneKnows
  <2>4. AloneKnows(req[k])'
    BY <2>1, <2>2, <2>3 DEF AloneKnows, Reported, tables
  <2>. QED
    BY <1>3, <2>2, <2>4
<1>11. CASE UploadLoad(k)
  <2>1. UNCHANGED tables
    BY <1>11 DEF UploadLoad
  <2>2. CASE Reply(k, "refused") \/ Reply(k, "conflict")
    BY <1>3, <1>4, <2>1, <2>2
  <2>3. CASE status[req[k].sid] = "ACTIVE" /\ Goto(k, "check")
    <3>1. req'[k].phase = "check" /\ req'[k].sid = req[k].sid /\ req'[k].op = "upload"
      BY <1>1, <1>11, <2>3 DEF UploadLoad, At, Goto, Request
    <3>2. AloneKnows(req[k])'
      BY <2>1, <2>3, <3>1 DEF AloneKnows, Reported, tables
    <3>. QED
      BY <1>3, <2>1, <3>2
  <2>. QED
    BY <1>11, <2>2, <2>3 DEF UploadLoad
<1>12. CASE UploadCheck(k)
  <2>1. UNCHANGED tables /\ status[req[k].sid] = "ACTIVE"
    BY <1>1, <1>12 DEF UploadCheck, At, AloneKnows
  <2>2. CASE Reply(k, "conflict")
    BY <1>3, <1>4, <2>1, <2>2
  <2>3. CASE Goto(k, "append")
    <3>1. req'[k].phase = "append" /\ req'[k].sid = req[k].sid /\ req'[k].op = "upload"
      BY <1>1, <1>12, <2>3 DEF UploadCheck, At, Goto, Request
    <3>2. AloneKnows(req[k])'
      BY <2>1, <3>1 DEF AloneKnows, Reported, tables
    <3>. QED
      BY <1>3, <2>1, <3>2
  <2>. QED
    BY <1>12, <2>2, <2>3 DEF UploadCheck
<1>13. CASE UploadAppend(k)
  <2>1. CASE Reply(k, "error") /\ UNCHANGED tables
    BY <1>3, <1>4, <2>1
  <2>2. CASE Reply(k, "ok") /\ UNCHANGED <<created, status>> /\ Store(req[k], Len(chunks[req[k].sid]) + 1)
    <3> DEFINE r == req[k]
               c == chunks[r.sid]
               piece == [path |-> r.path, start |-> r.start, end |-> r.end]
    <3>1. c \in Seq(Chunk) /\ Len(c) \in Nat /\ r.sid \in SessionIds /\ piece \in Chunk
      BY <1>13, <1>1, AppendFacts DEF UploadAppend, Request, Chunk
    <3>2. chunks' = [chunks EXCEPT ![r.sid] = Append(c, piece)]
          /\ snapshot' = [snapshot EXCEPT ![r.sid] = Len(c) + 1]
      BY <1>1, <2>2 DEF Store
    <3>. HIDE DEF piece
    <3>3. Len(Append(c, piece)) = Len(c) + 1
      BY <3>1
    <3>. HIDE DEF c
    <3>4. SnapshotMatchesChunks'
      BY <1>1, <3>1, <3>2, <3>3 DEF AloneInv, SnapshotMatchesChunks
    <3>5. SingleActiveSession'
      BY <2>2 DEF AloneInv, SingleActiveSession, Active
    <3>6. req'[k].phase = "done" /\ req'[k].op = "upload"
      BY <1>1, <1>13, <2>2 DEF UploadAppend, At, Reply, Request
    <3>7. AloneKnows(req[k])'
      BY <3>6 DEF AloneKnows, Reported
    <3>. QED
      BY <3>4, <3>5, <3>7
  <2>. QED
    BY <1>13, <2>1, <2>2 DEF UploadAppend, tables
<1>14. CASE DisconnectLoad(k)
  <2>1. req'[k].op = "disconnect" /\ req'[k].phase \in {"done", "close"} /\ UNCHANGED tables
    <3>1. CASE Reply(k, "ok")
      BY <1>1, <1>14, <3>1 DEF DisconnectLoad, At, Reply, Request
    <3>2. CASE Goto(k, "close")
      BY <1>1, <1>14, <3>2 DEF DisconnectLoad, At, Goto, Request
    <3>. QED
      BY <1>14, <3>1, <3>2 DEF DisconnectLoad
  <2>2. AloneKnows(req[k])'
    BY <2>1 DEF AloneKnows, Reported
  <2>. QED
    BY <1>3, <2>1, <2>2
<1>15. CASE DisconnectCommit(k)
  <2>1. req'[k].op = "disconnect" /\ req'[k].phase = "done"
    BY <1>1, <1>15 DEF DisconnectCommit, At, Reply, Request
  <2>2. AloneKnows(req[k])'
    BY <2>1 DEF AloneKnows, Reported
  <2>3. \A s \in SessionIds : status'[s] = "ACTIVE" => status[s] = "ACTIVE"
    BY <1>1, <1>15 DEF DisconnectCommit
  <2>4. SnapshotMatchesChunks' /\ SingleActiveSession'
    BY <1>15, <2>3 DEF DisconnectCommit, AloneInv, SnapshotMatchesChunks, SingleActiveSession, Active
  <2>. QED
    BY <2>2, <2>4
<1>16. CASE GetSession(k)
  <2>1. req'[k].op = "get" /\ req'[k].phase = "done" /\ UNCHANGED tables
    BY <1>1, <1>16 DEF GetSession, At, Request
  <2>2. AloneKnows(req[k])'
    BY <2>1 DEF AloneKnows, Reported
  <2>. QED
    BY <1>3, <2>1, <2>2
<1>17. CASE ServerFail(k)
  BY <1>3, <1>4, <1>17 DEF ServerFail
<1>18. CASE ConnectRefresh(k)
  <2>1. /\ req[k].op = "connect" /\ req[k].phase = "refresh" /\ req'[k].phase = "rebuild"
        /\ req'[k].op = req[k].op /\ req'[k].sid = req[k].sid /\ req'[k].off = synced[req[k].sid]
        /\ UNCHANGED tables
    BY <1>1, <1>18 DEF ConnectRefresh, At, Request
  <2>2. status[req[k].sid] = "ACTIVE"
    BY <1>1, <2>1 DEF AloneInv, AloneKnows
  <2>3. AloneKnows(req[k])'
    BY <2>1, <2>2 DEF AloneKnows, Reported, tables
  <2>. QED
    BY <1>3, <2>1, <2>3
<1>. QED
  BY <1>5, <1>6, <1>7, <1>8, <1>9, <1>10, <1>11, <1>12, <1>13, <1>14, <1>15, <1>16, <1>17, <1>18
     DEF ServerStep

LEMMA AloneInit ==
  ASSUME Init
  PROVE  AloneInv
BY DEF Init, ServerInit, AloneInv, SnapshotMatchesChunks, SingleActiveSession, Active,
   AloneKnows, Reported, FreeSlot

LEMMA NextAlone ==
  ASSUME SyncInv, AloneInv, NEW k, Slots = {k}, [Next]_vars
  PROVE  AloneInv'
<1>1. CASE \E j \in Slots : Handler(j) \/ (ServerFail(j) /\ UNCHANGED clientVars)
  BY <1>1, ServerAlone DEF Handler
<1>2. CASE ~\E j \in Slots : Handler(j) \/ (ServerFail(j) /\ UNCHANGED clientVars)
  BY <1>2, PluginFrame, ClientAlone DEF SyncInv, TypeOK, ServerTypeOK
<1>. QED
  BY <1>1, <1>2

\* One request at a time: what a request has read is still so when it is used.
THEOREM AloneInvariance ==
  ASSUME NEW k, Slots = {k}
  PROVE  Spec => []AloneInv
<1>1. Init => AloneInv
  BY AloneInit
<1>2. SyncInv /\ AloneInv /\ [Next]_vars => AloneInv'
  BY NextAlone
<1>. QED
  BY <1>1, <1>2, Invariance, PTL DEF Spec

\* While the server handles one request at a time, for any number of processes
\* and whatever faults, the snapshot joins every chunk stored: rebuild_snapshot
\* goes wrong only when two requests overlap.
THEOREM SnapshotsComplete ==
  ASSUME NEW k, Slots = {k}
  PROVE  Spec => []SnapshotMatchesChunks
<1>1. AloneInv => SnapshotMatchesChunks
  BY DEF AloneInv
<1>. QED
  BY <1>1, AloneInvariance, PTL

\* One request at a time: connect resumes the ACTIVE session of the machine or
\* opens the only one (_find_resumable_session).
THEOREM OneActiveSession ==
  ASSUME NEW k, Slots = {k}
  PROVE  Spec => []SingleActiveSession
<1>1. AloneInv => SingleActiveSession
  BY DEF AloneInv
<1>. QED
  BY <1>1, AloneInvariance, PTL

\* One request at a time: nothing is uploaded to a closed session, as the check
\* of upload_chunk still holds when it appends.
THEOREM ClosedIsFinal ==
  ASSUME NEW k, Slots = {k}
  PROVE  Spec => NoUploadAfterClose
<1>1. SyncInv /\ AloneInv /\ [Next]_vars =>
        [\A s \in SessionIds : status[s] = "CLOSED" => chunks'[s] = chunks[s]]_vars
  <2>1. SUFFICES ASSUME SyncInv, AloneInv, [Next]_vars, NEW s \in SessionIds,
                        status[s] = "CLOSED", chunks'[s] # chunks[s]
                 PROVE  FALSE
    OBVIOUS
  <2>2. PICK j \in Slots : Handler(j) \/ (ServerFail(j) /\ UNCHANGED clientVars)
    BY <2>1, PluginFrame DEF SyncInv, TypeOK, ServerTypeOK, tables
  <2>3. UploadAppend(j)
    BY <2>1, <2>2 DEF Handler, ServerStep, ServerFail, tables, ConnectFind, ConnectCreate,
       ConnectRefresh, EnsureSnapshot, RebuildRead, RebuildPublish, Respond, UploadLoad, UploadCheck,
       DisconnectLoad, DisconnectCommit, GetSession
  <2>4. status[req[j].sid] = "ACTIVE"
    BY <2>1, <2>3 DEF UploadAppend, At, AloneInv, AloneKnows
  <2>5. s # req[j].sid
    BY <2>1, <2>4
  <2>. QED
    BY <2>1, <2>3, <2>5, AppendEffect DEF tables, SyncInv, TypeOK, ServerTypeOK
<1>. QED
  BY <1>1, AloneInvariance, Invariance, PTL DEF Spec, NoUploadAfterClose

\* With one process and one request at a time, the state SessionStart saves is
\* exactly the server's: the session it reports is ACTIVE, and offset and
\* sequence number are the next ones (handle_session_start).
THEOREM StartsRealign ==
  ASSUME NEW q, Procs = {q}, NEW k, Slots = {k}
  PROVE  Spec => StartRealigns
<1>1. ASSUME SyncInv, AloneInv, [Next]_vars, NEW p \in Procs,
             proc[p].pc = "connecting", disk' # disk
      PROVE  /\ status'[disk'.sid] = "ACTIVE"
             /\ disk'.off = synced'[disk'.sid]
             /\ disk'.seq = Len(chunks'[disk'.sid]) + 1
  <2>1. Connected(p)
    <3>1. disk' = disk \/ (\E r \in Procs : Connected(r) \/ Save(r) \/ FlushClean(r) \/ Uploaded(r)
                                         \/ Disconnected(r) \/ Unreachable(r) \/ Verified(r))
      <4>1. CASE UNCHANGED vars
        BY <4>1 DEF vars, clientVars
      <4>2. ASSUME NEW f \in Paths, Write(f) PROVE disk' = disk
        BY <4>2 DEF Write
      <4>3. ASSUME NEW r \in Procs, NEW f \in Payloads, Hook(r, f) PROVE disk' = disk
        BY <4>3 DEF Hook, BeginSessionStart, BeginPostToolUse, BeginStop, BeginForcedFlush, Begin
      <4>4. ASSUME NEW r \in Procs, BeginPush(r) \/ GiveUp(r) \/ Kill(r) PROVE disk' = disk
        BY <4>4 DEF BeginPush, Begin, GiveUp, Kill
      <4>5. ASSUME NEW r \in Procs, Connect(r) \/ FlushUnbound(r) \/ FlushUpload(r) \/ Disconnect(r)
                    \/ Verify(r) \/ Fetch(r) \/ Fetched(r) \/ PushDone(r) \/ Rejected(r)
            PROVE disk' = disk
        BY <4>5 DEF Connect, Send, FlushUnbound, FlushUpload, Disconnect, Verify, Fetch, Fetched,
           PushDone, Rejected
      <4>6. ASSUME NEW j \in Slots, Handler(j) \/ (ServerFail(j) /\ UNCHANGED clientVars) \/ Discard(j)
            PROVE  disk' = disk
        BY <4>6 DEF Handler, Discard, clientVars
      <4>. QED
        BY <1>1, <4>1, <4>2, <4>3, <4>4, <4>5, <4>6 DEF Next, Step
    <3>. QED
      BY <1>1, <3>1 DEF Save, FlushClean, Uploaded, Disconnected, Unreachable, Verified, Answered
  <2>2. /\ proc[p].slot \in Slots /\ req[proc[p].slot].op = "connect"
        /\ req[proc[p].slot].phase = "done" /\ req[proc[p].slot].res = "ok"
    BY <1>1, <2>1 DEF Connected, Answered, Answer, SyncInv, ProcessesWait, Waiting, OpOf
  <2> DEFINE a == req[proc[p].slot]
  <2>3. status[a.sid] = "ACTIVE" /\ a.off = synced[a.sid] /\ a.count = Len(chunks[a.sid])
    BY <1>1, <2>2 DEF AloneInv, AloneKnows, Reported
  <2>4. /\ disk'.sid = a.sid /\ disk'.off = a.off /\ disk'.seq = a.count + 1
    <3>1. PICK st \in PluginState : st = proc[p].st
      BY <1>1 DEF SyncInv, TypeOK, Process
    <3>2. disk' = WithPath([st EXCEPT !.sid = a.sid, !.off = a.off, !.seq = a.count + 1,
                                      !.dirty = FALSE], proc[p].path)
      BY <2>1, <3>1 DEF Connected, Answer
    <3>. QED
      BY <3>1, <3>2 DEF WithPath, PluginState
  <2>5. UNCHANGED tables
    BY <2>1 DEF Connected
  <2>. QED
    BY <2>3, <2>4, <2>5 DEF tables
<1>2. SyncInv /\ AloneInv /\ [Next]_vars =>
        [\A p \in Procs : (proc[p].pc = "connecting" /\ disk' # disk) =>
           /\ status'[disk'.sid] = "ACTIVE"
           /\ disk'.off = synced'[disk'.sid]
           /\ disk'.seq = Len(chunks'[disk'.sid]) + 1]_vars
  BY <1>1
<1>. QED
  BY <1>2, AloneInvariance, Invariance, PTL DEF Spec, StartRealigns

-----------------------------------------------------------------------------
(* What a push has delivered *)

\* A step of process p: a new event, the next step of one, or its end.
Acts(p) ==
  \/ \E f \in Payloads : Hook(p, f)
  \/ BeginPush(p) \/ Step(p) \/ Unreachable(p) \/ GiveUp(p) \/ Kill(p)

\* A step of one process leaves the others as they are, and what they wait for.
LEMMA OthersStay ==
  ASSUME SyncInv, NEW p \in Procs, Acts(p), NEW q \in Procs, q # p
  PROVE  /\ proc'[q] = proc[q]
         /\ proc[q].pc \in Waiting => req'[proc[q].slot] = req[proc[q].slot]
<1>1. proc \in [Procs -> Process] /\ req \in [Slots -> Request]
  BY DEF SyncInv, TypeOK, ServerTypeOK
<1>2. proc[q].pc \in Waiting => proc[q].slot \in Slots /\ req[proc[q].slot].phase # "free"
  BY DEF SyncInv, ProcessesWait
<1>3. ASSUME NEW pr, proc' = [proc EXCEPT ![p] = pr], UNCHANGED req
      PROVE  /\ proc'[q] = proc[q]
             /\ proc[q].pc \in Waiting => req'[proc[q].slot] = req[proc[q].slot]
  BY <1>1, <1>3
<1>4. ASSUME NEW pr, NEW k \in Slots, NEW r, proc' = [proc EXCEPT ![p] = pr],
             req[k].phase = "free", req' = [req EXCEPT ![k] = r]
      PROVE  /\ proc'[q] = proc[q]
             /\ proc[q].pc \in Waiting => req'[proc[q].slot] = req[proc[q].slot]
  BY <1>1, <1>2, <1>4
<1>5. ASSUME NEW pr, proc' = [proc EXCEPT ![p] = pr], proc[p].pc \in Waiting, TakeAnswer(p)
      PROVE  /\ proc'[q] = proc[q]
             /\ proc[q].pc \in Waiting => req'[proc[q].slot] = req[proc[q].slot]
  <2>1. proc[q].pc \in Waiting => proc[q].slot # proc[p].slot
    BY <1>5 DEF SyncInv, ProcessesWait
  <2>. QED
    BY <1>1, <1>2, <1>5, <2>1 DEF TakeAnswer
<1>. USE DEF serverVars, Finish
<1>6. CASE \E f \in Payloads : Hook(p, f)
  BY <1>3, <1>6 DEF Hook, BeginSessionStart, BeginPostToolUse, BeginStop, BeginForcedFlush, Begin
<1>7. CASE BeginPush(p) \/ Unreachable(p) \/ GiveUp(p) \/ Kill(p)
  BY <1>3, <1>7 DEF BeginPush, Begin, Unreachable, ClearBinding, GiveUp, Kill
<1>8. CASE Save(p) \/ FlushUnbound(p) \/ FlushClean(p) \/ PushDone(p)
  BY <1>3, <1>8 DEF Save, FlushUnbound, FlushClean, PushDone, AfterFlush
<1>9. CASE Connect(p) \/ Disconnect(p) \/ Verify(p) \/ Fetch(p)
  <2>1. PICK pc, r : Send(p, r, pc)
    BY <1>9 DEF Connect, Disconnect, Verify, Fetch
  <2>2. PICK k \in Slots : /\ req[k].phase = "free" /\ req' = [req EXCEPT ![k] = r]
                           /\ proc' = [proc EXCEPT ![p] = [@ EXCEPT !.pc = pc, !.slot = k]]
    BY <2>1 DEF Send
  <2>. QED
    BY <1>4, <2>2
<1>10. CASE FlushUpload(p)
  BY <1>4, <1>10 DEF FlushUpload
<1>11. CASE Connected(p) \/ Uploaded(p) \/ Disconnected(p)
  BY <1>5, <1>11 DEF Connected, Uploaded, Disconnected, ClearBinding, Answered, AfterFlush, Waiting
<1>12. CASE Verified(p) \/ Fetched(p) \/ Rejected(p)
  BY <1>5, <1>12 DEF Verified, Fetched, Rejected, Answered, Waiting
<1>. QED
  BY <1>6, <1>7, <1>8, <1>9, <1>10, <1>11, <1>12 DEF Acts, Step

\* The chunks of a session cover all that it has synchronized.
Covered ==
  \A s \in SessionIds : \A b \in 0 .. synced[s] - 1 :
    \E n \in DOMAIN chunks[s] : chunks[s][n].start <= b /\ b < chunks[s][n].end

PastFlush == {"verify", "verifying", "fetch", "fetching", "pushed"}

\* A push past its flush has reached its goal, and an upload is up to the goal.
Delivering(pr) ==
  /\ pr.pc \in PastFlush =>
       /\ pr.st.sid \in SessionIds /\ pr.goal <= synced[pr.st.sid]
       /\ pr.goal > 0 => pr.st.path \in Paths
  /\ pr.pc = "uploading" => pr.st.path \in Paths /\ req[pr.slot].end = pr.goal

\* The inductive invariant behind PushUploadsTranscript.
DeliveryInv == Covered /\ \A p \in Procs : Delivering(proc[p])

\* Going on after the flush.
LEMMA AfterFlushDelivers ==
  ASSUME SyncInv, NEW p \in Procs, NEW st \in PluginState, NEW goal \in Nat,
         AfterFlush(p, st, goal), UNCHANGED synced,
         st.sid \in SessionIds, goal <= synced[st.sid], goal > 0 => st.path \in Paths
  PROVE  Delivering(proc[p])'
<1>1. proc[p] \in Process /\ proc \in [Procs -> Process]
  BY DEF SyncInv, TypeOK
<1>2. CASE Finish(p)
  <2>1. proc'[p].pc = "idle"
    BY <1>1, <1>2 DEF Finish, Idle
  <2>. QED
    BY <2>1 DEF Delivering, PastFlush
<1>3. CASE ~Finish(p)
  <2>1. PICK pc \in {"disconnect", "verify"} :
          proc' = [proc EXCEPT ![p] = [@ EXCEPT !.pc = pc, !.st = st, !.slot = NoSlot, !.goal = goal]]
    BY <1>3 DEF AfterFlush
  <2>2. proc'[p].pc = pc /\ proc'[p].st = st /\ proc'[p].goal = goal
    BY <1>1, <2>1 DEF Process
  <2>. QED
    BY <2>2 DEF Delivering, PastFlush
<1>. QED
  BY <1>2, <1>3

\* A process that is neither uploading nor past its flush owes nothing.
LEMMA ElsewhereDelivers ==
  ASSUME NEW p \in Procs, proc'[p].pc \notin PastFlush \cup {"uploading"}
  PROVE  Delivering(proc[p])'
BY DEF Delivering

LEMMA ActsDelivers ==
  ASSUME SyncInv, DeliveryInv, NEW p \in Procs, Acts(p), UNCHANGED tables
  PROVE  Delivering(proc[p])'
<1>1. /\ proc[p] \in Process /\ proc \in [Procs -> Process] /\ proc[p].st \in PluginState
      /\ Bound(proc[p]) /\ Lags(proc[p].st) /\ Delivering(proc[p])
      /\ req \in [Slots -> Request]
      /\ synced \in [SessionIds -> Nat]
  BY ProcessFacts DEF SyncInv, TypeOK, ServerTypeOK, DeliveryInv
<1>2. UNCHANGED synced
  BY DEF tables
<1>3. ASSUME proc'[p].pc \in {"idle", "connect", "save", "flush", "connecting", "disconnecting"}
      PROVE  Delivering(proc[p])'
  BY <1>3, ElsewhereDelivers DEF PastFlush
<1>4. ASSUME Finish(p) PROVE Delivering(proc[p])'
  <2>1. proc'[p].pc = "idle"
    BY <1>1, <1>4 DEF Finish, Idle
  <2>. QED
    BY <1>3, <2>1
<1>5. ASSUME NEW ev, NEW f, NEW pc \in {"connect", "save", "flush"}, NEW st, Begin(p, ev, f, pc, st)
      PROVE  Delivering(proc[p])'
  <2>1. proc' = [proc EXCEPT ![p] = [Idle EXCEPT !.pc = pc, !.ev = ev, !.path = f, !.st = st]]
    BY <1>5 DEF Begin
  <2>2. proc'[p].pc = pc
    BY <1>1, <2>1 DEF Idle
  <2>. QED
    BY <1>3, <2>2
<1>6. CASE \E f \in Payloads : Hook(p, f)
  BY <1>5, <1>6 DEF Hook, BeginSessionStart, BeginPostToolUse, BeginStop, BeginForcedFlush
<1>7. CASE BeginPush(p)
  BY <1>5, <1>7 DEF BeginPush
<1>8. CASE Unreachable(p) \/ GiveUp(p) \/ Kill(p) \/ Disconnected(p) \/ PushDone(p) \/ Rejected(p)
  BY <1>4, <1>8 DEF Unreachable, ClearBinding, GiveUp, Kill, Disconnected, PushDone, Rejected
<1>9. CASE Save(p)
  <2>1. CASE Finish(p)
    BY <1>4, <2>1
  <2>2. CASE proc' = [proc EXCEPT ![p].pc = "flush"]
    <3>1. proc'[p].pc = "flush"
      BY <1>1, <2>2 DEF Process
    <3>. QED
      BY <3>1, ElsewhereDelivers DEF PastFlush
  <2>. QED
    BY <1>9, <2>1, <2>2 DEF Save
<1>10. ASSUME NEW pc, NEW r, Send(p, r, pc)
       PROVE  proc'[p].pc = pc /\ proc'[p].st = proc[p].st /\ proc'[p].goal = proc[p].goal
  <2>1. PICK k \in Slots : proc' = [proc EXCEPT ![p] = [@ EXCEPT !.pc = pc, !.slot = k]]
    BY <1>10 DEF Send
  <2>. QED
    BY <1>1, <2>1 DEF Process
<1>11. CASE Connect(p) \/ Disconnect(p)
  <2>1. proc'[p].pc \in {"connecting", "disconnecting"}
    BY <1>10, <1>11 DEF Connect, Disconnect
  <2>. QED
    BY <2>1, ElsewhereDelivers DEF PastFlush
<1>12. CASE Verify(p) \/ Fetch(p)
  <2>1. /\ proc'[p].pc \in {"verifying", "fetching"} /\ proc[p].pc \in {"verify", "fetch"}
        /\ proc'[p].st = proc[p].st /\ proc'[p].goal = proc[p].goal
    BY <1>10, <1>12 DEF Verify, Fetch
  <2>. QED
    BY <1>1, <1>2, <2>1 DEF Delivering, PastFlush
<1>13. CASE Connected(p)
  <2>1. CASE Finish(p)
    BY <1>4, <2>1
  <2>2. ASSUME NEW st, proc' = [proc EXCEPT ![p] = [@ EXCEPT !.pc = "flush", !.st = st, !.slot = NoSlot]]
        PROVE  Delivering(proc[p])'
    <3>1. proc'[p].pc = "flush"
      BY <1>1, <2>2 DEF Process
    <3>. QED
      BY <3>1, ElsewhereDelivers DEF PastFlush
  <2>. QED
    BY <1>13, <2>1, <2>2 DEF Connected
<1>14. CASE FlushUnbound(p)
  <2>1. proc[p].ev # "push" /\ proc[p].st.sid = NoSession
    BY <1>1, <1>14 DEF FlushUnbound, Bound
  <2>. QED
    BY <1>4, <1>14, <2>1 DEF FlushUnbound, AfterFlush
<1>15. CASE FlushClean(p)
  <2> DEFINE st == [proc[p].st EXCEPT !.dirty = FALSE]
  <2>1. /\ st \in PluginState /\ st.sid = proc[p].st.sid /\ st.off = proc[p].st.off
        /\ st.path = proc[p].st.path
    BY <1>1 DEF PluginState
  <2>2. AfterFlush(p, st, Length(st)) /\ st.sid # NoSession /\ Length(st) <= st.off
    BY <1>15, <2>1 DEF FlushClean, NothingToSend, Length
  <2>. HIDE DEF st
  <2>3. st.sid \in SessionIds /\ st.off <= synced[st.sid] /\ synced[st.sid] \in Nat /\ st.off \in Nat
    BY <1>1, <2>1, <2>2 DEF Lags, PluginState
  <2>4. Length(st) \in Nat /\ (Length(st) > 0 => st.path \in Paths)
    BY <2>1, LengthType DEF Length, PluginState
  <2>5. Length(st) <= synced[st.sid]
    BY <2>2, <2>3, <2>4
  <2>. QED
    BY <1>2, <2>1, <2>2, <2>3, <2>4, <2>5, AfterFlushDelivers
<1>16. CASE FlushUpload(p)
  <2> DEFINE st == proc[p].st
             r  == UploadRequest(st.sid, st.seq, st.path, st.off, Length(st))
  <2>1. PICK k \in Slots : /\ req' = [req EXCEPT ![k] = r]
                           /\ proc' = [proc EXCEPT ![p] = [@ EXCEPT !.pc = "uploading", !.slot = k, !.goal = Length(st)]]
    BY <1>16 DEF FlushUpload
  <2>2. r.end = Length(st)
    BY DEF UploadRequest, NewRequest, FreeSlot
  <2>3. st.path \in Paths
    <3>1. Length(st) \in Nat /\ st.off \in Nat
      BY <1>1, LengthType DEF PluginState
    <3>2. Length(st) > st.off
      BY <1>16, <3>1 DEF FlushUpload, NothingToSend
    <3>. QED
      BY <1>1, <3>2, LengthType
  <2>. HIDE DEF r
  <2>4. /\ proc'[p].pc = "uploading" /\ proc'[p].slot = k /\ proc'[p].goal = Length(st)
        /\ proc'[p].st = st /\ req'[k] = r
    BY <1>1, <2>1 DEF Process
  <2>. QED
    BY <2>2, <2>3, <2>4 DEF Delivering, PastFlush
<1>17. CASE Uploaded(p)
  <2> DEFINE a  == Answer(p)
             st == [proc[p].st EXCEPT !.off = a.end, !.seq = @ + 1, !.dirty = FALSE]
  <2>1. a \in Request /\ RequestKnows(a) /\ a.op = "upload" /\ a.phase = "done" /\ a.res = "ok"
        /\ a.sid = proc[p].st.sid /\ proc[p].pc = "uploading" /\ a.end = proc[p].goal
    BY <1>1, <1>17, AnswerFacts DEF Uploaded, Answered, Answer, Waiting, OpOf, Delivering
  <2>2. a.end <= synced[a.sid] /\ proc[p].st.path \in Paths /\ proc[p].goal \in Nat
    BY <1>1, <2>1 DEF RequestKnows, Delivering, Process
  <2>3. a.sid \in SessionIds
    BY <1>17, <2>1 DEF RequestKnows
  <2>4. st \in PluginState /\ st.sid = a.sid /\ st.path = proc[p].st.path
    <3>1. a.end \in Nat /\ proc[p].st.seq + 1 \in Nat
      BY <1>1, <2>1 DEF Request, PluginState
    <3>. HIDE DEF a
    <3>. QED
      BY <1>1, <2>1, <3>1 DEF PluginState
  <2>5. AfterFlush(p, st, proc[p].goal)
    BY <1>17 DEF Uploaded
  <2>. HIDE DEF st, a
  <2>. QED
    BY <1>2, <2>1, <2>2, <2>3, <2>4, <2>5, AfterFlushDelivers
<1>18. CASE Verified(p)
  <2>1. CASE Finish(p)
    BY <1>4, <2>1
  <2>2. CASE ~Finish(p)
    <3>1. PICK off : proc' = [proc EXCEPT ![p] = [@ EXCEPT !.pc = "fetch",
                       !.st = [proc[p].st EXCEPT !.off = off], !.slot = NoSlot]]
      BY <1>18, <2>2 DEF Verified
    <3> DEFINE st == [proc[p].st EXCEPT !.off = off]
    <3>2. st.sid = proc[p].st.sid /\ st.path = proc[p].st.path
      BY <1>1 DEF PluginState
    <3>. HIDE DEF st
    <3>3. proc'[p].pc = "fetch" /\ proc'[p].st = st /\ proc'[p].goal = proc[p].goal
      BY <1>1, <3>1 DEF Process, st
    <3>4. proc[p].pc \in PastFlush
      BY <1>18 DEF Verified, Answered, PastFlush
    <3>. QED
      BY <1>1, <1>2, <3>2, <3>3, <3>4 DEF Delivering, PastFlush
  <2>. QED
    BY <2>1, <2>2
<1>19. CASE Fetched(p)
  <2>1. /\ proc'[p].pc = "pushed" /\ proc[p].pc \in PastFlush
        /\ proc'[p].st = proc[p].st /\ proc'[p].goal = proc[p].goal
    BY <1>1, <1>19 DEF Fetched, Answered, PastFlush, Process
  <2>. QED
    BY <1>1, <1>2, <2>1 DEF Delivering, PastFlush
<1>. QED
  BY <1>6, <1>7, <1>8, <1>9, <1>11, <1>12, <1>13, <1>14, <1>15, <1>16, <1>17, <1>18, <1>19 DEF Acts, Step

\* An append covers one more piece; nothing else changes what is covered.
LEMMA ServerCovers ==
  ASSUME SyncInv, Covered, NEW k \in Slots, ServerStep(k) \/ ServerFail(k)
  PROVE  Covered'
<1>1. SUFFICES ASSUME NEW s \in SessionIds, NEW b \in 0 .. synced'[s] - 1
               PROVE  \E n \in DOMAIN chunks'[s] : chunks'[s][n].start <= b /\ b < chunks'[s][n].end
  BY DEF Covered
<1>2. /\ chunks \in [SessionIds -> Seq(Chunk)] /\ synced \in [SessionIds -> Nat]
      /\ synced[s] \in Nat
  BY DEF SyncInv, TypeOK, ServerTypeOK
<1>3. CASE chunks'[s] = chunks[s]
  <2>1. synced'[s] = synced[s]
    BY <1>3, TablesGrow
  <2>. QED
    BY <1>3, <2>1 DEF Covered
<1>4. CASE chunks'[s] # chunks[s]
  <2>1. UploadAppend(k)
    BY <1>4 DEF ServerStep, ServerFail, tables, ConnectFind, ConnectCreate, ConnectRefresh,
       EnsureSnapshot, RebuildRead, RebuildPublish, Respond, UploadLoad, UploadCheck, DisconnectLoad, DisconnectCommit, GetSession
  <2> DEFINE r == req[k]
             piece == [path |-> r.path, start |-> r.start, end |-> r.end]
  <2>2. /\ r.start = synced[r.sid]
        /\ chunks' = [chunks EXCEPT ![r.sid] = Append(@, piece)]
        /\ synced' = [synced EXCEPT ![r.sid] = r.end]
    BY <1>4, <2>1, AppendEffect DEF tables
  <2>3. s = r.sid
    BY <1>2, <1>4, <2>2
  <2>4. piece \in Chunk /\ piece.start = r.start /\ piece.end = r.end /\ r.end \in Nat
    BY <2>1, AppendFacts DEF UploadAppend, Request, Chunk
  <2>5. chunks'[s] = Append(chunks[s], piece) /\ synced'[s] = r.end
    BY <1>2, <2>2, <2>3
  <2>. HIDE DEF piece, r
  <2>6. /\ Len(chunks[s]) \in Nat
        /\ DOMAIN chunks'[s] = 1 .. Len(chunks[s]) + 1
        /\ chunks'[s][Len(chunks[s]) + 1] = piece
        /\ \A n \in DOMAIN chunks[s] : n \in DOMAIN chunks'[s] /\ chunks'[s][n] = chunks[s][n]
    BY <1>2, <2>4, <2>5
  <2>7. CASE b < synced[s]
    <3>1. b \in 0 .. synced[s] - 1
      BY <1>2, <2>7
    <3>2. PICK n \in DOMAIN chunks[s] : chunks[s][n].start <= b /\ b < chunks[s][n].end
      BY <3>1 DEF Covered
    <3>. QED
      BY <2>6, <3>2
  <2>8. CASE b >= synced[s]
    <3>1. synced[s] <= b /\ b < r.end
      BY <1>2, <2>4, <2>5, <2>8
    <3>2. piece.start <= b /\ b < piece.end
      BY <2>2, <2>3, <2>4, <3>1
    <3>3. Len(chunks[s]) + 1 \in DOMAIN chunks'[s]
      BY <2>6
    <3>. QED
      BY <2>6, <3>2, <3>3
  <2>. QED
    BY <1>2, <2>7, <2>8
<1>. QED
  BY <1>3, <1>4

LEMMA ServerDelivers ==
  ASSUME SyncInv, DeliveryInv, NEW k \in Slots, ServerStep(k) \/ ServerFail(k), UNCHANGED clientVars
  PROVE  DeliveryInv'
<1>1. SUFFICES ASSUME NEW p \in Procs PROVE Delivering(proc[p])'
  BY ServerCovers DEF DeliveryInv
<1>2. /\ proc[p] \in Process /\ Delivering(proc[p]) /\ proc' = proc
      /\ synced \in [SessionIds -> Nat]
  BY DEF SyncInv, TypeOK, ServerTypeOK, DeliveryInv, clientVars
<1>3. CASE proc[p].pc \in PastFlush
  <2>1. proc[p].st.sid \in SessionIds /\ proc[p].goal <= synced[proc[p].st.sid] /\ proc[p].goal \in Nat
    BY <1>2, <1>3 DEF Delivering, Process
  <2>2. synced[proc[p].st.sid] <= synced'[proc[p].st.sid]
    BY <2>1, TablesGrow
  <2>3. synced[proc[p].st.sid] \in Nat /\ synced'[proc[p].st.sid] \in Nat
    BY <2>1, ServerStepType, ReplyType DEF SyncInv, TypeOK, ServerTypeOK, ServerFail, tables
  <2>4. proc[p].goal <= synced'[proc[p].st.sid]
    BY <2>1, <2>2, <2>3
  <2>. QED
    BY <1>2, <1>3, <2>4 DEF Delivering, PastFlush
<1>4. CASE proc[p].pc = "uploading"
  <2>1. proc[p].slot \in Slots /\ req[proc[p].slot].end = proc[p].goal /\ proc[p].st.path \in Paths
    BY <1>2, <1>4 DEF Delivering, SyncInv, ProcessesWait, Waiting
  <2>2. req'[proc[p].slot].end = req[proc[p].slot].end
    BY <2>1, ServerFrame DEF SyncInv, TypeOK, Frame
  <2>. QED
    BY <1>2, <1>4, <2>1, <2>2 DEF Delivering, PastFlush
<1>. QED
  BY <1>2, <1>3, <1>4, ElsewhereDelivers

\* A step of a process, of Claude Code or of a slot nobody waits for.
LEMMA ActsTables ==
  ASSUME NEW p \in Procs, Acts(p)
  PROVE  UNCHANGED tables
<1>. USE DEF serverVars, tables
<1>1. CASE \E f \in Payloads : Hook(p, f)
  BY <1>1 DEF Hook, BeginSessionStart, BeginPostToolUse, BeginStop, BeginForcedFlush, Begin
<1>2. CASE BeginPush(p) \/ Unreachable(p) \/ GiveUp(p) \/ Kill(p)
  BY <1>2 DEF BeginPush, Begin, Unreachable, GiveUp, Kill
<1>3. CASE Step(p)
  BY <1>3 DEF Step, Save, Connect, Connected, FlushUnbound, FlushClean, FlushUpload, Uploaded,
     Disconnect, Disconnected, Verify, Verified, Fetch, Fetched, PushDone, Rejected, Send
<1>. QED
  BY <1>1, <1>2, <1>3 DEF Acts

LEMMA NextDelivers ==
  ASSUME SyncInv, DeliveryInv, [Next]_vars
  PROVE  DeliveryInv'
<1>1. ASSUME UNCHANGED tables PROVE Covered'
  BY <1>1 DEF DeliveryInv, Covered, tables
<1>2. ASSUME NEW p \in Procs, Acts(p) PROVE DeliveryInv'
  <2>1. UNCHANGED tables
    BY <1>2, ActsTables
  <2>2. SUFFICES ASSUME NEW q \in Procs, q # p PROVE Delivering(proc[q])'
    BY <1>1, <1>2, <2>1, ActsDelivers DEF DeliveryInv
  <2>3. Delivering(proc[q]) /\ proc'[q] = proc[q] /\ synced' = synced
        /\ (proc[q].pc \in Waiting => req'[proc[q].slot] = req[proc[q].slot])
    BY <1>2, <2>1, <2>2, OthersStay DEF DeliveryInv, tables
  <2>. QED
    BY <2>3 DEF Delivering, Waiting
<1>3. ASSUME NEW k \in Slots, Handler(k) \/ (ServerFail(k) /\ UNCHANGED clientVars) PROVE DeliveryInv'
  BY <1>3, ServerDelivers DEF Handler
<1>4. ASSUME NEW k \in Slots, Discard(k) PROVE DeliveryInv'
  <2>1. UNCHANGED tables /\ proc' = proc /\ req' = [req EXCEPT ![k] = FreeSlot]
    BY <1>4 DEF Discard, clientVars
  <2>2. SUFFICES ASSUME NEW q \in Procs PROVE Delivering(proc[q])'
    BY <1>1, <2>1 DEF DeliveryInv
  <2>3. proc[q].pc \in Waiting => req'[proc[q].slot] = req[proc[q].slot]
    BY <1>4, <2>1 DEF Discard, SyncInv, TypeOK, ServerTypeOK, ProcessesWait
  <2>4. Delivering(proc[q]) /\ synced' = synced
    BY <2>1 DEF DeliveryInv, tables
  <2>. QED
    BY <2>1, <2>3, <2>4 DEF Delivering, Waiting
<1>5. CASE UNCHANGED <<serverVars, proc>>
  BY <1>1, <1>5 DEF serverVars, tables, DeliveryInv, Delivering
<1>6. ASSUME NEW f \in Paths, Write(f) PROVE UNCHANGED <<serverVars, proc>>
  BY <1>6 DEF Write
<1>. QED
  BY <1>2, <1>3, <1>4, <1>5, <1>6 DEF Next, Acts, vars, clientVars

LEMMA InitDelivers ==
  ASSUME Init
  PROVE  DeliveryInv
<1>1. Covered
  BY DEF Init, ServerInit, Covered
<1>2. Idle.pc = "idle"
  BY DEF Idle
<1>. QED
  BY <1>1, <1>2 DEF Init, DeliveryInv, Delivering, PastFlush

\* A session's chunks cover all it has synchronized, and a push past its flush
\* has synchronized what it flushed, with any processes, files and faults.
THEOREM Deliveries == Spec => []DeliveryInv
<1>1. Init => DeliveryInv
  BY InitDelivers
<1>2. SyncInv /\ DeliveryInv /\ [Next]_vars => DeliveryInv'
  BY NextDelivers
<1>. QED
  BY <1>1, <1>2, Invariance, PTL DEF Spec

\* As long as the plugin follows a single transcript file, a push that reports
\* success has every byte it flushed stored in its session, whatever other
\* processes, faults and overlapping requests do: only a change of file under
\* the same offset leaves a gap.
THEOREM PushesUpload ==
  ASSUME NEW f, Paths = {f}
  PROVE  Spec => []PushUploadsTranscript
<1>1. SyncInv /\ DeliveryInv => PushUploadsTranscript
  <2>1. SUFFICES ASSUME SyncInv, DeliveryInv, NEW p \in Procs, proc[p].pc = "pushed",
                        NEW b \in 0 .. proc[p].goal - 1
                 PROVE  Stored(proc[p].st.sid, proc[p].st.path, b)
    BY DEF PushUploadsTranscript
  <2> DEFINE s == proc[p].st.sid
  <2>2. s \in SessionIds /\ proc[p].goal <= synced[s] /\ (proc[p].goal > 0 => proc[p].st.path \in Paths)
    BY <2>1 DEF DeliveryInv, Delivering, PastFlush
  <2>3. proc[p].goal \in Nat /\ synced[s] \in Nat /\ chunks[s] \in Seq(Chunk)
    BY <2>1, <2>2 DEF SyncInv, TypeOK, ServerTypeOK, Process
  <2>4. b \in 0 .. synced[s] - 1 /\ proc[p].st.path = f
    BY <2>1, <2>2, <2>3
  <2>5. PICK n \in DOMAIN chunks[s] : chunks[s][n].start <= b /\ b < chunks[s][n].end
    BY <2>1, <2>2, <2>4 DEF DeliveryInv, Covered
  <2>6. chunks[s][n] \in Chunk
    BY <2>3, <2>5
  <2>7. chunks[s][n].path = f
    BY <2>6 DEF Chunk
  <2>. QED
    BY <2>4, <2>5, <2>7 DEF Stored
<1>. QED
  BY <1>1, Deliveries, Invariance, PTL

-----------------------------------------------------------------------------
(* What a push has synchronized *)

Upload(r) == r.op = "upload" /\ r.phase \in {"new", "check", "append"}

\* A sequence number goes with the offset it was counted at.
Agrees(off, seq, s) == s # NoSession /\ off = synced[s] => seq = Len(chunks[s]) + 1

Fits(st) == Agrees(st.off, st.seq, st.sid)

\* Nothing on the server, or on its way to it, goes beyond goal.
Bounded(goal) ==
  /\ \A s \in SessionIds : synced[s] <= goal
  /\ \A k \in Slots : Upload(req[k]) => req[k].end <= goal

\* What a reply about to be taken says of offset and sequence number.
Tells(r) ==
  /\ Reported(r, "connect") => Agrees(r.off, r.count + 1, r.sid)
  /\ Reported(r, "upload") => Agrees(r.end, r.seq + 1, r.sid)

\* A process agrees with the state on disk about the transcript, and a push
\* past its flush with the server about how far it reaches.
Settled(pr) ==
  /\ Fits(pr.st)
  /\ pr.pc # "idle" /\ disk.path # NoPath => pr.st.path = disk.path
  /\ pr.pc \in {"flush", "uploading"} => disk.path = pr.st.path
  /\ pr.pc \in PastFlush \cup {"uploading"} => Bounded(pr.goal)
  /\ pr.pc \in PastFlush => pr.st.off = pr.goal /\ synced[pr.st.sid] = pr.goal

\* The inductive invariant behind PushSynchronizes.
SettledInv ==
  /\ Fits(disk)
  /\ \A k \in Slots : Tells(req[k])
  /\ \A f \in Paths : Bounded(size[f])
  /\ disk.path = NoPath => Bounded(0)
  /\ \A p \in Procs : Settled(proc[p])

\* An offset grows with every chunk.
LEMMA OffsetMoves ==
  ASSUME SyncInv, NEW k \in Slots, ServerStep(k) \/ ServerFail(k), NEW s \in SessionIds,
         chunks'[s] # chunks[s]
  PROVE  /\ UploadAppend(k) /\ s = req[k].sid /\ Reply(k, "ok")
         /\ synced[s] < synced'[s] /\ synced'[s] = req[k].end
         /\ Len(chunks'[s]) = req[k].seq
<1>1. UploadAppend(k)
  BY DEF ServerStep, ServerFail, tables, ConnectFind, ConnectCreate, ConnectRefresh,
     EnsureSnapshot, RebuildRead, RebuildPublish, Respond, UploadLoad, UploadCheck, DisconnectLoad, DisconnectCommit, GetSession
<1> DEFINE r == req[k]
           piece == [path |-> r.path, start |-> r.start, end |-> r.end]
<1>2. /\ r.start = synced[r.sid] /\ Reply(k, "ok") /\ r.seq = Len(chunks[r.sid]) + 1
      /\ chunks' = [chunks EXCEPT ![r.sid] = Append(@, piece)]
      /\ synced' = [synced EXCEPT ![r.sid] = r.end]
  BY <1>1, AppendEffect DEF tables
<1>3. chunks \in [SessionIds -> Seq(Chunk)] /\ synced \in [SessionIds -> Nat]
  BY DEF SyncInv, TypeOK, ServerTypeOK
<1>4. s = r.sid
  BY <1>2, <1>3
<1>5. r.start < r.end
  BY <1>1, AppendFacts DEF UploadAppend
<1>6. Len(chunks'[s]) = Len(chunks[s]) + 1
  BY TablesGrow
<1>. HIDE DEF r, piece
<1>7. synced'[s] = r.end
  BY <1>2, <1>3, <1>4
<1>. QED
  BY <1>1, <1>2, <1>4, <1>5, <1>6, <1>7 DEF r

\* What agreed with the server, or is behind it, still does.
LEMMA AgreesStays ==
  ASSUME SyncInv, NEW k \in Slots, ServerStep(k) \/ ServerFail(k),
         NEW off \in Nat, NEW seq, NEW s, Agrees(off, seq, s),
         s # NoSession => s \in SessionIds /\ off <= synced[s]
  PROVE  Agrees(off, seq, s)'
<1>1. SUFFICES ASSUME s # NoSession, off = synced'[s] PROVE seq = Len(chunks'[s]) + 1
  BY DEF Agrees
<1>2. s \in SessionIds /\ off <= synced[s] /\ synced[s] \in Nat /\ synced'[s] \in Nat
  BY <1>1, ServerStepType, ReplyType DEF SyncInv, TypeOK, ServerTypeOK, ServerFail, tables
<1>3. CASE chunks'[s] = chunks[s]
  BY <1>1, <1>2, <1>3, TablesGrow DEF Agrees
<1>4. CASE chunks'[s] # chunks[s]
  <2>1. synced[s] < synced'[s]
    BY <1>2, <1>4, OffsetMoves
  <2>. QED
    BY <1>1, <1>2, <2>1
<1>. QED
  BY <1>3, <1>4

\* A handler sends no upload: it only brings one to its end.
LEMMA UploadsOnly ==
  ASSUME SyncInv, NEW k \in Slots, ServerStep(k) \/ ServerFail(k), NEW j \in Slots, Upload(req[j])'
  PROVE  Upload(req[j]) /\ req'[j].end = req[j].end
<1>1. req \in [Slots -> Request] /\ req[k] \in Request /\ Frame(k)
  BY ServerFrame DEF SyncInv, TypeOK, ServerTypeOK
<1>2. CASE j # k
  BY <1>1, <1>2 DEF Frame, Upload
<1>3. CASE j = k
  <2>1. req'[k].op = "upload" /\ req'[k].phase \in {"new", "check", "append"} /\ req[k].op = "upload"
        /\ req'[k].end = req[k].end
    BY <1>1, <1>3 DEF Upload, Frame
  <2>2. ASSUME NEW res, Reply(k, res) PROVE FALSE
    BY <1>1, <2>1, <2>2 DEF Reply, Request
  <2>3. CASE UploadLoad(k) \/ UploadCheck(k)
    BY <1>3, <2>1, <2>3 DEF UploadLoad, UploadCheck, At, Upload
  <2>4. CASE UploadAppend(k) \/ ServerFail(k)
    BY <2>2, <2>4 DEF UploadAppend, ServerFail
  <2>5. CASE RebuildRead(k)
    BY <1>1, <2>1, <2>5 DEF RebuildRead, Request
  <2>6. CASE RebuildPublish(k)
    BY <1>1, <2>1, <2>6 DEF RebuildPublish, Goto, Request
  <2>7. CASE Respond(k)
    BY <1>1, <2>1, <2>7 DEF Respond, Request
  <2>. QED
    BY <2>1, <2>3, <2>4, <2>5, <2>6, <2>7 DEF ServerStep, ConnectFind, ConnectCreate,
       ConnectRefresh, EnsureSnapshot, DisconnectLoad, DisconnectCommit, GetSession, At
<1>. QED
  BY <1>2, <1>3

LEMMA BoundedStays ==
  ASSUME SyncInv, NEW k \in Slots, ServerStep(k) \/ ServerFail(k), NEW goal \in Nat, Bounded(goal)
  PROVE  Bounded(goal)'
<1>1. ASSUME NEW s \in SessionIds PROVE synced'[s] <= goal
  <2>1. CASE chunks'[s] = chunks[s]
    BY <2>1, TablesGrow DEF Bounded
  <2>2. CASE chunks'[s] # chunks[s]
    <3>1. UploadAppend(k) /\ synced'[s] = req[k].end
      BY <2>2, OffsetMoves
    <3>2. Upload(req[k])
      BY <3>1 DEF UploadAppend, At, Upload
    <3>. QED
      BY <3>1, <3>2 DEF Bounded
  <2>. QED
    BY <2>1, <2>2
<1>2. ASSUME NEW j \in Slots, Upload(req[j])' PROVE req'[j].end <= goal
  BY <1>2, UploadsOnly DEF Bounded
<1>. QED
  BY <1>1, <1>2 DEF Bounded

\* A reply tells the truth when it is given, and goes on doing so.
LEMMA OwnTells ==
  ASSUME SyncInv, NEW k \in Slots, ServerStep(k) \/ ServerFail(k)
  PROVE  Tells(req[k])'
<1>1. /\ req \in [Slots -> Request] /\ req[k] \in Request /\ Frame(k) /\ RequestKnows(req[k])
      /\ chunks \in [SessionIds -> Seq(Chunk)]
  BY ServerFrame DEF SyncInv, TypeOK, ServerTypeOK, RequestsKnow
<1>2. ASSUME NEW op \in {"connect", "upload"}, Reported(req[k], op)'
      PROVE  /\ req[k].op = op /\ req'[k].phase = "done" /\ req'[k].res = "ok"
             /\ op = "connect" => Respond(k)
             /\ op = "upload" => UploadAppend(k) /\ Reply(k, "ok")
  <2>1. req[k].op = op /\ req'[k].phase = "done" /\ req'[k].res = "ok"
    BY <1>1, <1>2 DEF Reported, Frame
  <2>2. ASSUME NEW ph \in Phases \ {"done"}, Goto(k, ph) PROVE FALSE
    BY <1>1, <2>1, <2>2 DEF Goto, Request
  <2>3. ASSUME NEW res \in Results \ {"ok"}, Reply(k, res) PROVE FALSE
    BY <1>1, <2>1, <2>3 DEF Reply, Request
  <2>4. CASE ConnectFind(k)
    <3>1. ASSUME NEW s, NEW off, req' = [req EXCEPT ![k] = [@ EXCEPT !.phase = "ensure", !.sid = s, !.off = off]]
          PROVE  FALSE
      BY <1>1, <2>1, <3>1 DEF Request
    <3>2. ASSUME NEW s, req' = [req EXCEPT ![k] = [@ EXCEPT !.phase = "create", !.sid = s]]
          PROVE  FALSE
      BY <1>1, <2>1, <3>2 DEF Request
    <3>. QED
      BY <2>4, <3>1, <3>2 DEF ConnectFind
  <2>5. CASE ConnectCreate(k)
    BY <1>1, <2>1, <2>5 DEF ConnectCreate, Request
  <2>6. CASE RebuildRead(k)
    BY <1>1, <2>1, <2>6 DEF RebuildRead, Request
  <2>7. CASE EnsureSnapshot(k) \/ RebuildPublish(k)
    BY <2>2, <2>7 DEF EnsureSnapshot, RebuildPublish, Phases
  <2>8. CASE UploadLoad(k) \/ UploadCheck(k) \/ ServerFail(k)
    BY <2>2, <2>3, <2>8 DEF UploadLoad, UploadCheck, ServerFail, Phases, Results
  <2>9. CASE UploadAppend(k)
    BY <2>1, <2>3, <2>9 DEF UploadAppend, At, Results
  <2>10. CASE Respond(k)
    BY <1>1, <2>1, <2>10 DEF Respond, RequestKnows
  <2>11. CASE DisconnectLoad(k) \/ DisconnectCommit(k) \/ GetSession(k)
    BY <2>1, <2>11 DEF DisconnectLoad, DisconnectCommit, GetSession, At
  <2>12. CASE ConnectRefresh(k)
    BY <1>1, <2>1, <2>12 DEF ConnectRefresh, Request
  <2>. QED
    BY <2>1, <2>4, <2>5, <2>6, <2>7, <2>8, <2>9, <2>10, <2>11, <2>12 DEF ServerStep
<1>3. ASSUME Reported(req[k], "connect")' PROVE Agrees(req[k].off, req[k].count + 1, req[k].sid)'
  <2>1. Respond(k)
    BY <1>2, <1>3
  <2>2. req'[k].sid = req[k].sid /\ req'[k].count = Len(chunks[req[k].sid]) /\ chunks' = chunks
    BY <1>1, <2>1 DEF Respond, Request, tables
  <2>. QED
    BY <2>2 DEF Agrees
<1>4. ASSUME Reported(req[k], "upload")' PROVE Agrees(req[k].end, req[k].seq + 1, req[k].sid)'
  <2>1. UploadAppend(k) /\ Reply(k, "ok")
    BY <1>2, <1>4
  <2>2. req'[k].sid = req[k].sid /\ req'[k].seq = req[k].seq
    BY <1>1, <2>1 DEF UploadAppend, At, Frame
  <2> DEFINE r == req[k]
             piece == [path |-> r.path, start |-> r.start, end |-> r.end]
  <2>3. /\ r.seq = Len(chunks[r.sid]) + 1 /\ chunks' = [chunks EXCEPT ![r.sid] = Append(@, piece)]
    <3>1. ~Reply(k, "error")
      <4>1. ASSUME NEW res, Reply(k, res) PROVE req'[k].res = res
        BY <1>1, <4>1 DEF Reply, Request
      <4>. QED
        BY <2>1, <4>1
    <3>. QED
      BY <2>1, <3>1, AppendEffect
  <2>4. piece \in Chunk /\ r.sid \in SessionIds /\ chunks[r.sid] \in Seq(Chunk)
    BY <1>1, <2>1, AppendFacts DEF UploadAppend, Request, Chunk
  <2>. HIDE DEF piece, r
  <2>5. chunks'[r.sid] = Append(chunks[r.sid], piece)
    BY <1>1, <2>3, <2>4
  <2>6. Len(chunks'[r.sid]) = r.seq
    BY <2>3, <2>4, <2>5
  <2>. QED
    BY <2>2, <2>6 DEF Agrees, r
<1>. QED
  BY <1>3, <1>4 DEF Tells

LEMMA OthersTell ==
  ASSUME SyncInv, NEW k \in Slots, ServerStep(k) \/ ServerFail(k), NEW j \in Slots, j # k, Tells(req[j])
  PROVE  Tells(req[j])'
<1>1. req'[j] = req[j] /\ req[j] \in Request /\ RequestKnows(req[j])
  BY ServerFrame DEF SyncInv, TypeOK, ServerTypeOK, RequestsKnow, Frame
<1>2. \A r \in Request : Tells(r) /\ RequestKnows(r) => Tells(r)'
  <2>1. SUFFICES ASSUME NEW r \in Request, Tells(r), RequestKnows(r) PROVE Tells(r)'
    OBVIOUS
  <2>2. r.off \in Nat /\ r.end \in Nat
    BY DEF Request
  <2>3. ASSUME Reported(r, "connect") PROVE Agrees(r.off, r.count + 1, r.sid)'
    <3>1. r.sid \in SessionIds /\ r.off <= synced[r.sid] /\ Agrees(r.off, r.count + 1, r.sid)
      BY <2>1, <2>3 DEF Tells, RequestKnows, Reported
    <3>. QED
      BY <2>2, <3>1, AgreesStays
  <2>4. ASSUME Reported(r, "upload") PROVE Agrees(r.end, r.seq + 1, r.sid)'
    <3>1. r.sid \in SessionIds /\ r.end <= synced[r.sid] /\ Agrees(r.end, r.seq + 1, r.sid)
      BY <2>1, <2>4 DEF Tells, RequestKnows, Reported
    <3>. QED
      BY <2>2, <3>1, AgreesStays
  <2>. QED
    BY <2>3, <2>4 DEF Tells, Reported
<1>3. PICK r \in Request : r = req[j]
  BY <1>1
<1>4. Tells(r)'
  BY <1>1, <1>2, <1>3
<1>. QED
  BY <1>1, <1>3, <1>4 DEF Tells, Reported

LEMMA ServerSettles ==
  ASSUME SyncInv, DeliveryInv, SettledInv, NEW k \in Slots, ServerStep(k) \/ ServerFail(k),
         UNCHANGED clientVars
  PROVE  SettledInv'
<1>1. size' = size /\ disk' = disk /\ proc' = proc
  BY DEF clientVars
<1>2. \A st \in PluginState : Fits(st) /\ Lags(st) => Fits(st)'
  BY AgreesStays DEF Fits, Lags, PluginState
<1>3. Fits(disk)'
  <2>1. disk \in PluginState /\ Lags(disk) /\ Fits(disk)
    BY DEF SyncInv, TypeOK, CopiesLag, SettledInv
  <2>. QED
    BY <1>1, <1>2, <2>1 DEF Fits
<1>4. \A j \in Slots : Tells(req[j])'
  BY OwnTells, OthersTell DEF SettledInv
<1>5. \A f \in Paths : Bounded(size[f])'
  <2>1. \A g \in Nat : Bounded(g) => Bounded(g)'
    BY BoundedStays
  <2>2. \A f \in Paths : size[f] \in Nat /\ size'[f] = size[f] /\ Bounded(size[f])
    BY <1>1 DEF SyncInv, TypeOK, SettledInv
  <2>. QED
    BY <2>1, <2>2 DEF Bounded
<1>6. (disk.path = NoPath => Bounded(0))'
  <2>1. ASSUME disk.path = NoPath PROVE Bounded(0)'
    BY <2>1, BoundedStays DEF SettledInv
  <2>. QED
    BY <1>1, <2>1
<1>7. ASSUME NEW p \in Procs PROVE Settled(proc[p])'
  <2>1. /\ proc[p] \in Process /\ proc[p].st \in PluginState /\ Lags(proc[p].st)
        /\ Settled(proc[p]) /\ Delivering(proc[p]) /\ proc[p].goal \in Nat
    BY ProcessFacts DEF SettledInv, DeliveryInv, Process
  <2>2. Fits(proc[p].st)'
    <3>1. PICK st \in PluginState : st = proc[p].st
      BY <2>1
    <3>2. Fits(st)'
      BY <1>2, <2>1, <3>1 DEF Settled
    <3>. QED
      BY <1>1, <3>1, <3>2 DEF Fits
  <2>3. proc[p].pc \in PastFlush \cup {"uploading"} => Bounded(proc[p].goal)'
    <3>1. PICK g \in Nat : g = proc[p].goal
      BY <2>1
    <3>2. proc[p].pc \in PastFlush \cup {"uploading"} => Bounded(g)'
      BY <2>1, <3>1, BoundedStays DEF Settled
    <3>. QED
      BY <1>1, <3>1, <3>2 DEF Bounded
  <2>4. proc[p].pc \in PastFlush => synced'[proc[p].st.sid] = proc[p].goal
    <3>1. SUFFICES ASSUME proc[p].pc \in PastFlush PROVE synced'[proc[p].st.sid] = proc[p].goal
      OBVIOUS
    <3>2. proc[p].st.sid \in SessionIds /\ synced[proc[p].st.sid] = proc[p].goal
      BY <2>1, <3>1 DEF Settled, Delivering
    <3>3. synced[proc[p].st.sid] <= synced'[proc[p].st.sid] /\ synced'[proc[p].st.sid] \in Nat
      BY <3>2, TablesGrow, ServerStepType, ReplyType DEF SyncInv, TypeOK, ServerTypeOK, ServerFail, tables
    <3>4. synced'[proc[p].st.sid] <= proc[p].goal
      BY <1>1, <2>3, <3>1, <3>2 DEF Bounded
    <3>. QED
      BY <2>1, <3>2, <3>3, <3>4
  <2>. QED
    BY <1>1, <2>1, <2>2, <2>3, <2>4 DEF Settled
<1>. QED
  BY <1>3, <1>4, <1>5, <1>6, <1>7 DEF SettledInv

\* A step of the one process that sends no upload and leaves a settled state.
LEMMA QuietSettles ==
  ASSUME SyncInv, SettledInv, NEW q, Procs = {q}, UNCHANGED <<tables, size>>,
         \A k \in Slots : req'[k] = req[k] \/ (req'[k].phase # "done" /\ ~Upload(req[k])'),
         Fits(disk'), disk.path # NoPath => disk'.path = disk.path,
         Fits(proc'[q].st),
         proc'[q].pc # "idle" /\ disk'.path # NoPath => proc'[q].st.path = disk'.path,
         proc'[q].pc \in {"flush", "uploading"} => disk'.path = proc'[q].st.path,
         proc'[q].pc \in PastFlush \cup {"uploading"} => Bounded(proc'[q].goal),
         proc'[q].pc \in PastFlush => proc'[q].st.off = proc'[q].goal /\ synced[proc'[q].st.sid] = proc'[q].goal
  PROVE  SettledInv'
<1>1. synced' = synced /\ chunks' = chunks /\ size' = size
  BY DEF tables
<1>2. \A g : Bounded(g) => Bounded(g)'
  <2>1. SUFFICES ASSUME NEW g, Bounded(g) PROVE Bounded(g)'
    OBVIOUS
  <2>2. ASSUME NEW k \in Slots, Upload(req[k])' PROVE req'[k].end <= g
    <3>1. req'[k] = req[k]
      BY <2>2
    <3>2. Upload(req[k])
      BY <2>2, <3>1 DEF Upload
    <3>. QED
      BY <2>1, <3>1, <3>2 DEF Bounded
  <2>. QED
    BY <1>1, <2>1, <2>2 DEF Bounded
<1>3. Fits(disk)'
  BY <1>1 DEF Fits, Agrees
<1>4. ASSUME NEW k \in Slots PROVE Tells(req[k])'
  <2>1. CASE req'[k] = req[k]
    BY <1>1, <2>1 DEF SettledInv, Tells, Reported, Agrees
  <2>2. CASE req'[k].phase # "done"
    BY <2>2 DEF Tells, Reported
  <2>. QED
    BY <2>1, <2>2
<1>5. \A f \in Paths : Bounded(size[f])'
  <2>1. SUFFICES ASSUME NEW f \in Paths PROVE Bounded(size[f])'
    OBVIOUS
  <2>2. Bounded(size[f])
    BY DEF SettledInv
  <2>3. PICK g : g = size[f]
    OBVIOUS
  <2>4. Bounded(g)'
    BY <1>2, <2>2, <2>3
  <2>. QED
    BY <1>1, <2>3, <2>4 DEF Bounded
<1>6. (disk.path = NoPath => Bounded(0))'
  BY <1>2 DEF SettledInv
<1>7. Settled(proc[q])'
  <2>1. Fits(proc[q].st)'
    BY <1>1 DEF Fits, Agrees
  <2>2. (proc[q].pc \in PastFlush \cup {"uploading"} => Bounded(proc[q].goal))'
    <3>1. SUFFICES ASSUME proc'[q].pc \in PastFlush \cup {"uploading"} PROVE Bounded(proc[q].goal)'
      OBVIOUS
    <3>2. PICK g : g = proc'[q].goal
      OBVIOUS
    <3>3. Bounded(g)'
      BY <1>2, <3>1, <3>2
    <3>. QED
      BY <3>2, <3>3 DEF Bounded
  <2>. QED
    BY <1>1, <2>1, <2>2 DEF Settled
<1>. QED
  BY <1>3, <1>4, <1>5, <1>6, <1>7 DEF SettledInv

\* The process's slot is freed, or a request that is no upload is sent.
LEMMA TakesQuietly ==
  ASSUME SyncInv, NEW k, req' = [req EXCEPT ![k] = FreeSlot]
  PROVE  \A j \in Slots : req'[j] = req[j] \/ (req'[j].phase # "done" /\ ~Upload(req[j])')
<1>1. req \in [Slots -> Request] /\ FreeSlot.phase = "free"
  BY DEF SyncInv, TypeOK, ServerTypeOK, FreeSlot
<1>. QED
  BY <1>1 DEF Upload

LEMMA SendsQuietly ==
  ASSUME SyncInv, NEW k \in Slots, NEW op \in Ops \ {"upload"}, NEW s,
         req' = [req EXCEPT ![k] = NewRequest(op, s)]
  PROVE  \A j \in Slots : req'[j] = req[j] \/ (req'[j].phase # "done" /\ ~Upload(req[j])')
<1>1. req \in [Slots -> Request] /\ NewRequest(op, s).phase = "new" /\ NewRequest(op, s).op = op
  BY DEF SyncInv, TypeOK, ServerTypeOK, NewRequest, FreeSlot
<1>. HIDE DEF NewRequest
<1>. QED
  BY <1>1 DEF Upload

\* A process that ends, leaving a state that fits and keeps the transcript.
LEMMA FinishSettles ==
  ASSUME SyncInv, SettledInv, NEW q, Procs = {q}, Finish(q), UNCHANGED <<tables, size>>,
         \/ UNCHANGED req
         \/ TakeAnswer(q),
         Fits(disk'), disk.path # NoPath => disk'.path = disk.path
  PROVE  SettledInv'
<1>1. \A k \in Slots : req'[k] = req[k] \/ (req'[k].phase # "done" /\ ~Upload(req[k])')
  BY TakesQuietly DEF TakeAnswer
<1>2. proc'[q].pc = "idle" /\ proc'[q].st = FreshState
  BY DEF Finish, Idle, SyncInv, TypeOK
<1>3. Fits(FreshState)
  BY DEF Fits, Agrees, FreshState
<1>. QED
  BY <1>1, <1>2, <1>3, QuietSettles DEF PastFlush

LEMMA AfterFlushSettles ==
  ASSUME SyncInv, SettledInv, NEW q, Procs = {q}, NEW st \in PluginState, NEW goal \in Nat,
         AfterFlush(q, st, goal), UNCHANGED <<tables, size>>,
         \/ UNCHANGED req
         \/ TakeAnswer(q),
         disk' = st, Fits(st), disk.path # NoPath => st.path = disk.path,
         Bounded(goal), st.off = goal, synced[st.sid] = goal
  PROVE  SettledInv'
<1>1. \A k \in Slots : req'[k] = req[k] \/ (req'[k].phase # "done" /\ ~Upload(req[k])')
  BY TakesQuietly DEF TakeAnswer
<1>2. CASE Finish(q)
  BY <1>2, FinishSettles
<1>3. CASE ~Finish(q)
  <2>1. PICK pc \in {"disconnect", "verify"} :
          proc' = [proc EXCEPT ![q] = [@ EXCEPT !.pc = pc, !.st = st, !.slot = NoSlot, !.goal = goal]]
    BY <1>3 DEF AfterFlush
  <2>2. proc[q] \in Process /\ proc \in [Procs -> Process] /\ q \in Procs
    BY DEF SyncInv, TypeOK
  <2>3. proc'[q].pc = pc /\ proc'[q].st = st /\ proc'[q].goal = goal
    BY <2>1, <2>2 DEF Process
  <2>. QED
    BY <1>1, <2>1, <2>3, QuietSettles
<1>. QED
  BY <1>2, <1>3

LEMMA BeginSettles ==
  ASSUME SyncInv, SettledInv, NEW q, Procs = {q}, NEW ev, NEW g,
         NEW pc \in {"save", "connect", "flush"}, NEW st \in PluginState,
         Begin(q, ev, g, pc, st),
         st.sid = disk.sid, st.off = disk.off, st.seq = disk.seq,
         disk.path # NoPath => st.path = disk.path, pc = "flush" => st.path = disk.path
  PROVE  SettledInv'
<1>1. proc \in [Procs -> Process] /\ q \in Procs
  BY DEF SyncInv, TypeOK
<1>2. proc' = [proc EXCEPT ![q] = [Idle EXCEPT !.pc = pc, !.ev = ev, !.path = g, !.st = st]]
      /\ UNCHANGED <<tables, req, size, disk>>
  BY DEF Begin, serverVars, tables
<1>3. proc'[q].pc = pc /\ proc'[q].st = st
  BY <1>1, <1>2 DEF Idle
<1>4. Fits(disk) /\ Fits(st)
  BY DEF SettledInv, Fits
<1>. QED
  BY <1>2, <1>3, <1>4, QuietSettles DEF PastFlush

LEMMA EventsSettle ==
  ASSUME SyncInv, SettledInv, NEW q, Procs = {q}, NEW f, Paths = {f},
         (\E g \in Payloads : Hook(q, g)) \/ BeginPush(q)
  PROVE  SettledInv'
<1>1. disk \in PluginState
  BY DEF SyncInv, TypeOK
<1>2. /\ Dirty(disk) \in PluginState /\ Dirty(disk).sid = disk.sid /\ Dirty(disk).off = disk.off
      /\ Dirty(disk).seq = disk.seq /\ Dirty(disk).path = disk.path
  BY <1>1 DEF Dirty, PluginState
<1>3. CASE BeginPush(q)
  BY <1>1, <1>2, <1>3, BeginSettles DEF BeginPush
<1>4. ASSUME NEW g \in Payloads, Hook(q, g) PROVE SettledInv'
  <2> DEFINE w == WithPath(disk, g)
  <2>1. /\ w \in PluginState /\ w.sid = disk.sid /\ w.off = disk.off /\ w.seq = disk.seq
        /\ disk.path # NoPath => w.path = disk.path
        /\ g = NoPath => w = disk
    <3>1. g \in {f, NoPath} /\ disk.path \in {f, NoPath} /\ f \in Paths
      BY <1>1 DEF PluginState
    <3>. QED
      BY <1>1, <3>1 DEF WithPath, PluginState
  <2>. HIDE DEF w
  <2>2. /\ Dirty(w) \in PluginState /\ Dirty(w).sid = disk.sid /\ Dirty(w).off = disk.off
        /\ Dirty(w).seq = disk.seq /\ Dirty(w).path = w.path
    BY <2>1 DEF Dirty, PluginState
  <2>3. CASE BeginSessionStart(q, g)
    BY <1>1, <2>3, BeginSettles DEF BeginSessionStart
  <2>4. CASE BeginPostToolUse(q, g)
    BY <2>1, <2>2, <2>4, BeginSettles DEF BeginPostToolUse, w
  <2>5. CASE BeginStop(q, g)
    <3>1. CASE g = NoPath
      BY <1>1, <2>1, <2>5, <3>1, BeginSettles DEF BeginStop, w
    <3>2. CASE g # NoPath
      BY <2>1, <2>5, <3>2, BeginSettles DEF BeginStop, w
    <3>. QED
      BY <3>1, <3>2
  <2>6. ASSUME NEW ev \in {"compact", "end"}, BeginForcedFlush(q, ev, g) PROVE SettledInv'
    <3>1. CASE g = NoPath
      BY <1>1, <2>6, <3>1, BeginSettles DEF BeginForcedFlush
    <3>2. CASE g # NoPath
      BY <2>1, <2>2, <2>6, <3>2, BeginSettles DEF BeginForcedFlush, w
    <3>. QED
      BY <3>1, <3>2
  <2>. QED
    BY <1>4, <2>3, <2>4, <2>5, <2>6 DEF Hook
<1>. QED
  BY <1>3, <1>4

LEMMA SendSettles ==
  ASSUME SyncInv, SettledInv, NEW q, Procs = {q}, NEW op \in Ops \ {"upload"}, NEW s,
         NEW pc \in {"connecting", "disconnecting", "verifying", "fetching"},
         Send(q, NewRequest(op, s), pc), proc[q].pc # "idle",
         pc \in {"verifying", "fetching"} => proc[q].pc \in PastFlush
  PROVE  SettledInv'
<1>1. proc[q] \in Process /\ proc \in [Procs -> Process] /\ q \in Procs
  BY DEF SyncInv, TypeOK
<1>2. PICK k \in Slots : /\ req' = [req EXCEPT ![k] = NewRequest(op, s)]
                         /\ proc' = [proc EXCEPT ![q] = [@ EXCEPT !.pc = pc, !.slot = k]]
                         /\ UNCHANGED <<tables, size, disk>>
  BY DEF Send
<1>3. proc'[q].pc = pc /\ proc'[q].st = proc[q].st /\ proc'[q].goal = proc[q].goal
  BY <1>1, <1>2 DEF Process
<1>4. \A j \in Slots : req'[j] = req[j] \/ (req'[j].phase # "done" /\ ~Upload(req[j])')
  BY <1>2, SendsQuietly
<1>5. Fits(disk) /\ Settled(proc[q])
  BY <1>1 DEF SettledInv
<1>. QED
  BY <1>2, <1>3, <1>4, <1>5, QuietSettles DEF Settled, PastFlush

LEMMA SaveSettles ==
  ASSUME SyncInv, SettledInv, NEW q, Procs = {q}, Save(q)
  PROVE  SettledInv'
<1>1. /\ proc[q] \in Process /\ proc \in [Procs -> Process] /\ q \in Procs
      /\ Settled(proc[q]) /\ proc[q].pc = "save"
  BY DEF SyncInv, TypeOK, SettledInv, Save
<1>2. /\ UNCHANGED <<tables, req, size>> /\ disk' = proc[q].st
      /\ Fits(disk') /\ (disk.path # NoPath => disk'.path = disk.path)
  BY <1>1 DEF Save, serverVars, tables, Settled
<1>3. CASE Finish(q)
  BY <1>2, <1>3, FinishSettles
<1>4. CASE proc' = [proc EXCEPT ![q].pc = "flush"]
  <2>1. proc'[q].pc = "flush" /\ proc'[q].st = proc[q].st
    BY <1>1, <1>4 DEF Process
  <2>. QED
    BY <1>2, <2>1, QuietSettles DEF PastFlush
<1>. QED
  BY <1>3, <1>4 DEF Save

LEMMA ConnectedSettles ==
  ASSUME SyncInv, SettledInv, NEW q, Procs = {q}, NEW f, Paths = {f}, Connected(q)
  PROVE  SettledInv'
<1> DEFINE a  == Answer(q)
           s0 == [proc[q].st EXCEPT !.sid = a.sid, !.off = a.off, !.seq = a.count + 1,
                                    !.dirty = FALSE]
           st == WithPath(s0, proc[q].path)
<1>1. /\ proc[q] \in Process /\ proc \in [Procs -> Process] /\ q \in Procs
      /\ Settled(proc[q]) /\ proc[q].pc = "connecting"
  BY DEF SyncInv, TypeOK, SettledInv, Connected, Answered
<1>2. a \in Request /\ a.op = "connect" /\ a.phase = "done" /\ a.res = "ok" /\ Tells(a)
  <2>1. a \in Request /\ a.op = "connect" /\ a.phase = "done" /\ a.res = "ok"
    BY <1>1, AnswerFacts DEF Connected, Waiting, OpOf
  <2>2. proc[q].slot \in Slots
    BY <1>1 DEF SyncInv, ProcessesWait, Waiting
  <2>. QED
    BY <2>1, <2>2 DEF SettledInv, Answer
<1>3. Agrees(a.off, a.count + 1, a.sid)
  BY <1>2 DEF Tells, Reported
<1>4. /\ st \in PluginState /\ st.sid = a.sid /\ st.off = a.off /\ st.seq = a.count + 1
      /\ disk.path # NoPath => st.path = disk.path
  <2>1. a.sid \in Nat /\ a.off \in Nat /\ a.count + 1 \in Nat
    BY <1>2 DEF Request
  <2>2. proc[q].st \in PluginState /\ proc[q].path \in {f, NoPath} /\ f \in Paths
    BY <1>1 DEF Process
  <2>. HIDE DEF a
  <2>3. s0 \in PluginState /\ s0.sid = a.sid /\ s0.off = a.off /\ s0.seq = a.count + 1
        /\ s0.path = proc[q].st.path
    BY <2>1, <2>2 DEF PluginState
  <2>. HIDE DEF s0
  <2>4. disk \in PluginState /\ (disk.path # NoPath => s0.path = disk.path)
    BY <1>1, <2>3 DEF Settled, SyncInv, TypeOK
  <2>5. disk.path \in {f, NoPath} /\ s0.path \in {f, NoPath}
    BY <2>3, <2>4 DEF PluginState
  <2>. QED
    BY <2>2, <2>3, <2>4, <2>5 DEF WithPath, PluginState
<1>5. disk' = st /\ TakeAnswer(q) /\ UNCHANGED <<tables, size>>
  BY DEF Connected
<1>6. Fits(st)
  <2>. HIDE DEF st
  <2>. QED
    BY <1>3, <1>4 DEF Fits
<1>7. CASE Finish(q)
  <2>. HIDE DEF st
  <2>. QED
    BY <1>4, <1>5, <1>6, <1>7, FinishSettles
<1>8. CASE proc' = [proc EXCEPT ![q] = [@ EXCEPT !.pc = "flush", !.st = Dirty(st), !.slot = NoSlot]]
  <2>. HIDE DEF st, a
  <2>1. /\ Dirty(st) \in PluginState /\ Dirty(st).sid = st.sid /\ Dirty(st).off = st.off
        /\ Dirty(st).seq = st.seq /\ Dirty(st).path = st.path
    BY <1>4 DEF Dirty, PluginState
  <2>2. Fits(Dirty(st))
    BY <1>6, <2>1 DEF Fits
  <2>3. proc'[q].pc = "flush" /\ proc'[q].st = Dirty(st)
    BY <1>1, <1>8 DEF Process
  <2>4. \A k \in Slots : req'[k] = req[k] \/ (req'[k].phase # "done" /\ ~Upload(req[k])')
    BY <1>5, TakesQuietly DEF TakeAnswer
  <2>. QED
    BY <1>4, <1>5, <1>6, <2>1, <2>2, <2>3, <2>4, QuietSettles DEF PastFlush
<1>. QED
  BY <1>7, <1>8 DEF Connected

\* What flush_transcript reads is all there is: nothing on the server, or on
\* its way, is beyond it.
LEMMA LengthBounds ==
  ASSUME SyncInv, SettledInv, NEW f, Paths = {f}, NEW p \in Procs, proc[p].pc = "flush"
  PROVE  Bounded(Length(proc[p].st)) /\ Length(proc[p].st) \in Nat
<1>1. Settled(proc[p]) /\ proc[p].st \in PluginState
  BY ProcessFacts DEF SettledInv
<1>2. Length(proc[p].st) \in Nat
  BY <1>1, LengthType
<1>3. CASE proc[p].st.path = NoPath
  <2>1. disk.path = NoPath
    BY <1>1, <1>3 DEF Settled
  <2>. QED
    BY <1>2, <1>3, <2>1 DEF SettledInv, Length
<1>4. CASE proc[p].st.path # NoPath
  <2>1. proc[p].st.path \in Paths
    BY <1>1, <1>4 DEF PluginState
  <2>. QED
    BY <1>2, <1>4, <2>1 DEF SettledInv, Length
<1>. QED
  BY <1>3, <1>4

LEMMA FlushUnboundSettles ==
  ASSUME SyncInv, SettledInv, NEW q, Procs = {q}, FlushUnbound(q)
  PROVE  SettledInv'
<1>1. Bound(proc[q]) /\ q \in Procs
  BY ProcessFacts
<1>2. proc[q].ev # "push" /\ proc[q].st.sid = NoSession
  BY <1>1 DEF FlushUnbound, Bound
<1>3. Finish(q)
  BY <1>2 DEF FlushUnbound, AfterFlush
<1>4. Fits(disk) /\ UNCHANGED <<tables, req, size, disk>>
  BY DEF SettledInv, FlushUnbound, serverVars, tables
<1>. QED
  BY <1>3, <1>4, FinishSettles

LEMMA FlushCleanSettles ==
  ASSUME SyncInv, SettledInv, NEW q, Procs = {q}, NEW f, Paths = {f}, FlushClean(q)
  PROVE  SettledInv'
<1> DEFINE st == [proc[q].st EXCEPT !.dirty = FALSE]
<1>1. /\ q \in Procs /\ proc[q].st \in PluginState /\ Lags(proc[q].st) /\ Settled(proc[q])
      /\ proc[q].pc = "flush" /\ proc[q].st.sid # NoSession
  BY ProcessFacts DEF SettledInv, FlushClean
<1>2. /\ st \in PluginState /\ st.sid = proc[q].st.sid /\ st.off = proc[q].st.off
      /\ st.seq = proc[q].st.seq /\ st.path = proc[q].st.path
  BY <1>1 DEF PluginState
<1>3. disk' = st /\ AfterFlush(q, st, Length(st)) /\ UNCHANGED <<tables, req, size>>
      /\ Length(proc[q].st) <= proc[q].st.off
  BY DEF FlushClean, NothingToSend, serverVars, tables
<1>. HIDE DEF st
<1>4. Length(st) = Length(proc[q].st)
  BY <1>2 DEF Length
<1>5. Bounded(Length(st)) /\ Length(st) \in Nat
  BY <1>1, <1>4, LengthBounds
<1>6. /\ st.sid \in SessionIds /\ st.off <= synced[st.sid] /\ synced[st.sid] <= Length(st)
      /\ synced[st.sid] \in Nat /\ st.off \in Nat
  BY <1>1, <1>2, <1>5 DEF Lags, Bounded, SyncInv, TypeOK, ServerTypeOK, PluginState
<1>7. st.off = Length(st) /\ synced[st.sid] = Length(st)
  <2>1. Length(st) <= st.off
    BY <1>2, <1>3, <1>4
  <2>. QED
    BY <1>5, <1>6, <2>1
<1>8. Fits(st) /\ (disk.path # NoPath => st.path = disk.path)
  BY <1>1, <1>2 DEF Settled, Fits
<1>. QED
  BY <1>2, <1>3, <1>5, <1>7, <1>8, AfterFlushSettles

LEMMA FlushUploadSettles ==
  ASSUME SyncInv, SettledInv, NEW q, Procs = {q}, NEW f, Paths = {f}, FlushUpload(q)
  PROVE  SettledInv'
<1>1. /\ q \in Procs /\ proc[q] \in Process /\ proc \in [Procs -> Process] /\ Settled(proc[q])
      /\ proc[q].pc = "flush" /\ proc[q].st \in PluginState
      /\ Bounded(Length(proc[q].st)) /\ Length(proc[q].st) \in Nat
  BY ProcessFacts, LengthBounds DEF SettledInv, FlushUpload, SyncInv, TypeOK
<1>2. PICK st \in PluginState : st = proc[q].st
  BY <1>1
<1>3. PICK goal \in Nat : goal = Length(st)
  BY <1>1, <1>2
<1>4. PICK r : r = UploadRequest(st.sid, st.seq, st.path, st.off, goal)
  OBVIOUS
<1>5. PICK k \in Slots :
        /\ req' = [req EXCEPT ![k] = r]
        /\ proc' = [proc EXCEPT ![q] = [@ EXCEPT !.pc = "uploading", !.slot = k, !.goal = goal]]
        /\ UNCHANGED <<tables, size, disk>>
  BY <1>2, <1>3, <1>4 DEF FlushUpload
<1>6. proc'[q].pc = "uploading" /\ proc'[q].st = st /\ proc'[q].goal = goal
  BY <1>1, <1>2, <1>5 DEF Process
<1>7. r.phase = "new" /\ r.end = goal
  BY <1>4 DEF UploadRequest, NewRequest, FreeSlot
<1>8. st.path = f /\ goal = size[f]
  <2>1. goal > st.off
    BY <1>2, <1>3 DEF FlushUpload, NothingToSend, PluginState
  <2>2. st.path \in Paths
    BY <1>3, <2>1, LengthType
  <2>. QED
    BY <1>3, <2>2 DEF Length, PluginState
<1>9. \A j \in Slots : req'[j] = req[j] \/ req'[j] = r
  BY <1>5 DEF SyncInv, TypeOK, ServerTypeOK
<1>10. /\ synced' = synced /\ chunks' = chunks /\ size' = size /\ disk' = disk
       /\ disk.path = f /\ f \in Paths /\ f # NoPath
  BY <1>1, <1>2, <1>5, <1>8 DEF Settled, tables
<1>11. Bounded(goal)'
  <2>1. ASSUME NEW j \in Slots, Upload(req[j])' PROVE req'[j].end <= goal
    <3>1. CASE req'[j] = r
      BY <1>7, <3>1
    <3>2. CASE req'[j] = req[j]
      BY <1>1, <1>2, <1>3, <2>1, <3>2 DEF Bounded, Upload
    <3>. QED
      BY <1>9, <3>1, <3>2
  <2>2. \A s \in SessionIds : synced'[s] <= goal
    BY <1>1, <1>2, <1>3, <1>10 DEF Bounded
  <2>. QED
    BY <2>1, <2>2 DEF Bounded
<1>12. Fits(disk)' /\ (disk.path = NoPath => Bounded(0))'
  BY <1>10 DEF SettledInv, Fits, Agrees
<1>13. ASSUME NEW j \in Slots PROVE Tells(req[j])'
  <2>1. CASE req'[j] = r
    BY <1>7, <2>1 DEF Tells, Reported
  <2>2. CASE req'[j] = req[j]
    BY <1>10, <2>2 DEF SettledInv, Tells, Reported, Agrees
  <2>. QED
    BY <1>9, <2>1, <2>2
<1>14. ASSUME NEW g \in Paths PROVE Bounded(size[g])'
  <2>1. size'[g] = goal
    BY <1>8, <1>10, <1>14
  <2>. QED
    BY <1>11, <2>1 DEF Bounded
<1>15. Settled(proc[q])'
  <2>1. Fits(proc[q].st)'
    BY <1>1, <1>2, <1>6, <1>10 DEF Settled, Fits, Agrees
  <2>2. Bounded(proc[q].goal)'
    BY <1>6, <1>11 DEF Bounded
  <2>. QED
    BY <1>6, <1>8, <1>10, <2>1, <2>2 DEF Settled, PastFlush
<1>. QED
  BY <1>12, <1>13, <1>14, <1>15 DEF SettledInv

\* The bound an upload was sent with is reached when it is answered.
LEMMA UploadedSettles ==
  ASSUME SyncInv, DeliveryInv, SettledInv, NEW q, Procs = {q}, Uploaded(q)
  PROVE  SettledInv'
<1> DEFINE a  == Answer(q)
           st == [proc[q].st EXCEPT !.off = a.end, !.seq = @ + 1, !.dirty = FALSE]
<1>1. /\ q \in Procs /\ proc[q] \in Process /\ proc[q].st \in PluginState /\ Settled(proc[q])
      /\ Delivering(proc[q]) /\ proc[q].pc = "uploading" /\ proc[q].goal \in Nat
  BY ProcessFacts DEF SettledInv, DeliveryInv, Uploaded, Answered, Process
<1>2. /\ a \in Request /\ RequestKnows(a) /\ a.op = "upload" /\ a.phase = "done" /\ a.res = "ok"
      /\ a.sid = proc[q].st.sid /\ a.seq = proc[q].st.seq /\ a.end = proc[q].goal
  BY <1>1, AnswerFacts DEF Uploaded, Waiting, OpOf, Answer, Delivering
<1>3. Tells(a)
  BY <1>1 DEF SettledInv, Answer, SyncInv, ProcessesWait, Waiting
<1>4. /\ a.sid \in SessionIds /\ a.end <= synced[a.sid] /\ synced[a.sid] \in Nat
      /\ synced[a.sid] <= proc[q].goal
  BY <1>1, <1>2 DEF RequestKnows, Settled, Bounded, SyncInv, TypeOK, ServerTypeOK
<1>5. synced[a.sid] = proc[q].goal
  BY <1>1, <1>2, <1>4
<1>6. /\ st \in PluginState /\ st.sid = a.sid /\ st.off = a.end /\ st.seq = a.seq + 1
      /\ st.path = proc[q].st.path
  <2>1. a.end \in Nat /\ proc[q].st.seq + 1 \in Nat
    BY <1>1, <1>2 DEF Request, PluginState
  <2>. HIDE DEF a
  <2>. QED
    BY <1>1, <1>2, <2>1 DEF PluginState
<1>7. disk' = st /\ AfterFlush(q, st, proc[q].goal) /\ TakeAnswer(q) /\ UNCHANGED <<tables, size>>
  BY DEF Uploaded
<1>. HIDE DEF st, a
<1>8. Fits(st)
  BY <1>2, <1>3, <1>6 DEF Fits, Tells, Reported
<1>9. /\ disk.path # NoPath => st.path = disk.path
      /\ Bounded(proc[q].goal) /\ st.off = proc[q].goal /\ synced[st.sid] = proc[q].goal
  BY <1>1, <1>2, <1>5, <1>6 DEF Settled
<1>. QED
  BY <1>1, <1>6, <1>7, <1>8, <1>9, AfterFlushSettles

LEMMA ClearBindingSettles ==
  ASSUME SyncInv, SettledInv, NEW q, Procs = {q}, Disconnected(q) \/ Unreachable(q)
  PROVE  SettledInv'
<1> DEFINE st == [proc[q].st EXCEPT !.sid = NoSession, !.dirty = FALSE]
<1>1. /\ q \in Procs /\ proc[q].st \in PluginState /\ Settled(proc[q])
      /\ proc[q].pc = "disconnecting"
  BY ProcessFacts DEF SettledInv, Disconnected, Unreachable, Answered
<1>2. st.sid = NoSession /\ st.path = proc[q].st.path
  BY <1>1 DEF PluginState
<1>3. /\ disk' = st /\ Finish(q) /\ UNCHANGED <<tables, size>>
      /\ UNCHANGED req \/ TakeAnswer(q)
  BY DEF Disconnected, Unreachable, ClearBinding, serverVars, tables
<1>. HIDE DEF st
<1>4. Fits(st) /\ (disk.path # NoPath => st.path = disk.path)
  BY <1>1, <1>2 DEF Fits, Agrees, Settled
<1>. QED
  BY <1>3, <1>4, FinishSettles

\* run_push takes over an offset that is its own already.
LEMMA VerifiedSettles ==
  ASSUME SyncInv, DeliveryInv, SettledInv, NEW q, Procs = {q}, Verified(q)
  PROVE  SettledInv'
<1> DEFINE a  == Answer(q)
           st == [proc[q].st EXCEPT !.off = a.off]
<1>1. /\ q \in Procs /\ proc[q] \in Process /\ proc \in [Procs -> Process]
      /\ proc[q].st \in PluginState /\ Settled(proc[q])
      /\ Delivering(proc[q]) /\ proc[q].pc = "verifying" /\ proc[q].goal \in Nat
  BY ProcessFacts DEF SettledInv, DeliveryInv, Verified, Answered, SyncInv, TypeOK, Process
<1>2. /\ a \in Request /\ RequestKnows(a) /\ a.op = "get" /\ a.phase = "done" /\ a.res = "ok"
      /\ a.sid = proc[q].st.sid
  BY <1>1, AnswerFacts DEF Verified, Waiting, OpOf
<1>3. TakeAnswer(q) /\ UNCHANGED <<tables, size>>
  BY DEF Verified
<1>4. CASE a.off < proc[q].st.off
  BY <1>3, <1>4, FinishSettles DEF Verified, SettledInv
<1>5. CASE ~(a.off < proc[q].st.off)
  <2>1. a.off <= synced[a.sid] /\ synced[a.sid] = proc[q].goal /\ proc[q].st.off = proc[q].goal
        /\ a.off \in Nat
    BY <1>1, <1>2 DEF RequestKnows, Settled, PastFlush, Request
  <2>2. a.off = proc[q].st.off
    BY <1>1, <1>5, <2>1
  <2>3. /\ st.sid = proc[q].st.sid /\ st.off = proc[q].st.off /\ st.seq = proc[q].st.seq
        /\ st.path = proc[q].st.path
    <3>. HIDE DEF a
    <3>. QED
      BY <1>1, <2>2 DEF PluginState
  <2>4. disk' = st /\ proc' = [proc EXCEPT ![q] = [@ EXCEPT !.pc = "fetch", !.st = st, !.slot = NoSlot]]
    BY <1>5 DEF Verified
  <2>. HIDE DEF st, a
  <2>5. proc'[q].pc = "fetch" /\ proc'[q].st = st /\ proc'[q].goal = proc[q].goal
    BY <1>1, <2>4 DEF Process
  <2>6. \A k \in Slots : req'[k] = req[k] \/ (req'[k].phase # "done" /\ ~Upload(req[k])')
    BY <1>3, TakesQuietly DEF TakeAnswer
  <2>7. Fits(st)
    BY <1>1, <2>3 DEF Settled, Fits
  <2>8. /\ disk.path # NoPath => st.path = disk.path
        /\ Bounded(proc[q].goal) /\ st.off = proc[q].goal /\ synced[st.sid] = proc[q].goal
    BY <1>1, <2>3 DEF Settled, PastFlush
  <2>. QED
    BY <1>3, <2>4, <2>5, <2>6, <2>7, <2>8, QuietSettles
<1>. QED
  BY <1>4, <1>5

LEMMA FetchedSettles ==
  ASSUME SyncInv, SettledInv, NEW q, Procs = {q}, Fetched(q)
  PROVE  SettledInv'
<1>1. /\ proc[q] \in Process /\ proc \in [Procs -> Process] /\ q \in Procs
      /\ Settled(proc[q]) /\ Fits(disk) /\ proc[q].pc = "fetching"
  BY DEF SyncInv, TypeOK, SettledInv, Fetched, Answered
<1>2. proc'[q].pc = "pushed" /\ proc'[q].st = proc[q].st /\ proc'[q].goal = proc[q].goal
      /\ disk' = disk /\ TakeAnswer(q) /\ UNCHANGED <<tables, size>>
  BY <1>1 DEF Fetched, Process
<1>3. \A k \in Slots : req'[k] = req[k] \/ (req'[k].phase # "done" /\ ~Upload(req[k])')
  BY <1>2, TakesQuietly DEF TakeAnswer
<1>. QED
  BY <1>1, <1>2, <1>3, QuietSettles DEF Settled, PastFlush

LEMMA ActsSettles ==
  ASSUME SyncInv, DeliveryInv, SettledInv, NEW q, Procs = {q}, NEW f, Paths = {f}, Acts(q)
  PROVE  SettledInv'
<1>1. Fits(disk)
  BY DEF SettledInv
<1>2. CASE GiveUp(q) \/ Kill(q) \/ PushDone(q)
  BY <1>1, <1>2, FinishSettles DEF GiveUp, Kill, PushDone, serverVars, tables
<1>3. CASE Rejected(q)
  BY <1>1, <1>3, FinishSettles DEF Rejected
<1>4. CASE Connect(q) \/ Disconnect(q) \/ Verify(q) \/ Fetch(q)
  BY <1>4, SendSettles DEF Connect, Disconnect, Verify, Fetch, PastFlush, Ops
<1>. QED
  BY <1>2, <1>3, <1>4, EventsSettle, SaveSettles, ConnectedSettles, FlushUnboundSettles,
     FlushCleanSettles, FlushUploadSettles, UploadedSettles, ClearBindingSettles,
     VerifiedSettles, FetchedSettles DEF Acts, Step

LEMMA WriteSettles ==
  ASSUME SyncInv, SettledInv, NEW f \in Paths, Write(f)
  PROVE  SettledInv'
<1>1. size \in [Paths -> 0 .. MaxSize] /\ size[f] \in Nat
      /\ synced \in [SessionIds -> Nat] /\ req \in [Slots -> Request]
  BY DEF SyncInv, TypeOK, ServerTypeOK
<1>2. UNCHANGED <<synced, chunks, req, disk, proc>> /\ size' = [size EXCEPT ![f] = @ + 1]
  BY DEF Write, serverVars
<1>3. ASSUME NEW g \in Paths PROVE Bounded(size[g])'
  <2>1. size[g] \in Nat /\ size'[g] \in Nat /\ size[g] <= size'[g] /\ Bounded(size[g])
    BY <1>1, <1>2 DEF SettledInv
  <2>2. ASSUME NEW s \in SessionIds PROVE synced'[s] <= size'[g]
    <3>1. synced[s] \in Nat /\ synced[s] <= size[g]
      BY <1>1, <2>1 DEF Bounded
    <3>. QED
      BY <1>2, <2>1, <3>1
  <2>3. ASSUME NEW k \in Slots, Upload(req[k])' PROVE req'[k].end <= size'[g]
    <3>1. req[k].end \in Nat /\ req[k].end <= size[g]
      BY <1>1, <1>2, <2>1, <2>3 DEF Bounded, Request, Upload
    <3>. QED
      BY <1>2, <2>1, <3>1
  <2>. QED
    BY <2>2, <2>3 DEF Bounded
<1>. QED
  BY <1>2, <1>3 DEF SettledInv, Settled, Fits, Agrees, Tells, Reported, Bounded, Upload

LEMMA DiscardSettles ==
  ASSUME SyncInv, SettledInv, NEW q, Procs = {q}, NEW k \in Slots, Discard(k)
  PROVE  SettledInv'
<1>1. UNCHANGED <<tables, size, disk, proc>> /\ q \in Procs
      /\ \A j \in Slots : req'[j] = req[j] \/ (req'[j].phase # "done" /\ ~Upload(req[j])')
  BY TakesQuietly DEF Discard, clientVars
<1>2. Settled(proc[q]) /\ Fits(disk)
  BY <1>1 DEF SettledInv
<1>. QED
  BY <1>1, <1>2, QuietSettles DEF Settled

LEMMA InitSettled ==
  ASSUME Init
  PROVE  SettledInv
<1>1. FreeSlot.phase = "free" /\ Idle.pc = "idle" /\ Idle.st = FreshState /\ FreshState.sid = NoSession
  BY DEF FreeSlot, Idle, FreshState
<1>2. Bounded(0)
  BY <1>1 DEF Init, ServerInit, Bounded, Upload
<1>. QED
  BY <1>1, <1>2 DEF Init, ServerInit, SettledInv, Settled, Fits, Agrees, Tells, Reported, PastFlush

\* With one process and one transcript file, offsets and sequence numbers of
\* the plugin stay together, and a push past its flush stays the last word.
THEOREM Settlement ==
  ASSUME NEW q, Procs = {q}, NEW f, Paths = {f}
  PROVE  Spec => []SettledInv
<1>1. Init => SettledInv
  BY InitSettled
<1>2. SyncInv /\ DeliveryInv /\ SettledInv /\ [Next]_vars => SettledInv'
  <2>1. SUFFICES ASSUME SyncInv, DeliveryInv, SettledInv, [Next]_vars PROVE SettledInv'
    OBVIOUS
  <2>2. ASSUME NEW k \in Slots, Handler(k) \/ (ServerFail(k) /\ UNCHANGED clientVars) PROVE SettledInv'
    BY <2>1, <2>2, ServerSettles DEF Handler
  <2>3. ASSUME NEW p \in Procs, Acts(p) PROVE SettledInv'
    BY <2>1, <2>3, ActsSettles
  <2>4. CASE UNCHANGED vars
    BY <2>1, <2>4 DEF vars, serverVars, clientVars, SettledInv, Settled, Fits, Agrees, Tells,
       Reported, Bounded, Upload
  <2>5. ASSUME NEW g \in Paths, Write(g) PROVE SettledInv'
    BY <2>1, <2>5, WriteSettles
  <2>6. ASSUME NEW k \in Slots, Discard(k) PROVE SettledInv'
    BY <2>1, <2>6, DiscardSettles
  <2>. QED
    BY <2>1, <2>2, <2>3, <2>4, <2>5, <2>6 DEF Next, Acts
<1>. QED
  BY <1>1, <1>2, Invariance, Deliveries, PTL DEF Spec

\* With one process and one transcript file, a push that reports success leaves
\* the plugin expecting the sequence number the server expects, whatever orphaned
\* requests, lost replies, kills and crashes came before: run_push takes over an
\* offset without its sequence number, and here the two never differ.
THEOREM PushesSynchronize ==
  ASSUME NEW q, Procs = {q}, NEW f, Paths = {f}
  PROVE  Spec => []PushSynchronizes
<1>1. DeliveryInv /\ SettledInv => PushSynchronizes
  <2>1. SUFFICES ASSUME DeliveryInv, SettledInv, NEW p \in Procs, proc[p].pc = "pushed",
                        proc[p].st.off = synced[proc[p].st.sid]
                 PROVE  proc[p].st.seq = Len(chunks[proc[p].st.sid]) + 1
    BY DEF PushSynchronizes
  <2>2. proc[p].st.sid \in SessionIds /\ Fits(proc[p].st)
    BY <2>1 DEF DeliveryInv, Delivering, SettledInv, Settled, PastFlush
  <2>. QED
    BY <2>1, <2>2 DEF Fits, Agrees, SessionIds, NoSession
<1>. QED
  BY <1>1, Settlement, Deliveries, PTL

=============================================================================
