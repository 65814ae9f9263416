--------------------------- MODULE TranscriptSync ---------------------------
(***************************************************************************)
(* The Claude Code plugin and the server together.  Every hook event and   *)
(* every `convhub push` is a process of its own: it loads ~/.convhub/      *)
(* state.json, works on that copy, talks to the server, and saves the      *)
(* whole copy back.  Nothing locks the file.                               *)
(*                                                                         *)
(* A process is cut into steps at each access to the state file and at     *)
(* each request and reply.  Hooks are killed by Claude Code after 30 s     *)
(* (install.sh) while the client waits up to 60 s, and a request may be    *)
(* lost or answered too late: the handler then runs on with nobody         *)
(* waiting.                                                                *)
(***************************************************************************)
EXTENDS ExternalSessions

CONSTANTS
  Procs,     \* processes that can run at the same time
  Events,    \* the events of a run, a subset of HookEvents \cup {"push"}
  Payloads,  \* transcript_path in a hook payload: members of Paths or NoPath
  NoSlot,
  MaxSize    \* bound: bytes Claude Code writes to one transcript

HookEvents == {"start", "tool", "stop", "compact", "end"}

ASSUME PluginAssumption ==
  /\ Events \subseteq HookEvents \cup {"push"}
  /\ Payloads \subseteq Paths \cup {NoPath}
  /\ NoSlot \notin Slots
  /\ MaxSize \in Nat

VARIABLES
  size,  \* size[f]: bytes in transcript file f (files only grow)
  disk,  \* the PluginState in state.json
  proc   \* proc[p]: program state of process p

clientVars == <<size, disk, proc>>
vars == <<serverVars, clientVars>>

PluginState == [sid : Nat, off : Nat, seq : Nat, path : Paths \cup {NoPath},
                dirty : BOOLEAN]

Waiting == {"connecting", "uploading", "disconnecting", "verifying", "fetching"}
Pcs == Waiting \cup {"idle", "save", "connect", "flush", "disconnect", "verify",
                     "fetch", "pushed"}

\* path is the payload's transcript_path, st the process's copy of the state,
\* goal how long the transcript was when it was read for the flush.
Process == [pc : Pcs, ev : HookEvents \cup {"push"}, path : Paths \cup {NoPath},
            st : PluginState, slot : Slots \cup {NoSlot}, goal : Nat]

FreshState == [sid |-> NoSession, off |-> 0, seq |-> 1, path |-> NoPath,
               dirty |-> FALSE]
Idle == [pc |-> "idle", ev |-> "tool", path |-> NoPath, st |-> FreshState,
         slot |-> NoSlot, goal |-> 0]

TypeOK ==
  /\ ServerTypeOK
  /\ size \in [Paths -> 0 .. MaxSize]
  /\ disk \in PluginState
  /\ proc \in [Procs -> Process]

Init ==
  /\ ServerInit
  /\ size = [f \in Paths |-> 0]
  /\ disk = FreshState
  /\ proc = [p \in Procs |-> Idle]

-----------------------------------------------------------------------------
(* Claude Code *)

Write(f) ==
  /\ size[f] < MaxSize
  /\ size' = [size EXCEPT ![f] = @ + 1]
  /\ UNCHANGED <<serverVars, disk, proc>>

-----------------------------------------------------------------------------
(* Steps of a process *)

Finish(p) == proc' = [proc EXCEPT ![p] = Idle]

\* Where handle_stop, handle_pre_compact, handle_session_end and run_push go
\* on after flush_transcript; "idle" means the process ends.
AfterFlush(p, st, goal) ==
  LET ev == proc[p].ev
      pc == CASE ev = "end" /\ st.sid # NoSession -> "disconnect"
              [] ev = "push" -> "verify"
              [] OTHER -> "idle"
  IN IF pc = "idle" THEN Finish(p)
     ELSE proc' = [proc EXCEPT ![p] = [@ EXCEPT !.pc = pc, !.st = st, !.slot = NoSlot, !.goal = goal]]

\* A process starts and loads state.json.
Begin(p, ev, f, pc, st) ==
  /\ ev \in Events
  /\ proc[p].pc = "idle"
  /\ proc' = [proc EXCEPT ![p] = [Idle EXCEPT !.pc = pc, !.ev = ev, !.path = f, !.st = st]]
  /\ UNCHANGED <<serverVars, size, disk>>

WithPath(st, f) == IF f = NoPath THEN st ELSE [st EXCEPT !.path = f]
Dirty(st) == [st EXCEPT !.dirty = TRUE]

BeginSessionStart(p, f) == Begin(p, "start", f, "connect", disk)

BeginPostToolUse(p, f) == Begin(p, "tool", NoPath, "save", Dirty(WithPath(disk, f)))

\* handle_stop saves only when the payload has a path, flushes only when dirty.
BeginStop(p, f) ==
  /\ f # NoPath \/ disk.dirty
  /\ Begin(p, "stop", NoPath, IF f = NoPath THEN "flush" ELSE "save", WithPath(disk, f))

\* handle_pre_compact and handle_session_end mark dirty and save with a path.
BeginForcedFlush(p, ev, f) ==
  IF f = NoPath THEN Begin(p, ev, NoPath, "flush", disk)
                ELSE Begin(p, ev, NoPath, "save", Dirty(WithPath(disk, f)))

\* Mutant: a push without a session flushes without connecting.
BeginPushUnbound(p) == Begin(p, "push", NoPath, "flush", Dirty(disk))

\* ensure_session connects only when the state holds no session id.
BeginPush(p) ==
  IF disk.sid = NoSession THEN Begin(p, "push", NoPath, "connect", disk)
                          ELSE Begin(p, "push", NoPath, "flush", Dirty(disk))

\* save_state, then flush_transcript unless there is nothing more to do.
Save(p) ==
  /\ proc[p].pc = "save"
  /\ disk' = proc[p].st
  /\ IF proc[p].ev = "tool" \/ (proc[p].ev = "stop" /\ ~proc[p].st.dirty)
     THEN Finish(p)
     ELSE proc' = [proc EXCEPT ![p].pc = "flush"]
  /\ UNCHANGED <<serverVars, size>>

\* Process p sends request r and waits for the reply.
Send(p, r, pc) ==
  \E k \in Slots :
    /\ req[k].phase = "free"
    /\ req' = [req EXCEPT ![k] = r]
    /\ proc' = [proc EXCEPT ![p] = [@ EXCEPT !.pc = pc, !.slot = k]]
    /\ UNCHANGED <<tables, size, disk>>

\* The reply p waits for at pc; taking it frees the slot.
Answered(p, pc) == proc[p].pc = pc /\ req[proc[p].slot].phase = "done"
Answer(p) == req[proc[p].slot]
TakeAnswer(p) == req' = [req EXCEPT ![proc[p].slot] = FreeSlot]

Connect(p) == proc[p].pc = "connect" /\ Send(p, NewRequest("connect", NoSession), "connecting")

\* Mutant: a SessionStart that resumes keeps the offset of its own state.
ConnectedKeepsOffset(p) ==
  /\ Answered(p, "connecting") /\ Answer(p).res = "ok"
  /\ LET st == WithPath([proc[p].st EXCEPT !.sid = Answer(p).sid, !.seq = Answer(p).count + 1,
                                           !.dirty = FALSE],
                        proc[p].path)
     IN /\ disk' = st
        /\ IF proc[p].ev = "push"
           THEN proc' = [proc EXCEPT ![p] = [@ EXCEPT !.pc = "flush", !.st = Dirty(st), !.slot = NoSlot]]
           ELSE Finish(p)
  /\ TakeAnswer(p)
  /\ UNCHANGED <<tables, size>>

\* handle_session_start takes offset and sequence from the reply, forgets that
\* anything was dirty, and saves.  A push goes on to a forced flush.
Connected(p) ==
  /\ Answered(p, "connecting") /\ Answer(p).res = "ok"
  /\ LET st == WithPath([proc[p].st EXCEPT !.sid = Answer(p).sid, !.off = Answer(p).off,
                                           !.seq = Answer(p).count + 1, !.dirty = FALSE],
                        proc[p].path)
     IN /\ disk' = st
        /\ IF proc[p].ev = "push"
           THEN proc' = [proc EXCEPT ![p] = [@ EXCEPT !.pc = "flush", !.st = Dirty(st), !.slot = NoSlot]]
           ELSE Finish(p)
  /\ TakeAnswer(p)
  /\ UNCHANGED <<tables, size>>

\* flush_transcript returns at once without a session ...
FlushUnbound(p) ==
  /\ proc[p].pc = "flush"
  /\ proc[p].st.sid = NoSession
  /\ AfterFlush(p, proc[p].st, 0)
  /\ UNCHANGED <<serverVars, size, disk>>

\* ... clears dirty and saves when there are no bytes beyond the offset ...
Length(st) == IF st.path = NoPath THEN 0 ELSE size[st.path]
\* Mutant: a last byte alone is not uploaded.
NothingMuchToSend(st) == Length(st) <= st.off + 1
NothingToSend(st) == Length(st) <= st.off

FlushClean(p) ==
  /\ proc[p].pc = "flush"
  /\ proc[p].st.sid # NoSession
  /\ NothingToSend(proc[p].st)
  /\ LET st == [proc[p].st EXCEPT !.dirty = FALSE]
     IN disk' = st /\ AfterFlush(p, st, Length(st))
  /\ UNCHANGED <<serverVars, size>>

\* Mutant: the state is marked flushed and saved before the upload is sent.
FlushMarkedFirst(p) ==
  LET st == proc[p].st IN
  /\ proc[p].pc = "flush"
  /\ st.sid # NoSession
  /\ ~NothingToSend(st)
  /\ disk' = [st EXCEPT !.off = Length(st), !.seq = @ + 1, !.dirty = FALSE]
  /\ \E k \in Slots :
       /\ req[k].phase = "free"
       /\ req' = [req EXCEPT ![k] = UploadRequest(st.sid, st.seq, st.path, st.off, Length(st))]
       /\ proc' = [proc EXCEPT ![p] = [@ EXCEPT !.pc = "uploading", !.slot = k, !.goal = Length(st)]]
  /\ UNCHANGED <<tables, size>>

\* ... and otherwise uploads all of them as one chunk.
FlushUpload(p) ==
  LET st == proc[p].st IN
  /\ proc[p].pc = "flush"
  /\ st.sid # NoSession
  /\ ~NothingToSend(st)
  /\ \E k \in Slots :
       /\ req[k].phase = "free"
       /\ req' = [req EXCEPT ![k] = UploadRequest(st.sid, st.seq, st.path, st.off, Length(st))]
       /\ proc' = [proc EXCEPT ![p] = [@ EXCEPT !.pc = "uploading", !.slot = k, !.goal = Length(st)]]
  /\ UNCHANGED <<tables, size, disk>>

\* Mutant: flush_transcript does not save the state after an upload.
UploadedNotSaved(p) ==
  /\ Answered(p, "uploading") /\ Answer(p).res = "ok"
  /\ LET st == [proc[p].st EXCEPT !.off = Answer(p).end, !.seq = @ + 1, !.dirty = FALSE]
     IN AfterFlush(p, st, proc[p].goal)
  /\ TakeAnswer(p)
  /\ UNCHANGED <<tables, size, disk>>

\* Mutant: the offset moves and the sequence number does not.
UploadedSameSequence(p) ==
  /\ Answered(p, "uploading") /\ Answer(p).res = "ok"
  /\ LET st == [proc[p].st EXCEPT !.off = Answer(p).end, !.dirty = FALSE]
     IN disk' = st /\ AfterFlush(p, st, proc[p].goal)
  /\ TakeAnswer(p)
  /\ UNCHANGED <<tables, size>>

\* mark_flushed and save_state: the only place the offset moves with a chunk.
Uploaded(p) ==
  /\ Answered(p, "uploading") /\ Answer(p).res = "ok"
  /\ LET st == [proc[p].st EXCEPT !.off = Answer(p).end, !.seq = @ + 1, !.dirty = FALSE]
     IN disk' = st /\ AfterFlush(p, st, proc[p].goal)
  /\ TakeAnswer(p)
  /\ UNCHANGED <<tables, size>>

Disconnect(p) ==
  proc[p].pc = "disconnect" /\ Send(p, NewRequest("disconnect", proc[p].st.sid), "disconnecting")

\* The session binding is cleared whatever the server answered (an HTTP error
\* is a ConvHubClientError and is caught).
ClearBinding(p) ==
  /\ disk' = [proc[p].st EXCEPT !.sid = NoSession, !.dirty = FALSE]
  /\ Finish(p)

Disconnected(p) ==
  /\ Answered(p, "disconnecting")
  /\ ClearBinding(p)
  /\ TakeAnswer(p)
  /\ UNCHANGED <<tables, size>>

\* The server cannot be reached: urlopen raises URLError, also caught.
Unreachable(p) ==
  /\ "loss" \in Faults
  /\ proc[p].pc = "disconnecting"
  /\ ClearBinding(p)
  /\ UNCHANGED <<serverVars, size>>

Verify(p) == proc[p].pc = "verify" /\ Send(p, NewRequest("get", proc[p].st.sid), "verifying")

\* run_push fails if it is ahead of the server; otherwise it takes over the
\* server's offset, but not its sequence number, and saves.
Verified(p) ==
  /\ Answered(p, "verifying") /\ Answer(p).res = "ok"
  /\ LET st == [proc[p].st EXCEPT !.off = Answer(p).off] IN
     IF Answer(p).off < proc[p].st.off
     THEN Finish(p) /\ UNCHANGED disk
     ELSE /\ disk' = st
          /\ proc' = [proc EXCEPT ![p] = [@ EXCEPT !.pc = "fetch", !.st = st, !.slot = NoSlot]]
  /\ TakeAnswer(p)
  /\ UNCHANGED <<tables, size>>

Fetch(p) == proc[p].pc = "fetch" /\ Send(p, NewRequest("snapshot", proc[p].st.sid), "fetching")

\* The remaining requests of run_push only read; then it prints its checklist.
Fetched(p) ==
  /\ Answered(p, "fetching") /\ Answer(p).res = "ok"
  /\ proc' = [proc EXCEPT ![p] = [@ EXCEPT !.pc = "pushed", !.slot = NoSlot]]
  /\ TakeAnswer(p)
  /\ UNCHANGED <<tables, size, disk>>

PushDone(p) == proc[p].pc = "pushed" /\ Finish(p) /\ UNCHANGED <<serverVars, size, disk>>

\* An error reply ends a hook (run_hook swallows the exception) and a push
\* (it reports the failure); neither saves anything.
Rejected(p) ==
  /\ \E pc \in Waiting \ {"disconnecting"} : Answered(p, pc) /\ Answer(p).res # "ok"
  /\ Finish(p)
  /\ TakeAnswer(p)
  /\ UNCHANGED <<tables, size, disk>>

\* No reply in time, or the connection breaks: an exception that ends the
\* process, also while disconnecting (TimeoutError is no ConvHubClientError).
GiveUp(p) ==
  /\ "loss" \in Faults
  /\ proc[p].pc \in Waiting
  /\ Finish(p)
  /\ UNCHANGED <<serverVars, size, disk>>

\* Claude Code kills a hook that runs for 30 s; the user interrupts a push.
Kill(p) ==
  /\ "kill" \in Faults
  /\ proc[p].pc # "idle"
  /\ Finish(p)
  /\ UNCHANGED <<serverVars, size, disk>>

\* The slot of a request nobody waits for: its reply goes nowhere, or the
\* request itself never reached the server.
Discard(k) ==
  /\ req[k].phase \in {"new", "done"}
  /\ \A p \in Procs : proc[p].slot # k
  /\ req' = [req EXCEPT ![k] = FreeSlot]
  /\ UNCHANGED <<tables, clientVars>>

-----------------------------------------------------------------------------
Hook(p, f) ==
  \/ BeginSessionStart(p, f) \/ BeginPostToolUse(p, f) \/ BeginStop(p, f)
  \/ \E ev \in {"compact", "end"} : BeginForcedFlush(p, ev, f)

Step(p) ==
  \/ Save(p) \/ Connect(p) \/ Connected(p)
  \/ FlushUnbound(p) \/ FlushClean(p) \/ FlushUpload(p) \/ Uploaded(p)
  \/ Disconnect(p) \/ Disconnected(p) \/ Verify(p) \/ Verified(p)
  \/ Fetch(p) \/ Fetched(p) \/ PushDone(p) \/ Rejected(p)

Handler(k) == ServerStep(k) /\ UNCHANGED clientVars

Next ==
  \/ \E f \in Paths : Write(f)
  \/ \E p \in Procs : \/ \E f \in Payloads : Hook(p, f)
                      \/ BeginPush(p) \/ Step(p)
                      \/ Unreachable(p) \/ GiveUp(p) \/ Kill(p)
  \/ \E k \in Slots : Handler(k) \/ (ServerFail(k) /\ UNCHANGED clientVars) \/ Discard(k)

Spec == Init /\ [][Next]_vars

\* A process that runs is scheduled, a handler runs on, a slot is reclaimed.
Fairness ==
  /\ \A p \in Procs : WF_vars(Step(p))
  /\ \A k \in Slots : WF_vars(Handler(k)) /\ WF_vars(Discard(k))

FairSpec == Spec /\ Fairness

-----------------------------------------------------------------------------
(* Safety *)

\* A copy of the plugin state, wherever it lives.
Copies == {disk} \cup {proc[p].st : p \in Procs}

\* No copy of the plugin state is ahead of the server about the session it is
\* bound to, so run_push's "Local offset is ahead of remote" never fires.
NeverAhead ==
  \A st \in Copies : st.sid # NoSession =>
    /\ st.off <= synced[st.sid]
    /\ st.seq <= Len(chunks[st.sid]) + 1

\* A session that is not committed is empty, and one not constructed is not
\* committed.
SessionRows ==
  \A s \in SessionIds :
    /\ s > created => status[s] = "none"
    /\ status[s] = "none" => chunks[s] = <<>>

\* What a request in a slot knows about its session, at each phase.  An upload
\* that has passed the offset check may be overtaken, but then its sequence
\* number is used up: that is what makes two unlocked reads enough.
RequestKnows(r) ==
  /\ r.phase = "create" =>
       r.op = "connect" /\ r.sid \in 1 .. created /\ status[r.sid] = "none"
  /\ \/ r.phase \in {"free", "create"}
     \/ r.op = "connect" /\ r.phase = "new"
     \/ r.op = "connect" /\ r.phase = "done" /\ r.res = "error"
     \/ r.sid \in SessionIds /\ status[r.sid] # "none"
  /\ r.phase \in {"refresh", "ensure", "rebuild", "publish", "respond"} =>
       r.op = "snapshot" \/ (r.op = "connect" /\ r.off <= synced[r.sid])
  /\ (r.op \in {"connect", "get"} /\ r.phase = "done" /\ r.res = "ok") =>
       r.off <= synced[r.sid] /\ (r.op = "connect" => r.count <= Len(chunks[r.sid]))
  /\ (r.op = "upload" /\ r.phase # "free") =>
       /\ r.path \in Paths /\ r.end <= MaxSize
       /\ r.seq <= Len(chunks[r.sid]) + 1
       /\ r.phase \in {"check", "append"} =>
            /\ r.start < r.end
            /\ r.seq = Len(chunks[r.sid]) + 1 => r.start = synced[r.sid]
       /\ (r.phase = "done" /\ r.res = "ok") =>
            r.end <= synced[r.sid] /\ r.seq <= Len(chunks[r.sid])

RequestsKnow ==
  /\ \A k \in Slots : RequestKnows(req[k])
  /\ \A j, k \in Slots :
       (j # k /\ req[j].phase = "create" /\ req[k].phase = "create") => req[j].sid # req[k].sid

\* Which operation a waiting process waits for.
OpOf(pc) == CASE pc = "connecting" -> "connect"  [] pc = "uploading" -> "upload"
              [] pc = "verifying" -> "get"       [] pc = "fetching" -> "snapshot"
              [] OTHER -> "disconnect"

\* A waiting process has a slot of its own that holds its request.
ProcessesWait ==
  /\ \A p \in Procs : proc[p].pc \in Waiting =>
       /\ proc[p].slot \in Slots
       /\ req[proc[p].slot].phase # "free"
       /\ req[proc[p].slot].op = OpOf(proc[p].pc)
       /\ proc[p].pc # "connecting" => req[proc[p].slot].sid = proc[p].st.sid
       /\ proc[p].pc = "uploading" => req[proc[p].slot].seq = proc[p].st.seq
  /\ \A p, q \in Procs :
       (p # q /\ proc[p].pc \in Waiting /\ proc[q].pc \in Waiting) => proc[p].slot # proc[q].slot

\* A process that is past its flush, and a push about to flush, is bound.
Bound(pr) ==
  (\/ pr.pc \in {"uploading", "disconnect", "disconnecting", "verify",
                 "verifying", "fetch", "fetching"}
   \/ pr.ev = "push" /\ pr.pc \in {"save", "flush"}) => pr.st.sid # NoSession

\* A copy that is bound is bound to a session that exists, and is not ahead.
Lags(st) ==
  st.sid # NoSession =>
    /\ st.sid \in SessionIds /\ status[st.sid] # "none"
    /\ st.off <= synced[st.sid]
    /\ st.seq <= Len(chunks[st.sid]) + 1

CopiesLag ==
  /\ Lags(disk)
  /\ \A p \in Procs : Bound(proc[p]) /\ Lags(proc[p].st)

\* The inductive invariant behind Contiguous and NeverAhead.
SyncInv ==
  /\ TypeOK /\ Contiguous /\ SessionRows /\ RequestsKnow
  /\ ProcessesWait /\ CopiesLag

\* Byte b of file f is stored in session s.
Stored(s, f, b) ==
  \E n \in DOMAIN chunks[s] :
    chunks[s][n].path = f /\ chunks[s][n].start <= b /\ b < chunks[s][n].end

\* "Transcript uploaded": when a push reports success, every byte of the
\* transcript it flushed is stored in the session it is bound to (run_push).
PushUploadsTranscript ==
  \A p \in Procs : proc[p].pc = "pushed" =>
    \A b \in 0 .. proc[p].goal - 1 : Stored(proc[p].st.sid, proc[p].st.path, b)

\* "Session synchronized": when a push reports success and its offset is the
\* server's, its sequence number is the one the server expects (run_push).
PushSynchronizes ==
  \A p \in Procs : LET st == proc[p].st IN
    (proc[p].pc = "pushed" /\ st.off = synced[st.sid]) => st.seq = Len(chunks[st.sid]) + 1

\* A stored transcript is only ever extended at its end, and a closed session
\* never reopens: the detailed model implements the abstract log.
Log == INSTANCE TranscriptLog WITH
  Ids <- SessionIds, state <- status, log <- chunks,
  Pieces <- [path : Paths, start : 0 .. MaxSize, end : 0 .. MaxSize]

LogSpec == Log!Spec

\* "Cannot upload to a closed external AI session" (upload_chunk).
NoUploadAfterClose ==
  [][\A s \in SessionIds : status[s] = "CLOSED" => chunks'[s] = chunks[s]]_vars

\* SessionStart repairs whatever an earlier kill or lost reply left behind: the
\* state it saves is exactly the server's (handle_session_start).
StartRealigns ==
  [][\A p \in Procs : (proc[p].pc = "connecting" /\ disk' # disk) =>
       /\ status'[disk'.sid] = "ACTIVE"
       /\ disk'.off = synced'[disk'.sid]
       /\ disk'.seq = Len(chunks'[disk'.sid]) + 1]_vars

-----------------------------------------------------------------------------
(* Liveness *)

\* Somebody keeps pushing: push processes are started again and again.
PushFairness == \A p \in Procs : SF_vars(BeginPush(p))

PushSpec == FairSpec /\ PushFairness

\* Once the plugin knows a transcript and the transcript is complete, all of it
\* ends up on the server.
PushDelivers ==
  \A f \in Paths :
    (size[f] = MaxSize /\ disk.path = f)
      ~> \E s \in SessionIds : \A b \in 0 .. MaxSize - 1 : Stored(s, f, b)

=============================================================================
