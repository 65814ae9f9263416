-------------------------- MODULE MCTranscriptSync --------------------------
(***************************************************************************)
(* Small instances of TranscriptSync for TLC.                              *)
(***************************************************************************)
EXTENDS TranscriptSync, TLC

CONSTANTS p1, p2, k1, k2, f1

OneProc == {p1}
TwoProcs == {p1, p2}
OneSlot == {k1}
TwoSlots == {k1, k2}
OnePath == {f1}
OnePayload == {f1, NoPath}
AllEvents == HookEvents \cup {"push"}
AllFaults == {"loss", "kill", "crash"}
NoFaults == {}
RaceEvents == {"start", "stop", "end", "push"}
FlushEvents == {"start", "stop", "compact", "push"}
PathKnown == {f1}

\* Processes and slots are interchangeable; used by the runs without liveness.
Symmetry == Permutations(Procs) \cup Permutations(Slots)

=============================================================================
