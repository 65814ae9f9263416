---------------------------- MODULE TranscriptLog ----------------------------
(***************************************************************************)
(* What transcript synchronisation promises: each session is a log of      *)
(* pieces that only ever grows at its end, each piece starting where the   *)
(* log ends, and a closed session stays closed.  A session that is already *)
(* closed may still receive the piece of an upload accepted before.        *)
(***************************************************************************)
EXTENDS Integers, Sequences

CONSTANTS Ids, Pieces

VARIABLES state, log

Reach(l) == IF l = <<>> THEN 0 ELSE l[Len(l)].end

Init ==
  /\ state = [s \in Ids |-> "none"]
  /\ log = [s \in Ids |-> <<>>]

Open(s) ==
  /\ state[s] = "none"
  /\ state' = [state EXCEPT ![s] = "ACTIVE"]
  /\ UNCHANGED log

Extend(s, piece) ==
  /\ state[s] # "none"
  /\ piece.start = Reach(log[s])
  /\ piece.end > piece.start
  /\ log' = [log EXCEPT ![s] = Append(@, piece)]
  /\ UNCHANGED state

Close(s) ==
  /\ state[s] = "ACTIVE"
  /\ state' = [state EXCEPT ![s] = "CLOSED"]
  /\ UNCHANGED log

Next ==
  \E s \in Ids : Open(s) \/ Close(s) \/ \E piece \in Pieces : Extend(s, piece)

Spec == Init /\ [][Next]_<<state, log>>

=============================================================================
