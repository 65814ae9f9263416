---------------------------- MODULE SyncHistory ----------------------------
(***************************************************************************)
(* What the synchronisation history of a repository branch promises to the *)
(* developers and plugins that read it: a log that is opened once, only    *)
(* ever grows at its end, and whose records continue one another.          *)
(* BranchMemory implements it.                                             *)
(***************************************************************************)
EXTENDS Sequences, SequencesExt

CONSTANTS
  Branches,  \* repository branches
  None,      \* no conversation
  Entry      \* [kind, conversation, commit, package]

VARIABLE log   \* log[b] is the history of branch b; empty without a branch

Opening(e) == e.kind = "attach" /\ e.conversation = None /\ e.commit = 0

\* May e be the record that comes after last?  A push continues the
\* conversation that is attached; attaching keeps what was synchronised;
\* detaching forgets it, and only for the conversation recorded last.
Follows(last, e) ==
  /\ e.kind = "push" => last.kind # "detach" /\ e.conversation = last.conversation
  /\ e.kind = "attach" => e.commit = last.commit /\ e.package = last.package
  /\ e.kind = "detach" => e.conversation = last.conversation /\ e.commit = 0

Step(b) ==
  \/ log'[b] = log[b]
  \/ log'[b] = <<>>
  \/ LET e == Last(log'[b]) IN
       /\ log'[b] = Append(log[b], e) /\ e \in Entry
       /\ IF log[b] = <<>> THEN Opening(e) ELSE Follows(Last(log[b]), e)

HistoryInit == log = [b \in Branches |-> <<>>]

HistorySpec == HistoryInit /\ [][\A b \in Branches : Step(b)]_log
=============================================================================
