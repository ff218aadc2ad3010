---------------------------- MODULE CanvasContract ----------------------------
(***************************************************************************)
(* What a canvas authority promises its clients, without queue, cache,     *)
(* attempts, streams or crashes: one linear history of commits, each       *)
(* command in it at most once and applied to the document it was admitted  *)
(* against, an acknowledgement only for a command of the history, and no   *)
(* commit after the canvas is gone.                                        *)
(***************************************************************************)
EXTENDS CanvasItems, Sequences

CONSTANTS
  Commands,      \* command identifiers
  Catalogue,     \* the base revision and the operations of each command
  Foreign,       \* marks a commit of another authority on the same store
  ForeignBatches \* what another authority may commit

VARIABLES
  alive,    \* the canvas row exists
  doc,      \* the committed document
  log,      \* the commits, oldest first
  acked     \* commands some caller has been told are committed

contractVars == <<alive, doc, log, acked>>

Logged(c) == \E k \in DOMAIN log : log[k] = c

Init ==
  /\ alive = TRUE
  /\ doc = EmptyDocument
  /\ log = <<>>
  /\ acked = {}

Commit(c) ==
  /\ alive
  /\ ~Logged(c)
  /\ Catalogue[c].base <= Len(log)
  /\ GuardsHold(Catalogue[c].ops, doc)
  /\ Altered(Catalogue[c].ops, doc) # {}
  /\ doc' = Result(Catalogue[c].ops, doc)
  /\ WellFormed(doc')
  /\ log' = Append(log, c)
  /\ UNCHANGED <<alive, acked>>

CommitElsewhere(ops) ==
  /\ alive
  /\ doc' = Result(ops, doc)
  /\ WellFormed(doc')
  /\ log' = Append(log, Foreign)
  /\ UNCHANGED <<alive, acked>>

Acknowledge(c) ==
  /\ Logged(c)
  /\ acked' = acked \cup {c}
  /\ UNCHANGED <<alive, doc, log>>

Delete ==
  /\ alive
  /\ alive' = FALSE
  /\ doc' = EmptyDocument
  /\ UNCHANGED <<log, acked>>

Next ==
  \/ \E c \in Commands : Commit(c) \/ Acknowledge(c)
  \/ \E ops \in ForeignBatches : CommitElsewhere(ops)
  \/ Delete

Spec == Init /\ [][Next]_contractVars
=============================================================================
