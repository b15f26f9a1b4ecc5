----------------------------- MODULE VyOSConfig -----------------------------
(***************************************************************************)
(* The device the apply engine drives: the running configuration, the      *)
(* configuration saved for the next boot, and one candidate overlay per    *)
(* CLI Shell API session identifier.  VyOS itself is not in this           *)
(* repository: every operator below is what src/internal/vyos relies on    *)
(* when it runs cli-shell-api, my_set, my_delete, my_commit, my_discard    *)
(* and vyatta-cfg-cmd-wrapper save.                                        *)
(*                                                                         *)
(* A configuration maps every leaf of the tree to a value or Absent.  A    *)
(* root is a subtree, known by the leaves under it; roots may be nested    *)
(* ("interfaces bridge" and "interfaces bridge br0").  A candidate is an   *)
(* overlay on the running configuration: Keep where it has no edit.        *)
(***************************************************************************)
CONSTANTS Leaf, Val, Absent, Keep,
          Root, Under,       \* Under[r]: the leaves of root r
          Sid,               \* session identifiers: process ids
          InitialConfigs     \* running configurations the device may start with

Config == [Leaf -> Val \cup {Absent}]
Overlay == [Leaf -> Val \cup {Absent, Keep}]
Candidate == [open : BOOLEAN, edits : Overlay]

ASSUME ConfigAssumption ==
  /\ Absent \notin Val /\ Keep \notin Val /\ Absent # Keep
  /\ Under \in [Root -> SUBSET Leaf]
  /\ InitialConfigs \subseteq Config

VARIABLES running, saved, cand

device == <<running, saved, cand>>

DeviceTypeOK ==
  /\ running \in Config
  /\ saved \in Config
  /\ cand \in [Sid -> Candidate]

NoEdits == [l \in Leaf |-> Keep]

DeviceInit ==
  /\ running \in InitialConfigs
  /\ saved = running
  /\ cand = [s \in Sid |-> [open |-> FALSE, edits |-> NoEdits]]

\* What the running configuration becomes when overlay e is committed to it.
Merged(e) == [l \in Leaf |-> IF e[l] = Keep THEN running[l] ELSE e[l]]

\* Root r has no node in session s: my_delete answers "nothing to delete".
NothingUnder(s, r) ==
  /\ cand[s].open
  /\ \A l \in Under[r] : Merged(cand[s].edits)[l] = Absent

\* setupSession: an identifier whose session was never torn down finds its
\* old overlay again, or a clean one; the code depends on neither.
SetupSession(s) ==
  /\ \E e \in {cand[s].edits, NoEdits} :
       cand' = [cand EXCEPT ![s] = [open |-> TRUE, edits |-> e]]
  /\ UNCHANGED <<running, saved>>

\* my_delete: the whole subtree is removed in the overlay, so that nothing
\* committed below it later shows through.
DeleteRoot(s, r) ==
  /\ cand[s].open /\ ~NothingUnder(s, r)
  /\ cand' = [cand EXCEPT ![s].edits =
                [l \in Leaf |-> IF l \in Under[r] THEN Absent ELSE @[l]]]
  /\ UNCHANGED <<running, saved>>

\* my_set
SetLeaf(s, l, v) ==
  /\ cand[s].open
  /\ cand' = [cand EXCEPT ![s].edits = [@ EXCEPT ![l] = v]]
  /\ UNCHANGED <<running, saved>>

\* my_commit: all the edits reach the running configuration at once.
CommitSession(s) ==
  /\ cand[s].open
  /\ running' = Merged(cand[s].edits)
  /\ cand' = [cand EXCEPT ![s].edits = NoEdits]
  /\ UNCHANGED saved

\* vyatta-cfg-cmd-wrapper save
SaveRunning(s) ==
  /\ cand[s].open
  /\ saved' = running
  /\ UNCHANGED <<running, cand>>

\* my_discard
DiscardEdits(s) ==
  /\ cand[s].open
  /\ cand' = [cand EXCEPT ![s].edits = NoEdits]
  /\ UNCHANGED <<running, saved>>

\* cli-shell-api teardownSession
TeardownSession(s) ==
  /\ cand[s].open
  /\ cand' = [cand EXCEPT ![s] = [open |-> FALSE, edits |-> NoEdits]]
  /\ UNCHANGED <<running, saved>>

\* A human in "configure": the apply lock does not exclude a commit to leaf l.
OperatorSets(l, v) ==
  /\ running[l] # v
  /\ running' = [running EXCEPT ![l] = v]
  /\ UNCHANGED <<saved, cand>>
=============================================================================
