------------------------------ MODULE ForkedNode -----------------------------
(***************************************************************************)
(* The bitcoind node of a user, with forks.  bitcoind is not part of the   *)
(* repository: what is modelled is what sync.go reads of it, that is, the  *)
(* heights of getblockchaininfo, the tips of getchaintips, the headers of  *)
(* getblockheader and the answers of submitblock.                          *)
(*                                                                         *)
(* A block hash commits to the block's ancestors, so a block is the        *)
(* sequence of the branches taken from the genesis block <<>> on, and its  *)
(* height is its length.                                                   *)
(***************************************************************************)
EXTENDS Integers, SequencesExt

CONSTANTS
  Branches,     \* what tells blocks on one parent apart
  Mined,        \* the blocks that exist, with all of their ancestors
  Rejected,     \* blocks the node's consensus rules refuse
  InitialTip    \* the block its active chain ends in at first

Ancestors(b) == {SubSeq(b, 1, h) : h \in 0..Len(b)}

BuildsOn(b, bad) == Ancestors(b) \cap bad # {}

ASSUME NodeAssumption ==
  /\ Mined \subseteq Seq(Branches)
  /\ Rejected \subseteq Mined
  /\ InitialTip \in Mined
  /\ ~BuildsOn(InitialTip, Rejected)
  /\ \A b \in Mined : Ancestors(b) \subseteq Mined

VARIABLES
  known,   \* blocks whose header the node has
  held,    \* blocks whose data it has
  failed,  \* blocks it tried to connect and found invalid
  active,  \* last block of its active chain
  best     \* its best header

nodeVars == <<known, held, failed, active, best>>

NodeInit ==
  /\ known = Ancestors(InitialTip)
  /\ held = known
  /\ failed = {}
  /\ active = InitialTip
  /\ best = InitialTip

Connected(blocks) == {b \in blocks : Ancestors(b) \subseteq blocks}

(* Header b arrives from a peer.  Headers on an invalid block are refused. *)
HearHeader(b) ==
  /\ b \in Mined \ known
  /\ Front(b) \in known
  /\ ~BuildsOn(b, failed)
  /\ known' = known \cup {b}
  /\ best' = IF Len(b) > Len(best) THEN b ELSE best
  /\ UNCHANGED <<held, failed, active>>

(* The node stores block b and activates the best chain it can: a longer   *)
(* chain of stored blocks is connected, up to its first invalid block.     *)
StoreBlock(b) ==
  LET longer == {c \in Connected(held \cup {b}) : Len(c) > Len(active)}
      viable == {c \in longer : ~BuildsOn(c, Rejected)} \cup {active}
      header == IF Len(b) > Len(best) THEN b ELSE best
  IN /\ held' = held \cup {b}
     /\ known' = known \cup {b}
     /\ failed' = failed \cup {r \in Rejected : \E c \in longer : r \in Ancestors(c)}
     /\ active' \in {c \in viable : \A d \in viable : Len(d) <= Len(c)}
     /\ best' = IF BuildsOn(header, failed') THEN active' ELSE header

(* Block b arrives from a peer.                                            *)
HearBlock(b) ==
  /\ b \in known \ held
  /\ ~BuildsOn(b, failed)
  /\ StoreBlock(b)

Known == {"duplicate", "duplicate-invalid"}

Answers == Known \cup {"null", "inconclusive", "rejected", "bad-parent"}

(* submitblock b, answered with answer; bad-parent stands for              *)
(* prev-blk-not-found and bad-prevblk.                                     *)
Submitted(b, answer) ==
  \/ /\ b \in known
     /\ BuildsOn(b, failed)
     /\ answer = "duplicate-invalid"
     /\ UNCHANGED nodeVars
  \/ /\ b \in held
     /\ ~BuildsOn(b, failed)
     /\ answer = "duplicate"
     /\ UNCHANGED nodeVars
  \/ /\ b \notin known
     /\ Front(b) \notin known \/ BuildsOn(b, failed)
     /\ answer = "bad-parent"
     /\ UNCHANGED nodeVars
  \/ /\ b \notin held
     /\ b \in known \/ Front(b) \in known
     /\ ~BuildsOn(b, failed)
     /\ StoreBlock(b)
     /\ answer = IF BuildsOn(b, failed') THEN "rejected"
                 ELSE IF b \in Ancestors(active') THEN "null"
                 ELSE "inconclusive"

(* getchaintips: the blocks nothing is known on top of, and their status.  *)
ChainTips == {b \in known : \A c \in known : c = <<>> \/ Front(c) # b} \cup {active}

Status(b) ==
  IF b = active THEN "active"
  ELSE IF BuildsOn(b, failed) THEN "invalid"
  ELSE IF b \notin Connected(held) THEN "headers-only"
  ELSE "valid-fork"

NodeTypeOK ==
  /\ held \subseteq known
  /\ known \subseteq Mined
  /\ failed \subseteq Rejected \cap held
  /\ active \in Connected(held)
  /\ best \in known
=============================================================================
