------------------------------ MODULE NodeChain ------------------------------
(***************************************************************************)
(* The active chain of the bitcoind node a provider reads through RPC.     *)
(* bitcoind is not part of the repository: what is modelled is the chain   *)
(* as getblockcount and getblockhash show it to the uploader, growing one  *)
(* block at a time and losing blocks from its top when it reorganises.     *)
(*                                                                         *)
(* A block hash commits to every ancestor of the block, so a block is      *)
(* identified by the branch taken at each height up to its own.  Two       *)
(* chains have the same hash at a height exactly when they agree on every  *)
(* height up to it, which is the fact the follower's reorg check rests on. *)
(***************************************************************************)
EXTENDS Integers

CONSTANTS
  Branches,    \* the alternative blocks mined on top of one parent
  ReorgDepth,  \* no block this deep below the highest tip is ever replaced
  InitialTip,  \* height of the chain when the system is first observed
  MaxHeight    \* bound: heights above it are not mined

ASSUME ChainAssumption ==
  /\ Branches # {}
  /\ ReorgDepth \in Nat
  /\ MaxHeight \in Nat
  /\ InitialTip \in 0..MaxHeight

VARIABLES
  tip,   \* height of the active chain's last block
  chain, \* the branch taken at each height 0 .. tip
  peak   \* the highest tip so far

chainVars == <<tip, chain, peak>>

(* The blocks of the active chain: the hash getblockhash(h) returns.       *)
BlockAt(h) == [i \in 0..h |-> chain[i]]

Heights == 0..MaxHeight

(* Every hash a chain of at most MaxHeight blocks can have.                *)
BlockHashes == UNION {[0..h -> Branches] : h \in Heights}

MainBranch == CHOOSE b \in Branches : TRUE

ChainInit ==
  /\ tip = InitialTip
  /\ chain = [h \in 0..InitialTip |-> MainBranch]
  /\ peak = InitialTip

(* A block is connected on top of the chain.                               *)
Extend ==
  /\ tip < MaxHeight
  /\ tip' = tip + 1
  /\ peak' = IF peak < tip + 1 THEN tip + 1 ELSE peak
  /\ \E b \in Branches :
       chain' = [h \in 0..(tip + 1) |-> IF h = tip + 1 THEN b ELSE chain[h]]

(* The top of the chain is disconnected.  A reorganisation is a RollBack   *)
(* followed by Extend steps on another branch; the uploader may call the   *)
(* node in between, or see only the end of it.                             *)
RollBack ==
  \E t \in 0..(tip - 1) :
     /\ t + ReorgDepth >= peak
     /\ tip' = t
     /\ chain' = [h \in 0..t |-> chain[h]]
     /\ UNCHANGED peak

ChainTypeOK ==
  /\ tip \in 0..MaxHeight
  /\ peak \in tip..MaxHeight
  /\ peak <= tip + ReorgDepth
  /\ chain \in [0..tip -> Branches]

(* Heights whose block can no longer be replaced.                          *)
Final(h) == h + ReorgDepth <= peak
=============================================================================
