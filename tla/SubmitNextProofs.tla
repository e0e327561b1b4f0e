------------------------- MODULE SubmitNextProofs -------------------------
(***************************************************************************)
(* Machine-checked properties of the search for the block to submit, for   *)
(* any blocks, forks and invalid blocks, any node and any provider.        *)
(***************************************************************************)
EXTENDS SubmitNext, WellFoundedInduction, TLAPS

-----------------------------------------------------------------------------
(* The inductive invariant: the node.                                      *)

(* Headers come with those of their ancestors, and are finitely high.      *)
HeadersClosed ==
  /\ \A b \in known : Ancestors(b) \subseteq known
  /\ \E n \in Nat : \A b \in known : Len(b) <= n

(* What was found invalid was connected to the chain when it was, and      *)
(* nothing invalid below it escaped.                                       *)
FailedConnected ==
  \A b \in failed : Ancestors(b) \subseteq held /\ Ancestors(b) \cap Rejected \subseteq failed

(* No stored chain is longer than the active one, but invalid ones, and    *)
(* the node knows which these are.                                         *)
ActiveIsBest ==
  /\ ~BuildsOn(active, Rejected)
  /\ \A b \in Connected(held) : Len(b) > Len(active) => BuildsOn(b, failed)

NodeInv ==
  /\ NodeTypeOK
  /\ HeadersClosed
  /\ FailedConnected
  /\ ActiveIsBest

-----------------------------------------------------------------------------
(* The inductive invariant: the bucket and the run.                        *)

BucketInv ==
  /\ archived \subseteq Mined
  /\ \A b \in archived : Ancestors(b) \subseteq archived
  /\ \A s \in DOMAIN index :
       /\ s \in Nat /\ EndOfRange(s) <= Len(Main)
       /\ SubSeq(Main, 1, EndOfRange(s)) \in archived
       /\ index[s] = [h \in RangeHeights(s) |-> SubSeq(Main, 1, h)]

Locals ==
  /\ pc \in {"idle", "readIndex", "readTips", "walk", "download", "submit", "checkHeight"}
  /\ target \in Nat /\ headers \in Nat
  /\ pc # "idle" => target >= 1 /\ outcome = "none"
  /\ hash \in Mined
  /\ walked \in 0..RecentWalkLimit
  /\ \A s \in missing : s \in Nat
  /\ counted \in Mined \cup {NoBlock}

(* The node had a header at each height it reported, and has it still.     *)
HeadersHeard ==
  /\ \E b \in known : headers <= Len(b)
  /\ pc \in {"readTips", "walk"} => target <= headers

(* The walk is on a known branch, not below the target yet, and as far     *)
(* below a known header as it has gone.                                    *)
Walking ==
  pc = "walk" =>
    /\ hash \in known
    /\ target <= Len(hash)
    /\ \E b \in known : Len(hash) + walked <= Len(b)

Found == pc \in {"download", "submit", "checkHeight"}

(* What was found is at the target, and known or published.                *)
HashFound == Found => Len(hash) = target /\ hash \in known \cup Ancestors(Main)

(* A branch the provider follows is one its own node has validated.        *)
MainIsValid == ~BuildsOn(Main, Rejected)

(* With one branch the parent of the target is never missing.              *)
NextToActive == MainIsValid /\ OneBranch /\ pc # "idle" => target <= Len(active) + 1

SubmitInv ==
  /\ NodeInv
  /\ BucketInv
  /\ Locals
  /\ HeadersHeard
  /\ Walking
  /\ HashFound
  /\ NextToActive
  /\ outcome \notin {"noTip", "passedTarget"}

-----------------------------------------------------------------------------
(* Numbers and sequences.                                                  *)

(* A non-empty set of natural numbers has a least one.                     *)
LEMMA LeastNumber ==
  ASSUME NEW T, T \subseteq Nat, T # {}
  PROVE  \E n \in T : \A m \in T : n <= m
<1>1. \E n \in T : \A m \in T : ~(<<m, n>> \in OpToRel(<, Nat))
  BY NatLessThanWellFounded, WFMin
<1>2. OpToRel(<, Nat) = {p \in Nat \X Nat : p[1] < p[2]}
  BY DEF OpToRel
<1>3. PICK n \in T : \A m \in T : ~(<<m, n>> \in {p \in Nat \X Nat : p[1] < p[2]})
  BY <1>1, <1>2
<1>4. ASSUME NEW m \in T PROVE n <= m
  <2>1. m \in Nat /\ n \in Nat
    BY <1>4
  <2>2. m < n => <<m, n>> \in {p \in Nat \X Nat : p[1] < p[2]}
    BY <2>1
  <2> QED BY <1>3, <2>1, <2>2
<1> QED BY <1>4

(* A set of sequences of bounded length has a longest one.                 *)
LEMMA LongestOf ==
  ASSUME NEW S, NEW T, T \subseteq Seq(S), T # {}, NEW n \in Nat, \A b \in T : Len(b) <= n
  PROVE  \E b \in T : \A c \in T : Len(c) <= Len(b)
<1> DEFINE Bounds == {m \in Nat : \A b \in T : Len(b) <= m}
<1>1. Bounds \subseteq Nat /\ n \in Bounds
  OBVIOUS
<1>2. PICK m \in Bounds : \A k \in Bounds : m <= k
  BY <1>1, LeastNumber
<1>3. \A b \in T : Len(b) \in Nat /\ Len(b) <= m
  BY <1>2
<1>4. CASE \E b \in T : Len(b) = m
  BY <1>3, <1>4
<1>5. CASE \A b \in T : Len(b) # m
  <2>1. m \in Nat
    BY <1>2
  <2>2. PICK b \in T : TRUE
    OBVIOUS
  <2>3. m # 0
    BY <1>3, <1>5, <2>1, <2>2
  <2>4. \A c \in T : Len(c) <= m - 1
    BY <1>3, <1>5, <2>1
  <2>5. m - 1 \in Bounds
    BY <2>1, <2>3, <2>4
  <2> HIDE DEF Bounds
  <2>6. m <= m - 1
    BY <1>2, <2>5
  <2> QED BY <2>1, <2>6
<1> QED BY <1>4, <1>5

(* A block is a sequence, and so are its ancestors.                        *)
LEMMA AncestorType ==
  ASSUME NEW S, NEW b \in Seq(S)
  PROVE  /\ b \in Ancestors(b)
         /\ \A c \in Ancestors(b) :
              /\ c \in Seq(S) /\ Len(c) \in 0..Len(b) /\ c = SubSeq(b, 1, Len(c))
<1>1. SubSeq(b, 1, Len(b)) = b /\ Len(b) \in Nat
  OBVIOUS
<1>2. \A h \in 0..Len(b) : SubSeq(b, 1, h) \in Seq(S) /\ Len(SubSeq(b, 1, h)) = h
  OBVIOUS
<1>3. ASSUME NEW c \in Ancestors(b)
      PROVE  c \in Seq(S) /\ Len(c) \in 0..Len(b) /\ c = SubSeq(b, 1, Len(c))
  <2>1. PICK h \in 0..Len(b) : c = SubSeq(b, 1, h)
    BY DEF Ancestors
  <2> QED BY <2>1, <1>2
<1>4. b \in Ancestors(b)
  <2>1. Len(b) \in 0..Len(b)
    BY <1>1
  <2> QED BY <1>1, <2>1 DEF Ancestors
<1> QED BY <1>3, <1>4

(* Ancestors of one block are ordered by their lengths.                    *)
LEMMA AncestorsOrdered ==
  ASSUME NEW S, NEW b \in Seq(S), NEW c \in Ancestors(b), NEW d \in Ancestors(b), Len(d) <= Len(c)
  PROVE  d \in Ancestors(c)
<1>1. /\ c \in Seq(S) /\ Len(c) \in 0..Len(b) /\ c = SubSeq(b, 1, Len(c))
      /\ d \in Seq(S) /\ Len(d) \in 0..Len(b) /\ d = SubSeq(b, 1, Len(d))
  BY AncestorType
<1>2. \A n \in 0..Len(b) : \A m \in 0..n : SubSeq(SubSeq(b, 1, n), 1, m) = SubSeq(b, 1, m)
  OBVIOUS
<1>3. Len(d) \in 0..Len(c) /\ d = SubSeq(c, 1, Len(d))
  BY <1>1, <1>2
<1> QED BY <1>3 DEF Ancestors

(* Being an ancestor is transitive.                                        *)
LEMMA AncestorsOfAncestor ==
  ASSUME NEW S, NEW b \in Seq(S), NEW c \in Ancestors(b)
  PROVE  Ancestors(c) \subseteq Ancestors(b)
<1>1. c \in Seq(S) /\ Len(c) \in 0..Len(b) /\ c = SubSeq(b, 1, Len(c))
  BY AncestorType
<1>2. \A n \in 0..Len(b) : \A m \in 0..n : SubSeq(SubSeq(b, 1, n), 1, m) = SubSeq(b, 1, m)
  OBVIOUS
<1>3. \A m \in 0..Len(c) : m \in 0..Len(b) /\ SubSeq(c, 1, m) = SubSeq(b, 1, m)
  BY <1>1, <1>2
<1> QED BY <1>3 DEF Ancestors

(* Ancestors of one block that are equally high are the same.              *)
LEMMA SameHeight ==
  ASSUME NEW S, NEW b \in Seq(S), NEW c \in Ancestors(b), NEW d \in Ancestors(b), Len(c) = Len(d)
  PROVE  c = d
BY AncestorType

(* A block has an ancestor at each height up to its own.                   *)
LEMMA AncestorAt ==
  ASSUME NEW S, NEW b \in Seq(S), NEW h \in 0..Len(b)
  PROVE  /\ SubSeq(b, 1, h) \in Ancestors(b) /\ SubSeq(b, 1, h) \in Seq(S)
         /\ Len(SubSeq(b, 1, h)) = h
BY DEF Ancestors

(* The parent of a block, and what it leaves.                              *)
LEMMA ParentOf ==
  ASSUME NEW S, NEW b \in Seq(S), Len(b) >= 1
  PROVE  /\ Front(b) \in Seq(S) /\ Len(Front(b)) = Len(b) - 1 /\ Front(b) \in Ancestors(b)
         /\ Ancestors(b) = Ancestors(Front(b)) \cup {b}
<1>1. Len(b) \in Nat /\ Len(b) - 1 \in 0..Len(b)
  OBVIOUS
<1>2. Front(b) = SubSeq(b, 1, Len(b) - 1)
  BY DEF Front
<1>3. Front(b) \in Seq(S) /\ Len(Front(b)) = Len(b) - 1 /\ Front(b) \in Ancestors(b)
  BY <1>1, <1>2, AncestorAt
<1>4. Ancestors(Front(b)) \subseteq Ancestors(b) /\ b \in Ancestors(b)
  BY <1>3, AncestorsOfAncestor, AncestorType
<1>5. ASSUME NEW c \in Ancestors(b), c # b PROVE c \in Ancestors(Front(b))
  <2>1. Len(c) \in 0..Len(b) /\ c = SubSeq(b, 1, Len(c)) /\ b = SubSeq(b, 1, Len(b))
    BY AncestorType
  <2>2. Len(c) <= Len(Front(b))
    BY <1>1, <1>3, <1>5, <2>1
  <2> QED BY <1>3, <2>2, AncestorsOrdered
<1> QED BY <1>3, <1>4, <1>5

(* The genesis block has no parent, is its own in the model, and is an     *)
(* ancestor of every block.                                                *)
LEMMA GenesisBlock ==
  ASSUME NEW S, NEW b \in Seq(S)
  PROVE  /\ Len(b) = 0 <=> b = <<>>
         /\ <<>> \in Ancestors(b)
<1>1. Len(b) = 0 <=> b = <<>>
  OBVIOUS
<1>2. 0 \in 0..Len(b) /\ SubSeq(b, 1, 0) = <<>>
  OBVIOUS
<1> QED BY <1>1, <1>2 DEF Ancestors

(* The blocks of the model are such sequences.                             *)
LEMMA MinedTypes ==
  ASSUME NEW b \in Mined
  PROVE  /\ b \in Seq(Branches) /\ Len(b) \in Nat /\ Ancestors(b) \subseteq Mined
BY NodeAssumption

(* What builds on a bad block does so with its descendants.                *)
LEMMA BuildsOnAncestor ==
  ASSUME NEW b \in Mined, NEW c \in Ancestors(b), NEW bad, BuildsOn(c, bad)
  PROVE  BuildsOn(b, bad)
<1>1. Ancestors(c) \subseteq Ancestors(b)
  BY MinedTypes, AncestorsOfAncestor
<1> QED BY <1>1 DEF BuildsOn

-----------------------------------------------------------------------------
(* The steps of the node.                                                  *)

(* Headers, blocks and verdicts are kept, and the chain gets no shorter.   *)
NodeGrows ==
  /\ known \subseteq known' /\ held \subseteq held' /\ failed \subseteq failed'
  /\ Len(active) <= Len(active')

(* What the invariant says of single blocks.                               *)
LEMMA NodeTypes ==
  ASSUME NodeInv
  PROVE  /\ known \subseteq Mined /\ held \subseteq known /\ failed \subseteq Rejected \cap held
         /\ active \in held /\ Ancestors(active) \subseteq held /\ best \in known
         /\ active \in Mined /\ best \in Mined
         /\ Len(active) \in Nat /\ Len(best) \in Nat /\ <<>> \in known
<1>1. /\ known \subseteq Mined /\ held \subseteq known /\ failed \subseteq Rejected \cap held
      /\ active \in held /\ Ancestors(active) \subseteq held /\ best \in known
  BY DEF NodeInv, NodeTypeOK, Connected
<1>2. active \in Mined /\ best \in Mined
  BY <1>1
<1>3. <<>> \in Ancestors(active)
  BY <1>2, MinedTypes, GenesisBlock
<1> QED BY <1>1, <1>2, <1>3, MinedTypes

(* A header whose parent is known leaves the headers closed.               *)
LEMMA HeaderJoins ==
  ASSUME NodeInv, NEW b \in Mined, b \in known \/ Front(b) \in known, known' = known \cup {b}
  PROVE  HeadersClosed'
<1>1. b \in Seq(Branches) /\ Len(b) \in Nat
  BY MinedTypes
<1>2. Ancestors(b) \subseteq known'
  <2>1. CASE b \in known
    BY <2>1 DEF NodeInv, HeadersClosed
  <2>2. CASE Len(b) = 0
    <3>1. b \in known
      BY <2>2, <1>1, GenesisBlock, NodeTypes
    <3> QED BY <3>1, <2>1
  <2>3. CASE Front(b) \in known /\ Len(b) # 0
    <3>1. Ancestors(b) = Ancestors(Front(b)) \cup {b}
      BY <1>1, <2>3, ParentOf
    <3>2. Ancestors(Front(b)) \subseteq known
      BY <2>3 DEF NodeInv, HeadersClosed
    <3> QED BY <3>1, <3>2
  <2> QED BY <2>1, <2>2, <2>3
<1>3. \A c \in known' : Ancestors(c) \subseteq known'
  BY <1>2 DEF NodeInv, HeadersClosed
<1>4. \E n \in Nat : \A c \in known' : Len(c) <= n
  <2>1. PICK n \in Nat : \A c \in known : Len(c) <= n
    BY DEF NodeInv, HeadersClosed
  <2>2. \A c \in known' : Len(c) \in Nat
    BY NodeTypes, MinedTypes
  <2>3. \A c \in known' : Len(c) <= n + Len(b)
    BY <2>1, <2>2, <1>1
  <2> QED BY <2>3, <1>1
<1> QED BY <1>3, <1>4 DEF HeadersClosed

(* A block that is stored.                                                 *)
LEMMA StoreBlockKeeps ==
  ASSUME NodeInv, NEW b \in Mined, b \in known \/ Front(b) \in known, StoreBlock(b)
  PROVE  NodeInv' /\ NodeGrows /\ b \in held'
<1> DEFINE longer == {c \in Connected(held \cup {b}) : Len(c) > Len(active)}
           viable == {c \in longer : ~BuildsOn(c, Rejected)} \cup {active}
           header == IF Len(b) > Len(best) THEN b ELSE best
<1>1. /\ held' = held \cup {b}
      /\ known' = known \cup {b}
      /\ failed' = failed \cup {r \in Rejected : \E c \in longer : r \in Ancestors(c)}
      /\ active' \in viable /\ \A d \in viable : Len(d) <= Len(active')
      /\ best' = IF BuildsOn(header, failed') THEN active' ELSE header
  BY DEF StoreBlock
<1>2. Connected(held)' = Connected(held \cup {b})
  BY <1>1 DEF Connected
<1>3. Connected(held) \subseteq Connected(held)' /\ Connected(held)' \subseteq held'
  BY <1>1 DEF Connected
<1>4. \A c \in longer : c \in Connected(held)' /\ Ancestors(c) \subseteq held' /\ Len(c) > Len(active)
  BY <1>2, <1>3 DEF Connected
<1>5. active \in Connected(held)
  BY DEF NodeInv, NodeTypeOK
<1>6. active' \in Connected(held)' /\ ~BuildsOn(active', Rejected)
  BY <1>1, <1>3, <1>4, <1>5 DEF NodeInv, ActiveIsBest
<1>7. Len(active) <= Len(active')
  BY <1>1
<1>8. active \in Mined /\ \A c \in held' : c \in Mined /\ Len(c) \in Nat
  BY <1>1, NodeTypes, MinedTypes
<1> HIDE DEF longer, viable
<1>9. HeadersClosed'
  BY <1>1, HeaderJoins
<1>10. FailedConnected'
  <2>1. ASSUME NEW r \in failed
        PROVE  Ancestors(r) \subseteq held' /\ Ancestors(r) \cap Rejected \subseteq failed'
    BY <1>1, <2>1 DEF NodeInv, FailedConnected
  <2>2. ASSUME NEW r \in Rejected, NEW c \in longer, r \in Ancestors(c)
        PROVE  Ancestors(r) \subseteq held' /\ Ancestors(r) \cap Rejected \subseteq failed'
    <3>1. c \in Mined
      BY <1>3, <1>4, <1>8
    <3>2. Ancestors(r) \subseteq Ancestors(c)
      BY <2>2, <3>1, MinedTypes, AncestorsOfAncestor
    <3> QED BY <1>1, <1>4, <3>2
  <2> QED BY <1>1, <2>1, <2>2 DEF FailedConnected
<1>11. ActiveIsBest'
  <2> SUFFICES ASSUME NEW c \in Connected(held)', Len(c) > Len(active') PROVE BuildsOn(c, failed')
    BY <1>6 DEF ActiveIsBest
  <2>1. Len(c) > Len(active)
    BY <1>3, <1>6, <1>7, <1>8
  <2>2. c \in longer
    BY <1>2, <2>1 DEF longer
  <2>3. c \notin viable
    BY <1>1, <1>3, <1>6, <1>8
  <2>4. PICK r \in Ancestors(c) : r \in Rejected
    BY <2>2, <2>3 DEF viable, BuildsOn
  <2>5. r \in failed'
    BY <1>1, <2>2, <2>4
  <2> QED BY <2>4, <2>5 DEF BuildsOn
<1>12. NodeTypeOK'
  <2>1. failed' \subseteq Rejected \cap held'
    BY <1>1, <1>4 DEF NodeInv, NodeTypeOK
  <2>2. best' \in known'
    BY <1>1, <1>3, <1>6 DEF NodeInv, NodeTypeOK
  <2> QED BY <1>1, <1>6, <2>1, <2>2 DEF NodeInv, NodeTypeOK
<1> QED BY <1>1, <1>7, <1>9, <1>10, <1>11, <1>12 DEF NodeInv, NodeGrows

(* A header that arrives.                                                  *)
LEMMA HearHeaderKeeps ==
  ASSUME NodeInv, NEW b \in Mined, HearHeader(b)
  PROVE  NodeInv' /\ NodeGrows
<1>1. /\ known' = known \cup {b} /\ Front(b) \in known
      /\ best' = IF Len(b) > Len(best) THEN b ELSE best
      /\ UNCHANGED <<held, failed, active>>
  BY DEF HearHeader
<1>2. HeadersClosed'
  BY <1>1, HeaderJoins
<1>3. NodeTypeOK' /\ FailedConnected' /\ ActiveIsBest'
  BY <1>1 DEF NodeInv, NodeTypeOK, FailedConnected, ActiveIsBest
<1> QED BY <1>1, <1>2, <1>3, NodeTypes DEF NodeInv, NodeGrows

(* A node that is left alone.                                              *)
LEMMA NodeRests ==
  ASSUME NodeInv, UNCHANGED nodeVars
  PROVE  NodeInv' /\ NodeGrows
BY NodeTypes DEF nodeVars, NodeInv, NodeTypeOK, HeadersClosed, FailedConnected, ActiveIsBest, NodeGrows

(* A block from the run.                                                   *)
LEMMA SubmittedKeeps ==
  ASSUME NodeInv, NEW b \in Mined, NEW answer, Submitted(b, answer)
  PROVE  NodeInv' /\ NodeGrows
<1>1. CASE UNCHANGED nodeVars
  BY <1>1, NodeRests
<1>2. CASE (b \in known \/ Front(b) \in known) /\ StoreBlock(b)
  BY <1>2, StoreBlockKeeps
<1> QED BY <1>1, <1>2 DEF Submitted

(* Blocks and headers from the peers.                                      *)
LEMMA PeersKeep ==
  ASSUME NodeInv, NEW b \in Mined, HearHeader(b) \/ HearBlock(b)
  PROVE  NodeInv' /\ NodeGrows
<1>1. CASE HearHeader(b)
  BY <1>1, HearHeaderKeeps
<1>2. CASE HearBlock(b)
  BY <1>2, StoreBlockKeeps DEF HearBlock
<1> QED BY <1>1, <1>2

-----------------------------------------------------------------------------
(* The steps of the run.                                                   *)

(* A height lies in the range that starts at its StartHeight.              *)
LEMMA StartHeightBounds ==
  ASSUME NEW h \in Nat
  PROVE  StartHeight(h) \in Nat /\ StartHeight(h) <= h /\ h <= EndOfRange(StartHeight(h))
<1> DEFINE q == h \div RangeSize
           r == h % RangeSize
<1>1. q \in Nat /\ r \in 0..(RangeSize - 1) /\ h = RangeSize * q + r
  BY RangeSizeAssumption
<1>2. RangeSize * q = q * RangeSize /\ q * RangeSize \in Nat
  BY <1>1, RangeSizeAssumption
<1> HIDE DEF q, r
<1>3. q * RangeSize <= h /\ h <= q * RangeSize + RangeSize - 1
  BY <1>1, <1>2, RangeSizeAssumption
<1> QED BY <1>2, <1>3 DEF StartHeight, EndOfRange, q

(* The main branch and its blocks.                                         *)
LEMMA MainTypes == Main \in Mined /\ Main \in Seq(Branches) /\ Len(Main) \in Nat
BY SubmitAssumption, MinedTypes

(* The heights a run has in hand.                                          *)
LEMMA LocalTypes ==
  ASSUME SubmitInv
  PROVE  /\ target \in Nat /\ headers \in Nat /\ walked \in Nat /\ RecentWalkLimit \in Nat
         /\ hash \in Mined /\ hash \in Seq(Branches) /\ Len(hash) \in Nat
BY MinedTypes, SubmitAssumption DEF SubmitInv, Locals

(* A run that ends keeps nothing but what it counted.                      *)
LEMMA EndRunKeeps ==
  ASSUME NodeInv', BucketInv', NEW how, EndRun(how), how \notin {"noTip", "passedTarget"},
         counted' \in Mined \cup {NoBlock}
  PROVE  SubmitInv'
<1>1. <<>> \in Mined
  BY MainTypes, GenesisBlock, MinedTypes
<1>2. \E b \in known' : 0 <= Len(b)
  <2>1. known' \subseteq Mined /\ active' \in known'
    BY DEF NodeInv, NodeTypeOK, Connected
  <2>2. Len(active') \in Nat
    BY <2>1, MinedTypes
  <2> QED BY <2>1, <2>2
<1>3. /\ pc' = "idle" /\ target' = 0 /\ headers' = 0 /\ hash' = <<>> /\ walked' = 0
      /\ missing' = {} /\ outcome' = how
  BY DEF EndRun
<1>4. Locals'
  BY <1>1, <1>3, SubmitAssumption DEF Locals
<1>5. HeadersHeard' /\ Walking' /\ HashFound' /\ NextToActive'
  BY <1>2, <1>3 DEF HeadersHeard, Walking, HashFound, Found, NextToActive
<1> QED BY <1>3, <1>4, <1>5 DEF SubmitInv

(* A run begins, or goes on with the next height.                          *)
LEMMA ResolveKeeps ==
  ASSUME SubmitInv, NodeInv', BucketInv', NEW height \in Nat \ {0}, NEW tipHeaders \in Nat,
         Resolve(height, tipHeaders), counted' \in Mined \cup {NoBlock},
         \E b \in known' : tipHeaders <= Len(b),
         MainIsValid /\ OneBranch' => height <= Len(active') + 1
  PROVE  SubmitInv'
<1>1. CASE EndRun("waitHeaders")
  BY <1>1, EndRunKeeps
<1>2. CASE /\ pc' = "readIndex" /\ target' = height /\ headers' = tipHeaders /\ outcome' = "none"
           /\ UNCHANGED <<searchVars, missing>>
  <2>1. Locals'
    BY <1>2 DEF SubmitInv, Locals, searchVars
  <2>2. HeadersHeard' /\ Walking' /\ HashFound'
    BY <1>2 DEF HeadersHeard, Walking, HashFound, Found
  <2>3. NextToActive'
    BY <1>2 DEF NextToActive, MainIsValid
  <2> QED BY <1>2, <2>1, <2>2, <2>3 DEF SubmitInv
<1> QED BY <1>1, <1>2 DEF Resolve

(* One branch now is one branch before.                                    *)
LEMMA OneBranchBefore ==
  ASSUME NodeGrows, OneBranch'
  PROVE  OneBranch
BY DEF NodeGrows, OneBranch

(* What others do while the run waits for its next call.                   *)
LEMMA OthersKeep ==
  ASSUME SubmitInv, NodeInv', BucketInv', NodeGrows, UNCHANGED runVars
  PROVE  SubmitInv'
<1>1. /\ UNCHANGED <<pc, target, headers, hash, walked, missing, counted, outcome>>
  BY DEF runVars, searchVars
<1>2. known \subseteq known'
  BY DEF NodeGrows
<1>3. Locals'
  BY <1>1 DEF SubmitInv, Locals
<1>4. HeadersHeard' /\ Walking' /\ HashFound'
  BY <1>1, <1>2 DEF SubmitInv, HeadersHeard, Walking, HashFound, Found
<1>5. NextToActive'
  <2>1. Len(active) <= Len(active') /\ Len(active) \in Nat /\ Len(active') \in Nat
    <3>1. active' \in Mined
      BY DEF NodeInv, NodeTypeOK, Connected
    <3> QED BY <3>1, NodeTypes, MinedTypes DEF NodeGrows, SubmitInv
  <2> QED BY <1>1, <2>1, OneBranchBefore, LocalTypes DEF SubmitInv, NextToActive, MainIsValid
<1> QED BY <1>1, <1>3, <1>4, <1>5 DEF SubmitInv

(* A run's own calls that change neither the node nor the bucket.          *)
LEMMA WorldRests ==
  ASSUME SubmitInv, UNCHANGED <<nodeVars, bucketVars>>
  PROVE  NodeInv' /\ NodeGrows /\ BucketInv' /\ known' = known /\ active' = active
BY NodeRests DEF SubmitInv, BucketInv, bucketVars, nodeVars

(* Every other call that moves the run on within its target: what it found *)
(* or where it walks is all there is to show.                              *)
LEMMA SameTarget ==
  ASSUME SubmitInv, UNCHANGED <<nodeVars, bucketVars, target, headers, counted, outcome>>,
         pc # "idle", pc' \in {"readTips", "walk", "download", "submit", "checkHeight"},
         pc' \in {"readTips", "walk"} => target <= headers,
         hash' \in Mined, walked' \in 0..RecentWalkLimit, \A s \in missing' : s \in Nat,
         Walking', HashFound'
  PROVE  SubmitInv'
<1>1. NodeInv' /\ BucketInv' /\ known' = known /\ active' = active
  BY WorldRests
<1>2. Locals'
  BY DEF SubmitInv, Locals
<1>3. HeadersHeard'
  BY <1>1 DEF SubmitInv, HeadersHeard
<1>4. NextToActive'
  BY <1>1 DEF SubmitInv, NextToActive, MainIsValid, OneBranch
<1> QED BY <1>1, <1>2, <1>3, <1>4 DEF SubmitInv

(* The call of GetBlockchainInfo starts the run above the active chain.    *)
LEMMA GetBlockchainInfoKeeps ==
  ASSUME SubmitInv, GetBlockchainInfo
  PROVE  SubmitInv'
<1>1. /\ Resolve(NextHeight, Len(best)) /\ counted' = NoBlock /\ UNCHANGED <<nodeVars, bucketVars>>
  BY DEF GetBlockchainInfo
<1>2. NodeInv' /\ BucketInv' /\ known' = known /\ active' = active
  BY <1>1, WorldRests
<1>3. best \in known /\ Len(best) \in Nat /\ Len(active) \in Nat
  BY NodeTypes DEF SubmitInv
<1>4. NextHeight \in Nat \ {0} /\ NextHeight <= Len(active') + 1
  BY <1>2, <1>3 DEF NextHeight
<1>5. \E b \in known' : Len(best) <= Len(b)
  BY <1>2, <1>3
<1> QED BY <1>1, <1>2, <1>3, <1>4, <1>5, ResolveKeeps

(* An index answers with the main branch's block at the target.            *)
LEMMA IndexFoundKeeps ==
  ASSUME SubmitInv, IndexFound
  PROVE  SubmitInv'
<1> DEFINE s == StartHeight(target)
<1>1. /\ pc = "readIndex" /\ s \in DOMAIN index /\ pc' = "download" /\ hash' = index[s][target]
      /\ UNCHANGED <<nodeVars, bucketVars, target, headers, walked, missing, counted, outcome>>
  BY DEF IndexFound, HashAt
<1>2. s \in Nat /\ EndOfRange(s) <= Len(Main) /\ index[s] = [h \in RangeHeights(s) |-> SubSeq(Main, 1, h)]
  BY <1>1 DEF SubmitInv, BucketInv
<1>3. target \in Nat /\ s <= target /\ target <= EndOfRange(s) /\ EndOfRange(s) \in Nat
  <2>1. target \in Nat
    BY LocalTypes
  <2>2. s \in Nat /\ s <= target /\ target <= EndOfRange(s)
    BY <2>1, StartHeightBounds
  <2>3. EndOfRange(s) \in Nat
    BY <2>2, RangeSizeAssumption DEF EndOfRange
  <2> QED BY <2>1, <2>2, <2>3
<1> HIDE DEF s
<1>4. target \in RangeHeights(s) /\ target \in 0..Len(Main)
  BY <1>2, <1>3, MainTypes DEF RangeHeights
<1>5. hash' = SubSeq(Main, 1, target)
  BY <1>1, <1>2, <1>4
<1>6. hash' \in Ancestors(Main) /\ Len(hash') = target
  BY <1>4, <1>5, AncestorAt, MainTypes
<1>7. hash' \in Mined /\ HashFound' /\ Walking'
  BY <1>1, <1>6, MainTypes, MinedTypes DEF HashFound, Walking
<1> QED BY <1>1, <1>7, SameTarget DEF SubmitInv, Locals

(* Without one the run walks, or waits.                                    *)
LEMMA IndexMissingKeeps ==
  ASSUME SubmitInv, IndexMissing
  PROVE  SubmitInv'
<1>1. UNCHANGED <<nodeVars, bucketVars, counted>> /\ pc = "readIndex"
  BY DEF IndexMissing
<1>2. CASE EndRun("waitIndex")
  BY <1>1, <1>2, WorldRests, EndRunKeeps DEF SubmitInv, Locals
<1>3. CASE /\ ~(target > headers) /\ pc' = "readTips"
           /\ missing' = IF Follow THEN missing \cup {StartHeight(target)} ELSE {}
           /\ UNCHANGED <<target, headers, searchVars, outcome>>
  <2>1. \A s \in missing' : s \in Nat
    BY <1>3, LocalTypes, StartHeightBounds DEF SubmitInv, Locals
  <2>2. target <= headers
    BY <1>3, LocalTypes
  <2>3. Walking' /\ HashFound'
    BY <1>3 DEF Walking, HashFound, Found
  <2> QED BY <1>1, <1>3, <2>1, <2>2, <2>3, SameTarget DEF SubmitInv, Locals, searchVars
<1> QED BY <1>2, <1>3 DEF IndexMissing

(* A known block is below a tip, and one the node has not found invalid    *)
(* is below a tip it has not found invalid, or no higher than its chain.   *)
LEMMA TipAbove ==
  ASSUME NodeInv, NEW b \in known
  PROVE  /\ \E c \in ChainTips : Len(b) <= Len(c)
         /\ ~BuildsOn(b, failed) =>
              \E c \in ChainTips : Len(b) <= Len(c) /\ ~BuildsOn(c, failed)
<1>1. known \subseteq Seq(Branches) /\ \A c \in known : Len(c) \in Nat
  BY NodeTypes, MinedTypes
<1>2. PICK n \in Nat : \A c \in known : Len(c) <= n
  BY DEF NodeInv, HeadersClosed
<1>3. ASSUME NEW c \in known, c \notin ChainTips
      PROVE  \E d \in known : Front(d) = c /\ Len(d) = Len(c) + 1 /\ Ancestors(d) = Ancestors(c) \cup {d}
  <2>1. PICK d \in known : d # <<>> /\ Front(d) = c
    BY <1>3 DEF ChainTips
  <2>2. Len(d) >= 1 /\ d \in Seq(Branches)
    BY <1>1, <2>1, GenesisBlock
  <2> QED BY <1>1, <2>1, <2>2, ParentOf
<1>4. \E c \in ChainTips : Len(b) <= Len(c)
  <2>1. PICK c \in known : \A d \in known : Len(d) <= Len(c)
    BY <1>1, <1>2, LongestOf
  <2>2. c \in ChainTips
    BY <1>1, <1>3, <2>1
  <2> QED BY <2>1, <2>2
<1>5. ASSUME ~BuildsOn(b, failed)
      PROVE  \E c \in ChainTips : Len(b) <= Len(c) /\ ~BuildsOn(c, failed)
  <2> DEFINE Viable == {c \in known : ~BuildsOn(c, failed)}
  <2>1. b \in Viable /\ Viable \subseteq Seq(Branches) /\ \A c \in Viable : Len(c) <= n
    BY <1>1, <1>2, <1>5
  <2>2. PICK c \in Viable : \A d \in Viable : Len(d) <= Len(c)
    BY <2>1, LongestOf
  <2>3. CASE c \in ChainTips
    BY <2>1, <2>2, <2>3
  <2>4. CASE c \notin ChainTips
    <3>1. PICK d \in known : Front(d) = c /\ Len(d) = Len(c) + 1 /\ Ancestors(d) = Ancestors(c) \cup {d}
      BY <1>3, <2>2, <2>4
    <3>2. d \notin Viable
      BY <1>1, <2>2, <3>1
    <3>3. d \in failed
      BY <2>2, <3>1, <3>2 DEF BuildsOn
    <3>4. Ancestors(d) \subseteq held /\ Ancestors(d) \cap Rejected \subseteq failed
      BY <3>3 DEF NodeInv, FailedConnected
    <3>5. c \in Ancestors(c)
      BY <1>1, AncestorType
    <3>6. c \in Connected(held)
      BY <3>1, <3>4, <3>5 DEF Connected
    <3>7. ~(Len(c) > Len(active))
      BY <2>2, <3>6 DEF NodeInv, ActiveIsBest
    <3>8. active \in ChainTips /\ ~BuildsOn(active, failed)
      BY NodeTypes DEF ChainTips, NodeInv, ActiveIsBest, BuildsOn
    <3>9. Len(b) <= Len(active)
      BY <1>1, <2>1, <2>2, <3>7, NodeTypes
    <3> QED BY <3>8, <3>9
  <2> QED BY <2>3, <2>4
<1> QED BY <1>4, <1>5

(* A tip as high as the target is there, and the walk starts at one.       *)
LEMMA ReadTipsKeeps ==
  ASSUME SubmitInv, ReadTips
  PROVE  SubmitInv'
<1>1. pc = "readTips"
  BY DEF ReadTips
<1>2. NodeInv
  BY DEF SubmitInv
<1>3. TipsAtTarget # {}
  <2>1. PICK b \in known : headers <= Len(b) /\ target <= headers
    BY <1>1 DEF SubmitInv, HeadersHeard
  <2>2. PICK c \in ChainTips : Len(b) <= Len(c)
    BY <1>2, TipAbove
  <2>3. Len(b) \in Nat /\ Len(c) \in Nat
    BY <1>2, NodeTypes, MinedTypes DEF ChainTips
  <2>4. Len(c) >= target
    BY <2>1, <2>2, <2>3, LocalTypes
  <2> QED BY <2>4 DEF TipsAtTarget
<1>4. /\ BestChainTip(hash') /\ pc' = "walk" /\ walked' = 0
      /\ UNCHANGED <<nodeVars, bucketVars, target, headers, missing, counted, outcome>>
  BY <1>3 DEF ReadTips
<1>5. hash' \in known /\ Len(hash') >= target
  BY <1>4, <1>2, NodeTypes DEF BestChainTip, TipsAtTarget, ChainTips
<1>6. hash' \in Mined /\ Len(hash') \in Nat
  BY <1>5, <1>2, NodeTypes, MinedTypes
<1>7. Walking'
  <2>1. known' = known /\ target' = target
    BY <1>4, WorldRests
  <2>2. Len(hash') + walked' <= Len(hash') /\ target <= Len(hash')
    BY <1>4, <1>5, <1>6, LocalTypes
  <2> QED BY <1>4, <1>5, <2>1, <2>2 DEF Walking
<1>8. HashFound' /\ walked' \in 0..RecentWalkLimit /\ target <= headers
  BY <1>1, <1>4, LocalTypes DEF HashFound, Found, SubmitInv, HeadersHeard
<1> QED BY <1>1, <1>4, <1>6, <1>7, <1>8, SameTarget DEF SubmitInv, Locals

(* The walk is at its target.                                              *)
LEMMA HeaderAtTargetKeeps ==
  ASSUME SubmitInv, HeaderAtTarget
  PROVE  SubmitInv'
<1>1. /\ pc = "walk" /\ Len(hash) = target /\ pc' = "download"
      /\ UNCHANGED <<nodeVars, bucketVars, target, headers, hash, walked, missing, counted, outcome>>
  BY DEF HeaderAtTarget, searchVars
<1>2. hash \in known /\ known' = known
  BY <1>1, WorldRests DEF SubmitInv, Walking
<1>3. Walking' /\ HashFound'
  BY <1>1, <1>2 DEF Walking, HashFound
<1> QED BY <1>1, <1>3, SameTarget DEF SubmitInv, Locals

(* The walk goes down by one header.                                       *)
LEMMA HeaderElsewhereKeeps ==
  ASSUME SubmitInv, HeaderElsewhere
  PROVE  SubmitInv'
<1>1. /\ pc = "walk" /\ Len(hash) # target /\ (Len(hash) > target => ~LimitReached)
      /\ hash \in known /\ target <= Len(hash) /\ target <= headers
  BY DEF HeaderElsewhere, SubmitInv, Walking, HeadersHeard
<1>2. Len(hash) > target
  BY <1>1, LocalTypes
<1>3. /\ hash' = Front(hash) /\ walked' = walked + 1
      /\ UNCHANGED <<nodeVars, bucketVars, pc, target, headers, missing, counted, outcome>>
  BY <1>2, LocalTypes DEF HeaderElsewhere
<1>4. Len(hash) >= 1
  BY <1>2, LocalTypes
<1>5. Front(hash) \in Ancestors(hash) /\ Len(Front(hash)) = Len(hash) - 1
  BY <1>4, LocalTypes, ParentOf
<1>6. Front(hash) \in known /\ Front(hash) \in Mined
  BY <1>1, <1>5, NodeTypes DEF SubmitInv, NodeInv, HeadersClosed
<1>7. walked + 1 \in 0..RecentWalkLimit
  BY <1>1, <1>2, LocalTypes DEF LimitReached
<1>8. Walking'
  <2>1. PICK b \in known : Len(hash) + walked <= Len(b)
    BY <1>1 DEF SubmitInv, Walking
  <2>2. Len(hash') + walked' <= Len(b) /\ target <= Len(hash')
    BY <1>2, <1>3, <1>5, <2>1, LocalTypes
  <2>3. known' = known
    BY <1>3, WorldRests
  <2> QED BY <1>3, <1>6, <2>2, <2>3 DEF Walking
<1>9. HashFound'
  BY <1>1, <1>3 DEF HashFound, Found
<1> QED BY <1>1, <1>3, <1>6, <1>7, <1>8, <1>9, SameTarget DEF SubmitInv, Locals

(* The block is there, and is submitted next.                              *)
LEMMA DownloadKeeps ==
  ASSUME SubmitInv, Download
  PROVE  SubmitInv'
<1>1. /\ pc = "download" /\ pc' = "submit"
      /\ UNCHANGED <<nodeVars, bucketVars, target, headers, hash, walked, missing, counted, outcome>>
  BY DEF Download, searchVars
<1>2. Walking' /\ HashFound'
  BY <1>1, WorldRests DEF Walking, HashFound, Found, SubmitInv
<1> QED BY <1>1, <1>2, SameTarget DEF SubmitInv, Locals

(* With one branch, what was found is on it, and so is the active chain.   *)
LEMMA OnMain ==
  ASSUME SubmitInv, NodeInv', NodeGrows, OneBranch', Found
  PROVE  /\ hash \in Ancestors(Main) /\ active' \in Ancestors(Main) /\ active \in Ancestors(Main)
         /\ Len(hash) = target /\ Len(active) \in Nat /\ Len(active') \in Nat
         /\ Len(active') >= target => hash \in Ancestors(active')
<1>1. OneBranch
  BY OneBranchBefore
<1>2. hash \in Ancestors(Main) /\ Len(hash) = target
  BY <1>1 DEF SubmitInv, HashFound, OneBranch
<1>3. active \in Ancestors(Main) /\ active' \in Ancestors(Main)
  BY <1>1 DEF SubmitInv, NodeInv, NodeTypeOK, Connected, OneBranch
<1>4. Len(active) \in Nat /\ Len(active') \in Nat
  BY <1>3, MainTypes, AncestorType
<1>5. Len(active') >= target => hash \in Ancestors(active')
  BY <1>2, <1>3, <1>4, MainTypes, LocalTypes, AncestorsOrdered
<1> QED BY <1>2, <1>3, <1>4, <1>5

(* With one branch, the parent of what was found is held.                  *)
LEMMA ParentHeld ==
  ASSUME SubmitInv, MainIsValid, OneBranch, Found
  PROVE  /\ Front(hash) \in held
         /\ Len(active) < target => Ancestors(hash) = Ancestors(active) \cup {hash}
<1>1. hash \in Ancestors(Main) /\ Len(hash) = target /\ target >= 1
  BY DEF SubmitInv, HashFound, OneBranch, Locals, Found
<1>2. active \in Ancestors(Main) /\ Len(active) \in Nat /\ Ancestors(active) \subseteq held
  BY NodeTypes DEF SubmitInv, OneBranch
<1>3. target <= Len(active) + 1
  BY DEF SubmitInv, NextToActive, Found
<1>4. /\ Len(Front(hash)) = Len(hash) - 1 /\ Front(hash) \in Ancestors(hash)
      /\ Ancestors(hash) = Ancestors(Front(hash)) \cup {hash}
  BY <1>1, LocalTypes, ParentOf
<1>5. Front(hash) \in Ancestors(Main)
  BY <1>1, <1>4, MainTypes, AncestorsOfAncestor
<1>6. Front(hash) \in Ancestors(active)
  BY <1>1, <1>2, <1>3, <1>4, <1>5, MainTypes, LocalTypes, AncestorsOrdered
<1>7. Len(active) < target => Front(hash) = active
  BY <1>1, <1>2, <1>3, <1>4, <1>5, MainTypes, LocalTypes, SameHeight
<1> QED BY <1>2, <1>4, <1>6, <1>7

(* With one valid branch, an answer counts only if the chain has got there.*)
LEMMA AcceptedIsActive ==
  ASSUME SubmitInv, MainIsValid, OneBranch', pc = "submit",
         NEW answer, Submitted(hash, answer), CountsAsSubmitted(answer)
  PROVE  hash \in Ancestors(active') /\ target <= Len(active')
<1>1. NodeInv' /\ NodeGrows
  BY SubmittedKeeps, LocalTypes DEF SubmitInv
<1>2. Found /\ OneBranch
  BY <1>1, OneBranchBefore DEF Found
<1>3. /\ hash \in Ancestors(Main) /\ active' \in Ancestors(Main) /\ Len(hash) = target
      /\ Len(active) \in Nat /\ Len(active') \in Nat
      /\ Len(active') >= target => hash \in Ancestors(active')
  BY <1>1, <1>2, OnMain
<1>4. ~BuildsOn(hash, failed)
  <2>1. Ancestors(hash) \subseteq Ancestors(Main) /\ failed \subseteq Rejected
    BY <1>3, MainTypes, AncestorsOfAncestor, NodeTypes DEF SubmitInv
  <2> QED BY <2>1 DEF BuildsOn, MainIsValid
<1>5. CASE answer = "null" /\ hash \in Ancestors(active')
  <2>1. active' \in Seq(Branches)
    BY <1>3, MainTypes, AncestorType
  <2> QED BY <1>3, <1>5, <2>1, AncestorType
<1>6. CASE hash \in held /\ UNCHANGED nodeVars
  <2>1. active' = active
    BY <1>6 DEF nodeVars
  <2>2. CASE Len(active) < target
    <3>1. Ancestors(hash) = Ancestors(active) \cup {hash}
      BY <1>2, <2>2, ParentHeld
    <3>2. hash \in Connected(held)
      BY <1>6, <3>1, NodeTypes DEF Connected, SubmitInv
    <3>3. BuildsOn(hash, failed)
      BY <1>3, <2>2, <3>2, LocalTypes DEF SubmitInv, NodeInv, ActiveIsBest
    <3> QED BY <3>3, <1>4
  <2> QED BY <1>3, <2>1, <2>2, LocalTypes
<1> QED BY <1>4, <1>5, <1>6 DEF Submitted, CountsAsSubmitted, Known

(* The block counts.                                                       *)
LEMMA CountKeeps ==
  ASSUME SubmitInv, NodeInv', BucketInv', NodeGrows, Found, Count,
         MainIsValid /\ OneBranch' => target <= Len(active')
  PROVE  SubmitInv'
<1>1. counted' \in Mined
  BY LocalTypes DEF Count
<1>2. CASE Follow /\ Resolve(target + 1, headers)
  <2>1. target + 1 \in Nat \ {0} /\ headers \in Nat
    BY LocalTypes
  <2>2. \E b \in known' : headers <= Len(b)
    BY DEF SubmitInv, HeadersHeard, NodeGrows
  <2>3. Len(active') \in Nat
    <3>1. active' \in Mined
      BY DEF NodeInv, NodeTypeOK, Connected
    <3> QED BY <3>1, MinedTypes
  <2>4. MainIsValid /\ OneBranch' => target + 1 <= Len(active') + 1
    BY <2>3, LocalTypes
  <2> QED BY <1>1, <1>2, <2>1, <2>2, <2>4, ResolveKeeps
<1>3. CASE EndRun("submitted")
  BY <1>1, <1>3, EndRunKeeps
<1> QED BY <1>2, <1>3 DEF Count

(* submitblock is answered.                                                *)
LEMMA SubmitBlockKeeps ==
  ASSUME SubmitInv, SubmitBlock
  PROVE  SubmitInv'
<1>1. PICK answer \in Answers :
        /\ Submitted(hash, answer)
        /\ IF CountsAsSubmitted(answer) THEN Count ELSE EndRun("refused") /\ UNCHANGED counted
  BY DEF SubmitBlock
<1>2. pc = "submit" /\ UNCHANGED bucketVars /\ Found
  BY DEF SubmitBlock, Found
<1>3. NodeInv' /\ NodeGrows /\ BucketInv'
  BY <1>1, <1>2, SubmittedKeeps, LocalTypes DEF SubmitInv, BucketInv, bucketVars
<1>4. CASE CountsAsSubmitted(answer) /\ Count
  <2>1. MainIsValid /\ OneBranch' => target <= Len(active')
    BY <1>1, <1>2, <1>4, AcceptedIsActive
  <2> QED BY <1>2, <1>3, <1>4, <2>1, CountKeeps
<1>5. CASE EndRun("refused") /\ UNCHANGED counted
  BY <1>3, <1>5, EndRunKeeps DEF SubmitInv, Locals
<1> QED BY <1>1, <1>4, <1>5

(* submitblock fails, whatever has become of the block.                    *)
LEMMA SubmitFailsKeeps ==
  ASSUME SubmitInv, SubmitFails
  PROVE  SubmitInv'
<1>1. pc = "submit" /\ UNCHANGED <<bucketVars, counted>>
  BY DEF SubmitFails
<1>2. NodeInv' /\ NodeGrows /\ BucketInv'
  <2>1. BucketInv'
    BY <1>1 DEF SubmitInv, BucketInv, bucketVars
  <2>2. CASE UNCHANGED nodeVars
    BY <2>1, <2>2, NodeRests DEF SubmitInv
  <2>3. ASSUME NEW answer \in Answers, Submitted(hash, answer)
        PROVE  NodeInv' /\ NodeGrows
    BY <2>3, SubmittedKeeps, LocalTypes DEF SubmitInv
  <2> QED BY <2>1, <2>2, <2>3 DEF SubmitFails
<1>3. CASE pc' = "checkHeight" /\ UNCHANGED <<target, headers, searchVars, missing, outcome>>
  <2>1. UNCHANGED <<target, headers, hash, walked, missing, outcome, counted>>
    BY <1>1, <1>3 DEF searchVars
  <2>2. Locals'
    BY <1>1, <1>3, <2>1 DEF SubmitInv, Locals
  <2>3. HeadersHeard' /\ Walking' /\ HashFound'
    BY <1>1, <1>2, <1>3, <2>1
       DEF SubmitInv, HeadersHeard, Walking, HashFound, Found, NodeGrows
  <2>4. NextToActive'
    <3>1. Len(active) <= Len(active') /\ Len(active) \in Nat /\ Len(active') \in Nat
      <4>1. active' \in Mined
        BY <1>2 DEF NodeInv, NodeTypeOK, Connected
      <4> QED BY <1>2, <4>1, NodeTypes, MinedTypes DEF NodeGrows, SubmitInv
    <3> QED BY <1>1, <1>2, <2>1, <3>1, OneBranchBefore, LocalTypes
            DEF SubmitInv, NextToActive, MainIsValid
  <2> QED BY <1>2, <2>1, <2>2, <2>3, <2>4 DEF SubmitInv
<1>4. CASE EndRun("failed")
  BY <1>1, <1>2, <1>4, EndRunKeeps DEF SubmitInv, Locals
<1> QED BY <1>3, <1>4 DEF SubmitFails

(* The height is looked at after a call that failed.                       *)
LEMMA CheckHeightKeeps ==
  ASSUME SubmitInv, CheckHeight
  PROVE  SubmitInv'
<1>1. pc = "checkHeight" /\ UNCHANGED <<nodeVars, bucketVars>> /\ Found
  BY DEF CheckHeight, Found
<1>2. NodeInv' /\ BucketInv' /\ NodeGrows /\ active' = active
  BY <1>1, WorldRests
<1>3. CASE SubmittedHeightAccepted /\ Count
  <2>1. target <= Len(active')
    BY <1>2, <1>3, LocalTypes, NodeTypes DEF SubmittedHeightAccepted, SubmitInv
  <2> QED BY <1>1, <1>2, <1>3, <2>1, CountKeeps
<1>4. CASE EndRun("failed") /\ UNCHANGED counted
  BY <1>2, <1>4, EndRunKeeps DEF SubmitInv, Locals
<1> QED BY <1>3, <1>4 DEF CheckHeight

(* A run that fails elsewhere.                                             *)
LEMMA FailKeeps ==
  ASSUME SubmitInv, NEW why, Fail(why), why \notin {"noTip", "passedTarget"}
  PROVE  SubmitInv'
BY WorldRests, EndRunKeeps DEF Fail, SubmitInv, Locals

-----------------------------------------------------------------------------
(* Every step keeps the invariant.                                         *)

(* The provider stores a block.                                            *)
LEMMA ArchiveBlockKeeps ==
  ASSUME SubmitInv, ArchiveBlock
  PROVE  SubmitInv'
<1>1. PICK b \in Mined : Ancestors(b) \ {b} \subseteq archived /\ archived' = archived \cup {b}
  BY DEF ArchiveBlock
<1>2. UNCHANGED <<nodeVars, index, runVars>>
  BY DEF ArchiveBlock
<1>3. Ancestors(b) \subseteq archived'
  BY <1>1
<1>4. BucketInv'
  BY <1>1, <1>2, <1>3 DEF SubmitInv, BucketInv
<1> QED BY <1>2, <1>4, NodeRests, OthersKeep DEF SubmitInv

(* The provider publishes a range.                                         *)
LEMMA IndexRangeKeeps ==
  ASSUME SubmitInv, IndexRange
  PROVE  SubmitInv'
<1>1. PICK s \in {StartHeight(h) : h \in 0..Len(Main)} \ DOMAIN index :
        /\ EndOfRange(s) + StableDelay <= Len(Main)
        /\ SubSeq(Main, 1, EndOfRange(s)) \in archived
        /\ index' = [t \in DOMAIN index \cup {s} |->
                       IF t = s THEN [h \in RangeHeights(s) |-> SubSeq(Main, 1, h)] ELSE index[t]]
  BY DEF IndexRange
<1>2. UNCHANGED <<nodeVars, archived, runVars>>
  BY DEF IndexRange
<1>3. s \in Nat /\ EndOfRange(s) <= Len(Main)
  <2>1. PICK h \in 0..Len(Main) : s = StartHeight(h)
    BY <1>1
  <2>2. s \in Nat
    BY <2>1, MainTypes, StartHeightBounds
  <2>3. EndOfRange(s) \in Int /\ StableDelay \in Nat
    BY <2>2, RangeSizeAssumption, SubmitAssumption DEF EndOfRange
  <2> QED BY <1>1, <2>2, <2>3, MainTypes
<1>4. /\ DOMAIN index' = DOMAIN index \cup {s}
      /\ index'[s] = [h \in RangeHeights(s) |-> SubSeq(Main, 1, h)]
      /\ \A t \in DOMAIN index : index'[t] = index[t]
  BY <1>1
<1>5. BucketInv'
  BY <1>1, <1>2, <1>3, <1>4 DEF SubmitInv, BucketInv
<1> QED BY <1>2, <1>5, NodeRests, OthersKeep DEF SubmitInv

(* The node hears of headers and blocks.                                   *)
LEMMA PeersStepKeeps ==
  ASSUME SubmitInv, Peers
  PROVE  SubmitInv'
<1>1. PICK b \in Mined : HearHeader(b) \/ HearBlock(b)
  BY DEF Peers
<1>2. UNCHANGED <<bucketVars, runVars>>
  BY DEF Peers
<1>3. BucketInv'
  BY <1>2 DEF SubmitInv, BucketInv, bucketVars
<1> QED BY <1>1, <1>2, <1>3, PeersKeep, OthersKeep DEF SubmitInv

(* The invariant holds at first.                                           *)
LEMMA InitKeeps == Init => SubmitInv
<1> SUFFICES ASSUME Init PROVE SubmitInv
  OBVIOUS
<1>1. /\ known = Ancestors(InitialTip) /\ held = known /\ failed = {} /\ active = InitialTip
      /\ best = InitialTip /\ archived = Ancestors(InitialTip) /\ DOMAIN index = {}
      /\ pc = "idle" /\ target = 0 /\ headers = 0 /\ hash = <<>> /\ walked = 0
      /\ missing = {} /\ counted = NoBlock /\ outcome = "none"
  BY DEF Init, NodeInit
<1>2. /\ InitialTip \in Mined /\ InitialTip \in Seq(Branches) /\ Len(InitialTip) \in Nat
      /\ Ancestors(InitialTip) \subseteq Mined /\ ~BuildsOn(InitialTip, Rejected)
  BY NodeAssumption, MinedTypes
<1>3. \A b \in Ancestors(InitialTip) :
        Ancestors(b) \subseteq Ancestors(InitialTip) /\ Len(b) <= Len(InitialTip) /\ Len(b) \in Nat
  BY <1>2, AncestorsOfAncestor, AncestorType
<1>4. InitialTip \in Ancestors(InitialTip) /\ <<>> \in Ancestors(InitialTip)
  BY <1>2, AncestorType, GenesisBlock
<1>5. NodeTypeOK
  BY <1>1, <1>2, <1>3, <1>4 DEF NodeTypeOK, Connected
<1>6. HeadersClosed /\ FailedConnected
  BY <1>1, <1>2, <1>3 DEF HeadersClosed, FailedConnected
<1>7. ActiveIsBest
  BY <1>1, <1>2, <1>3, <1>4 DEF ActiveIsBest, Connected
<1>8. BucketInv
  BY <1>1, <1>2, <1>3 DEF BucketInv
<1>9. Locals
  BY <1>1, <1>2, <1>4, SubmitAssumption DEF Locals
<1>10. HeadersHeard /\ Walking /\ HashFound /\ NextToActive
  BY <1>1, <1>2, <1>4 DEF HeadersHeard, Walking, HashFound, Found, NextToActive
<1> QED BY <1>1, <1>5, <1>6, <1>7, <1>8, <1>9, <1>10 DEF SubmitInv, NodeInv

(* Every step keeps it.                                                    *)
LEMMA NextKeeps == SubmitInv /\ [Next]_vars => SubmitInv'
<1> SUFFICES ASSUME SubmitInv, [Next]_vars PROVE SubmitInv'
  OBVIOUS
<1>1. CASE ArchiveBlock \/ IndexRange \/ Peers
  BY <1>1, ArchiveBlockKeeps, IndexRangeKeeps, PeersStepKeeps
<1>2. CASE GetBlockchainInfo \/ IndexFound \/ IndexMissing
  BY <1>2, GetBlockchainInfoKeeps, IndexFoundKeeps, IndexMissingKeeps
<1>3. CASE ReadTips \/ HeaderAtTarget \/ HeaderElsewhere
  BY <1>3, ReadTipsKeeps, HeaderAtTargetKeeps, HeaderElsewhereKeeps
<1>4. CASE Download \/ SubmitBlock \/ CheckHeight \/ SubmitFails
  BY <1>4, DownloadKeeps, SubmitBlockKeeps, CheckHeightKeeps, SubmitFailsKeeps
<1>5. CASE WalkTooLong \/ BlockMissing \/ CallFails
  BY <1>5, FailKeeps DEF WalkTooLong, BlockMissing, CallFails
<1>6. CASE UNCHANGED vars
  <2>1. UNCHANGED <<nodeVars, bucketVars>> /\ UNCHANGED runVars
    BY <1>6 DEF vars
  <2> QED BY <2>1, WorldRests, OthersKeep
<1> QED BY <1>1, <1>2, <1>3, <1>4, <1>5, <1>6 DEF Next, Run, ResolveTargetHash

-----------------------------------------------------------------------------
(* The theorems.                                                           *)

(* What the node keeps among forks, where a walk is, and what a run has    *)
(* found, for any blocks, any invalid ones among them, and any limit.      *)
THEOREM SubmitInvariant == Spec => []SubmitInv
<1> QED BY InitKeeps, NextKeeps, PTL DEF Spec

(* The node, the bucket and the locals of a run keep their types; indexes  *)
(* name blocks that are in the bucket.                                     *)
THEOREM SubmitTypeCorrect == Spec => []TypeOK
<1>1. SubmitInv => TypeOK
  <2> SUFFICES ASSUME SubmitInv PROVE TypeOK
    OBVIOUS
  <2>1. ASSUME NEW s \in DOMAIN index PROVE index[s] \in [RangeHeights(s) -> archived]
    <3>1. /\ s \in Nat /\ EndOfRange(s) <= Len(Main) /\ SubSeq(Main, 1, EndOfRange(s)) \in archived
          /\ index[s] = [h \in RangeHeights(s) |-> SubSeq(Main, 1, h)]
      BY DEF SubmitInv, BucketInv
    <3>2. EndOfRange(s) \in Nat
      BY <3>1, RangeSizeAssumption DEF EndOfRange
    <3>3. Ancestors(SubSeq(Main, 1, EndOfRange(s))) \subseteq archived
      BY <3>1 DEF SubmitInv, BucketInv
    <3>4. ASSUME NEW h \in RangeHeights(s) PROVE SubSeq(Main, 1, h) \in archived
      <4>1. h \in 0..Len(Main) /\ EndOfRange(s) \in 0..Len(Main) /\ h <= EndOfRange(s)
        BY <3>1, <3>2, MainTypes DEF RangeHeights
      <4>2. SubSeq(Main, 1, h) \in Ancestors(SubSeq(Main, 1, EndOfRange(s)))
        <5>1. /\ SubSeq(Main, 1, h) \in Ancestors(Main) /\ Len(SubSeq(Main, 1, h)) = h
              /\ SubSeq(Main, 1, EndOfRange(s)) \in Ancestors(Main)
              /\ Len(SubSeq(Main, 1, EndOfRange(s))) = EndOfRange(s)
          BY <4>1, MainTypes, AncestorAt
        <5>2. Len(SubSeq(Main, 1, h)) <= Len(SubSeq(Main, 1, EndOfRange(s)))
          BY <4>1, <5>1
        <5> QED BY <5>1, <5>2, MainTypes, AncestorsOrdered
      <4> QED BY <3>3, <4>2
    <3> QED BY <3>1, <3>4
  <2>2. NodeTypeOK /\ archived \subseteq Mined
    BY DEF SubmitInv, NodeInv, BucketInv
  <2> QED BY <2>1, <2>2 DEF SubmitInv, Locals, TypeOK
<1> QED BY <1>1, SubmitInvariant, PTL

(* resolveRecentHash always finds a tip as high as the target and never    *)
(* walks past it, whatever the peers do to the node's chains meanwhile,    *)
(* and the hash it or the index gives is one of that height.               *)
THEOREM WalksArrive == Spec => []WalkArrives
<1>1. SubmitInv => WalkArrives
  BY DEF SubmitInv, HashFound, Found, WalkArrives
<1> QED BY <1>1, SubmitInvariant, PTL

(* bestChainTip takes a branch that was found invalid only when every      *)
(* header at or above the target builds on an invalid block.               *)
THEOREM WalksStayViable == Spec => WalksViableBranch
<1> DEFINE Viable == pc = "readTips" /\ pc' = "walk" /\ BuildsOn(hash', failed) =>
                       \A block \in known : Len(block) >= target => BuildsOn(block, failed)
<1>1. SubmitInv /\ [Next]_vars => [Viable]_vars
  <2> SUFFICES ASSUME SubmitInv, Next, pc = "readTips", pc' = "walk", BuildsOn(hash', failed),
                      NEW block \in known, Len(block) >= target, ~BuildsOn(block, failed)
               PROVE  FALSE
    OBVIOUS
  <2>1. ReadTips
    BY DEF Next, Run, ResolveTargetHash, ArchiveBlock, IndexRange, Peers, GetBlockchainInfo,
           IndexFound, IndexMissing, HeaderAtTarget, HeaderElsewhere, WalkTooLong, Download,
           BlockMissing, SubmitBlock, CheckHeight, SubmitFails, CallFails, Fail, EndRun, runVars
  <2>2. BestChainTip(hash')
    BY <2>1 DEF ReadTips, Fail, EndRun
  <2>3. NodeInv
    BY DEF SubmitInv
  <2>4. PICK c \in ChainTips : Len(block) <= Len(c) /\ ~BuildsOn(c, failed)
    BY <2>3, TipAbove
  <2>5. Len(block) \in Nat /\ Len(c) \in Nat
    BY <2>3, NodeTypes, MinedTypes DEF ChainTips
  <2>6. c \in TipsAtTarget
    BY <2>4, <2>5, LocalTypes DEF TipsAtTarget
  <2>7. hash' # active
    BY <2>3, NodeTypes DEF NodeInv, ActiveIsBest, BuildsOn
  <2>8. TipStatusRank(Status(hash')) = 0
    BY <2>7 DEF Status, TipStatusRank
  <2>9. TipStatusRank(Status(c)) \in {1, 2, 3}
    BY <2>4 DEF Status, TipStatusRank
  <2>10. Better(c, hash')
    BY <2>8, <2>9 DEF Better
  <2> QED BY <2>2, <2>6, <2>10 DEF BestChainTip
<1> QED BY <1>1, SubmitInvariant, PTL DEF Spec, WalksViableBranch

(* As long as the node has heard of one branch only, the block that is     *)
(* submitted has its parent, if the node finds that branch valid: peers,   *)
(* lost answers and restarts do not make the run skip a height.            *)
THEOREM ParentsOnOneBranch == MainIsValid /\ Spec => []SubmitsNextOnOneBranch
<1> SUFFICES ASSUME MainIsValid PROVE Spec => []SubmitsNextOnOneBranch
  OBVIOUS
<1>1. SubmitInv => SubmitsNextOnOneBranch
  BY ParentHeld DEF SubmitsNextOnOneBranch, SubmitsNextMissing, Found
<1> QED BY <1>1, SubmitInvariant, PTL

(* Then a block counts as submitted only if it is in the active chain,     *)
(* although a lost answer is made up for by a comparison of heights.       *)
THEOREM CountedIsActive == MainIsValid /\ Spec => SubmittedIsActive
<1> DEFINE Good == OneBranch' /\ counted' # counted /\ counted' # NoBlock =>
                     counted' \in Ancestors(active')
<1> SUFFICES ASSUME MainIsValid PROVE Spec => SubmittedIsActive
  OBVIOUS
<1>1. SubmitInv /\ [Next]_vars => [Good]_vars
  <2> SUFFICES ASSUME SubmitInv, Next, OneBranch', counted' # counted, counted' # NoBlock
               PROVE  counted' \in Ancestors(active')
    OBVIOUS
  <2>1. SubmitBlock \/ CheckHeight
    BY DEF Next, Run, ResolveTargetHash, ArchiveBlock, IndexRange, Peers, GetBlockchainInfo,
           IndexFound, IndexMissing, ReadTips, HeaderAtTarget, HeaderElsewhere, WalkTooLong,
           Download, BlockMissing, SubmitFails, CallFails, Fail, runVars
  <2>2. CASE SubmitBlock
    <3>1. PICK answer \in Answers : Submitted(hash, answer) /\ CountsAsSubmitted(answer) /\ Count
      BY <2>2 DEF SubmitBlock
    <3> QED BY <2>2, <3>1, AcceptedIsActive DEF SubmitBlock, Count
  <2>3. CASE CheckHeight
    <3>1. SubmittedHeightAccepted /\ Count /\ UNCHANGED <<nodeVars, bucketVars>> /\ Found
      BY <2>3 DEF CheckHeight, Found
    <3>2. NodeInv' /\ NodeGrows /\ active' = active
      BY <3>1, WorldRests
    <3>3. Len(active') >= target
      BY <3>1, <3>2 DEF SubmittedHeightAccepted
    <3> QED BY <3>1, <3>2, <3>3, OnMain DEF Count
  <2> QED BY <2>1, <2>2, <2>3
<1> QED BY <1>1, SubmitInvariant, PTL DEF Spec, SubmittedIsActive

(* Among forks, an answer of submitblock makes a block count only if the   *)
(* node has it, unless it builds on a block the node refuses.              *)
THEOREM CountedIsHeld == Spec => SubmittedIsHeld
<1> DEFINE Good == pc = "submit" /\ counted' # counted /\ ~BuildsOn(counted', Rejected) =>
                     counted' \in held'
<1>1. SubmitInv /\ [Next]_vars => [Good]_vars
  <2> SUFFICES ASSUME SubmitInv, Next, pc = "submit", counted' # counted,
                      ~BuildsOn(counted', Rejected)
               PROVE  counted' \in held'
    OBVIOUS
  <2>1. SubmitBlock
    BY DEF Next, Run, ResolveTargetHash, ArchiveBlock, IndexRange, Peers, GetBlockchainInfo,
           IndexFound, IndexMissing, ReadTips, HeaderAtTarget, HeaderElsewhere, WalkTooLong,
           Download, BlockMissing, CheckHeight, SubmitFails, CallFails, Fail, runVars
  <2>2. PICK answer \in Answers : Submitted(hash, answer) /\ CountsAsSubmitted(answer) /\ Count
    BY <2>1 DEF SubmitBlock
  <2>3. counted' = hash
    BY <2>2 DEF Count
  <2>4. ~BuildsOn(hash, failed)
    BY <2>3, NodeTypes DEF SubmitInv, BuildsOn
  <2>5. CASE hash \in held /\ UNCHANGED nodeVars
    BY <2>3, <2>5 DEF nodeVars
  <2>6. CASE StoreBlock(hash)
    BY <2>3, <2>6 DEF StoreBlock
  <2> QED BY <2>2, <2>4, <2>5, <2>6 DEF Submitted, CountsAsSubmitted, Known
<1> QED BY <1>1, SubmitInvariant, PTL DEF Spec, SubmittedIsHeld

(* recent_walk_limit can be chosen from the provider's settings alone: if  *)
(* it covers stable_delay and a range, a walk that is given up was for a   *)
(* height whose range a prompt provider has published.                     *)
THEOREM LimitsMeanPublished ==
  RecentWalkLimit >= StableDelay + RangeSize - 2 /\ Spec => LimitMeansPublished
<1> DEFINE Good == pc # "idle" /\ outcome' = "limit" /\ Prompt => StartHeight(target) \in DOMAIN index
<1> SUFFICES ASSUME RecentWalkLimit >= StableDelay + RangeSize - 2 PROVE Spec => LimitMeansPublished
  OBVIOUS
<1>1. SubmitInv /\ [Next]_vars => [Good]_vars
  <2> SUFFICES ASSUME SubmitInv, Next, pc # "idle", outcome' = "limit", Prompt
               PROVE  StartHeight(target) \in DOMAIN index
    OBVIOUS
  <2>1. outcome = "none"
    BY DEF SubmitInv, Locals
  <2>2. WalkTooLong
    BY <2>1
       DEF Next, Run, ResolveTargetHash, ArchiveBlock, IndexRange, Peers, GetBlockchainInfo,
           IndexFound, IndexMissing, ReadTips, HeaderAtTarget, HeaderElsewhere, Resolve,
           Download, BlockMissing, SubmitBlock, Count, CheckHeight, SubmitFails, CallFails, Fail,
           EndRun, runVars
  <2>3. Len(hash) > target /\ walked + 1 > RecentWalkLimit /\ pc = "walk"
    BY <2>2 DEF WalkTooLong, LimitReached
  <2>4. PICK b \in known : Len(hash) + walked <= Len(b)
    BY <2>3 DEF SubmitInv, Walking
  <2>5. Len(b) \in Nat /\ StableDelay \in Nat
    BY NodeTypes, MinedTypes, SubmitAssumption DEF SubmitInv
  <2>6. /\ StartHeight(target) \in Nat /\ StartHeight(target) <= target
        /\ EndOfRange(StartHeight(target)) = StartHeight(target) + RangeSize - 1
    BY LocalTypes, StartHeightBounds DEF EndOfRange
  <2>7. target \in 0..Len(b) /\ EndOfRange(StartHeight(target)) + StableDelay <= Len(b)
    BY <2>3, <2>4, <2>5, <2>6, LocalTypes, RangeSizeAssumption
  <2> QED BY <2>7 DEF Prompt
<1> QED BY <1>1, SubmitInvariant, PTL DEF Spec, LimitMeansPublished
=============================================================================
