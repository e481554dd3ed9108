-------------------------- MODULE ChainSync_proofs --------------------------
(* Proofs about ChainSync, for any nodes, batch size, limit of blocks and bounds.

   What a node keeps is related to a chain that grows while it is behind, and to
   messages that were right when they were sent.  So the invariant, IInv, says it
   of both: a node in Good has a store that is the chain from its last snapshot on
   (StoreSound), an entry of its own in its list, and, while the validators are
   the founders, the queue AtRound gives for its round; the entries of a batch are
   of the chain and the queue of an answer or a proposal is that of its round, unless
   it comes of a rollback that paired it with another.  Every handler
   takes a good node to a good one (the lemmas in ...Good), and a later block
   leaves good what was (LaterBlock).

   The parameters need most: a height at which they did not change points to the
   one at which they last did (Linked), which must not be taken back by a
   rollback before the heights that point to it are. *)
EXTENDS ChainSync, Induction, SequenceTheorems, FiniteSetTheorems, TLAPS

(* The types. *)
CertifiedBlock == [termId : Nat, creates : Node \cup {NoNode}, changes : BOOLEAN]
ParamInfo == [changed : Nat, params : Nat \cup {Unchanged}]
ParamMap == UNION {[S -> ParamInfo] : S \in SUBSET Nat}
Store == [last : Nat, blocks : SUBSET Nat, params : ParamMap, paramsLast : Nat]

LEMMA ParamMapDef ==
  ASSUME NEW p
  PROVE  p \in ParamMap <=> /\ p = [k \in DOMAIN p |-> p[k]] /\ DOMAIN p \subseteq Nat
                            /\ \A k \in DOMAIN p : p[k] \in ParamInfo
<1>1. ASSUME p \in ParamMap
      PROVE  /\ p = [k \in DOMAIN p |-> p[k]] /\ DOMAIN p \subseteq Nat
             /\ \A k \in DOMAIN p : p[k] \in ParamInfo
  <2>1. PICK S \in SUBSET Nat : p \in [S -> ParamInfo]
    BY <1>1 DEF ParamMap
  <2> QED BY <2>1
<1>2. ASSUME p = [k \in DOMAIN p |-> p[k]], DOMAIN p \subseteq Nat, \A k \in DOMAIN p : p[k] \in ParamInfo
      PROVE  p \in ParamMap
  <2>1. p \in [DOMAIN p -> ParamInfo]
    BY <1>2
  <2> QED BY <1>2, <2>1 DEF ParamMap
<1> QED BY <1>1, <1>2

------------------------------------------------------------------------------
(* The parameters the chain sets: those for the height after a block are the
   block's if it sets any, and those for its own height if not. *)
Changes(h) == {k \in (LOG_START + 1)..(h - 1) : Block(k).changes}
Latest(S) == IF S = {} THEN LOG_START ELSE CHOOSE k \in S : \A j \in S : j <= k

LEMMA ParamsForValue ==
  ASSUME NEW h \in Nat
  PROVE  /\ Changes(h) = {} => ParamsFor(h) = LOG_START
         /\ Changes(h) # {} => ParamsFor(h) \in Changes(h) /\ \A j \in Changes(h) : j <= ParamsFor(h)
<1>1. ParamsFor(h) = Latest(Changes(h))
  BY Zenon DEF ParamsFor, Changes, Latest
<1>2. ASSUME Changes(h) # {}
      PROVE  \E k \in Changes(h) : \A j \in Changes(h) : j <= k
  <2>1. Changes(h) \in SUBSET (1..h)
    BY DEF Changes, LOG_START
  <2>2. Max(Changes(h)) \in Changes(h) /\ \A y \in Changes(h) : Max(Changes(h)) >= y
    BY <1>2, <2>1, MaxIsMember
  <2>3. \A y \in Changes(h) : y <= Max(Changes(h))
    BY <2>1, <2>2
  <2> QED BY <2>2, <2>3
<1> QED BY <1>1, <1>2 DEF Latest

LEMMA ParamsForType ==
  ASSUME NEW h \in Nat
  PROVE  ParamsFor(h) \in Nat /\ (h > LOG_START => ParamsFor(h) < h)
BY ParamsForValue DEF Changes, LOG_START

LEMMA ParamsForNext ==
  ASSUME NEW h \in Nat, h > LOG_START, Block(h).changes \in BOOLEAN
  PROVE  ParamsFor(h + 1) = IF Block(h).changes THEN h ELSE ParamsFor(h)
<1>1. CASE Block(h).changes
  <2>1. h \in Changes(h + 1) /\ \A j \in Changes(h + 1) : j <= h
    BY <1>1 DEF Changes, LOG_START
  <2>2. ParamsFor(h + 1) \in Changes(h + 1) /\ h <= ParamsFor(h + 1)
    BY <2>1, ParamsForValue
  <2>3. ParamsFor(h + 1) <= h /\ ParamsFor(h + 1) \in Nat
    BY <2>1, <2>2, ParamsForType
  <2> QED BY <1>1, <2>2, <2>3
<1>2. CASE ~Block(h).changes
  <2>1. Changes(h + 1) = Changes(h)
    <3>1. \A k : k \in Changes(h + 1) <=> k \in Changes(h)
      BY <1>2 DEF Changes, LOG_START
    <3> QED BY <3>1
  <2>2. ParamsFor(h + 1) = ParamsFor(h)
    <3>1. ParamsFor(h + 1) = Latest(Changes(h + 1)) /\ ParamsFor(h) = Latest(Changes(h))
      BY Zenon DEF ParamsFor, Changes, Latest
    <3> QED BY <2>1, <3>1
  <2> QED BY <1>2, <2>2
<1> QED BY <1>1, <1>2

(* Blocks that are certified later change nothing of it. *)
LEMMA ParamsForStays ==
  ASSUME chain \in Seq(CertifiedBlock), NEW b, chain' = Append(chain, b), NEW h \in Nat, h <= Top + 1
  PROVE  ParamsFor(h)' = ParamsFor(h)
<1>1. \A k \in (LOG_START + 1)..(h - 1) : Block(k)' = Block(k)
  BY DEF Block, Top, LOG_START
<1>2. Changes(h)' = Changes(h)
  BY <1>1 DEF Changes, LOG_START
<1>3. ParamsFor(h)' = Latest(Changes(h)') /\ ParamsFor(h) = Latest(Changes(h))
  BY Zenon DEF ParamsFor, Changes, Latest
<1> QED BY <1>2, <1>3

LEMMA TopType ==
  ASSUME chain \in Seq(CertifiedBlock)
  PROVE  Top \in Nat /\ Top = 1 + Len(chain) /\ \A h \in (LOG_START + 1)..Top : Block(h) \in CertifiedBlock
<1>1. Len(chain) \in Nat /\ \A i \in 1..Len(chain) : chain[i] \in CertifiedBlock
  OBVIOUS
<1> QED BY <1>1 DEF Top, Block, LOG_START

------------------------------------------------------------------------------
(* What the store of a node is, of which the last snapshot is at base. *)
Linked(p, k) ==
    /\ p[k].changed \in DOMAIN p /\ p[k].changed <= k
    /\ p[p[k].changed].params # Unchanged
    /\ p[k].params # Unchanged => p[k].changed = k

BlocksSound(st, base) ==
    /\ LOG_START <= base /\ base <= st.last /\ st.last <= Top
    /\ (base + 1)..st.last \subseteq st.blocks /\ st.blocks \subseteq (LOG_START + 1)..st.last
    /\ base \notin st.blocks

ParamsSound(st, base) ==
    /\ DOMAIN st.params \subseteq 0..(st.last + 1) /\ (base + 2)..(st.last + 1) \subseteq DOMAIN st.params
    /\ \A k \in DOMAIN st.params : Linked(st.params, k)
    /\ \A k \in DOMAIN st.params : k > base => ParamsAt(st, k) = ParamsFor(k)
    /\ st.paramsLast = st.last + 1 \/ (st.paramsLast = st.last /\ st.last = base)
    /\ IF st.paramsLast \in DOMAIN st.params THEN ParamsAt(st, st.paramsLast) = ParamsFor(st.last + 1)
       ELSE st.last = base

StoreSound(st, base) == BlocksSound(st, base) /\ ParamsSound(st, base)

LEMMA EmptyStoreSound ==
  ASSUME chain = <<>>
  PROVE  EmptyStore(LOG_START) \in Store /\ StoreSound(EmptyStore(LOG_START), LOG_START)
<1> DEFINE st == EmptyStore(LOG_START)
<1>1. /\ st = [last |-> 1, blocks |-> {}, params |-> [k \in {2} |-> [changed |-> 2, params |-> 1]], paramsLast |-> 2]
      /\ Top = 1 /\ LOG_START = 1
  <2>1. Len(chain) = 0
    OBVIOUS
  <2>2. \A k \in {2} : Info(k, 1) = [changed |-> 2, params |-> 1]
    BY DEF Info
  <2> QED BY <2>1, <2>2 DEF EmptyStore, LOG_START, Top
<1> HIDE DEF st
<1>2. st.params \in ParamMap
  BY <1>1, ParamMapDef DEF ParamInfo
<1>3. ParamsFor(2) = 1
  <2>1. Changes(2) = {}
    BY DEF Changes, LOG_START
  <2> QED BY <2>1, ParamsForValue DEF LOG_START
<1>4. 1 # Unchanged
  BY SyncAssumption DEF SyncAssumption
<1>5. ParamsAt(st, 2) = 1
  BY <1>1, <1>4 DEF ParamsAt
<1>6. BlocksSound(st, 1)
  BY <1>1 DEF BlocksSound
<1>7. ParamsSound(st, 1)
  BY <1>1, <1>3, <1>4, <1>5 DEF ParamsSound, Linked
<1>8. st \in Store
  BY <1>1, <1>2 DEF Store
<1> QED BY <1>1, <1>6, <1>7, <1>8 DEF StoreSound, st

(* What setting the parameters for h does. *)
LEMMA SetParams ==
  ASSUME NEW st \in Store, NEW h \in Nat, NEW info \in ParamInfo
  PROVE  LET r == SetConsensusParams(st, h, info)
         IN  /\ r \in Store /\ r.last = st.last /\ r.blocks = st.blocks /\ r.paramsLast = h
             /\ DOMAIN r.params = DOMAIN st.params \cup {h} /\ r.params[h] = info
             /\ \A k \in DOMAIN st.params \ {h} : r.params[k] = st.params[k]
<1> DEFINE p == [k \in DOMAIN st.params \cup {h} |-> IF k = h THEN info ELSE st.params[k]]
           r == SetConsensusParams(st, h, info)
<1>1. st.params \in ParamMap /\ st.last \in Nat /\ st.blocks \in SUBSET Nat
  BY DEF Store
<1>2. DOMAIN st.params \subseteq Nat /\ \A k \in DOMAIN st.params : st.params[k] \in ParamInfo
  BY <1>1, ParamMapDef
<1>3. /\ DOMAIN p = DOMAIN st.params \cup {h} /\ p[h] = info
      /\ \A k \in DOMAIN st.params \ {h} : p[k] = st.params[k]
      /\ p = [k \in DOMAIN p |-> p[k]]
  OBVIOUS
<1>4. r = [st EXCEPT !.params = p, !.paramsLast = h]
  BY DEF SetConsensusParams
<1> HIDE DEF p, r
<1>5. p \in ParamMap
  BY <1>2, <1>3, ParamMapDef
<1>6. r \in Store /\ r.last = st.last /\ r.blocks = st.blocks /\ r.paramsLast = h /\ r.params = p
  BY <1>1, <1>4, <1>5 DEF Store
<1> QED BY <1>3, <1>6 DEF r

(* Reading parameters gives a number or nothing. *)
LEMMA ReadParams ==
  ASSUME NEW st \in Store, NEW k \in Nat, k \in DOMAIN st.params => Linked(st.params, k)
  PROVE  IF k \in DOMAIN st.params
         THEN ParamsAt(st, k) = st.params[st.params[k].changed].params /\ ParamsAt(st, k) \in Nat
         ELSE ParamsAt(st, k) = Missing
<1>1. CASE k \in DOMAIN st.params
  <2>1. Linked(st.params, k) /\ st.params \in ParamMap
    BY <1>1 DEF Store
  <2>2. st.params[k] \in ParamInfo /\ st.params[st.params[k].changed] \in ParamInfo
    BY <1>1, <2>1, ParamMapDef DEF Linked
  <2>3. ParamsAt(st, k) = st.params[st.params[k].changed].params
    BY <1>1, <2>1 DEF ParamsAt, Linked
  <2> QED BY <1>1, <2>1, <2>2, <2>3 DEF Linked, ParamInfo
<1>2. CASE k \notin DOMAIN st.params
  BY <1>2 DEF ParamsAt
<1> QED BY <1>1, <1>2

(* The latest parameters of a sound store. *)
LEMMA LatestParams ==
  ASSUME NEW st \in Store, NEW base \in Nat, ParamsSound(st, base)
  PROVE  /\ GetConsensusParams(st, 0) = ParamsAt(st, st.paramsLast)
         /\ \/ /\ st.paramsLast \in DOMAIN st.params
               /\ GetConsensusParams(st, 0) = ParamsFor(st.last + 1) /\ GetConsensusParams(st, 0) # Missing
            \/ /\ st.paramsLast \notin DOMAIN st.params
               /\ GetConsensusParams(st, 0) = Missing /\ st.last = base
<1>1. GetConsensusParams(st, 0) = ParamsAt(st, st.paramsLast) /\ st.paramsLast \in Nat /\ st.last + 1 \in Nat
  BY DEF GetConsensusParams, Store
<1>2. ParamsFor(st.last + 1) # Missing
  BY <1>1, ParamsForType, SyncAssumption DEF SyncAssumption
<1>3. st.paramsLast \notin DOMAIN st.params => ParamsAt(st, st.paramsLast) = Missing
  BY DEF ParamsAt
<1> QED BY <1>1, <1>2, <1>3 DEF ParamsSound

(* The parameters of a final block are the next ones of the chain. *)
LEMMA SaveSound ==
  ASSUME chain \in Seq(CertifiedBlock), NEW st \in Store, NEW base \in Nat, StoreSound(st, base), NEW h \in Nat,
         h = st.last + 1, h <= Top, Block(h).changes \in BOOLEAN, GetConsensusParams(st, 0) = ParamsFor(h)
  PROVE  LET r == SetBlock(SaveConsensusParams(st, h + 1, IF Block(h).changes THEN h ELSE Unchanged), h)
         IN  r \in Store /\ r.last = h /\ StoreSound(r, base)
<1> DEFINE p == IF Block(h).changes THEN h ELSE Unchanged
           last == st.paramsLast
           info == IF Block(h).changes THEN Info(h + 1, h) ELSE Info(st.params[last].changed, Unchanged)
           q == SetConsensusParams(st, h + 1, info)
           r == SetBlock(q, h)
<1>1. /\ st.last \in Nat /\ last \in Nat /\ st.blocks \in SUBSET Nat /\ st.params \in ParamMap
      /\ h > LOG_START /\ Unchanged \notin Nat /\ Missing \notin Nat /\ base < h
  BY SyncAssumption DEF Store, SyncAssumption, StoreSound, BlocksSound, LOG_START
<1>2. /\ ParamsFor(h) \in Nat /\ ParamsFor(h) < h
       /\ ParamsFor(h + 1) = IF Block(h).changes THEN h ELSE ParamsFor(h)
  BY <1>1, ParamsForType, ParamsForNext
<1>3. last \in DOMAIN st.params /\ GetConsensusParams(st, 0) = ParamsAt(st, last)
  BY <1>1, <1>2, LatestParams DEF StoreSound
<1>4. Linked(st.params, last) /\ ParamsAt(st, last) = st.params[st.params[last].changed].params
  BY <1>1, <1>3, ReadParams DEF StoreSound, ParamsSound
<1>5. SaveConsensusParams(st, h + 1, p) = q
  <2>1. last \in DOMAIN st.params /\ (p \in {Unchanged, GetConsensusParams(st, 0)} <=> ~Block(h).changes)
    BY <1>1, <1>2, <1>3
  <2> QED BY <2>1 DEF SaveConsensusParams
<1>6. st.params[last] \in ParamInfo /\ st.params[st.params[last].changed] \in ParamInfo
  BY <1>1, <1>3, <1>4, ParamMapDef DEF Linked
<1>7. info \in ParamInfo /\ info.changed \in Nat /\ info.params = p
      /\ info.changed = IF Block(h).changes THEN h + 1 ELSE st.params[last].changed
  BY <1>6 DEF Info, ParamInfo
<1> HIDE DEF info
<1>8. /\ q \in Store /\ q.last = st.last /\ q.blocks = st.blocks /\ q.paramsLast = h + 1
      /\ DOMAIN q.params = DOMAIN st.params \cup {h + 1} /\ q.params[h + 1] = info
      /\ \A k \in DOMAIN st.params \ {h + 1} : q.params[k] = st.params[k]
  <2>1. PICK i \in ParamInfo, j \in Nat : i = info /\ j = h + 1
    BY <1>7
  <2>2. LET s == SetConsensusParams(st, j, i)
        IN  /\ s \in Store /\ s.last = st.last /\ s.blocks = st.blocks /\ s.paramsLast = j
            /\ DOMAIN s.params = DOMAIN st.params \cup {j} /\ s.params[j] = i
            /\ \A k \in DOMAIN st.params \ {j} : s.params[k] = st.params[k]
    BY SetParams
  <2> QED BY <2>1, <2>2
<1> HIDE DEF q
<1>9. /\ r \in Store /\ r.last = h /\ r.blocks = st.blocks \cup {h} /\ r.params = q.params /\ r.paramsLast = h + 1
  BY <1>1, <1>8 DEF SetBlock, Store
<1> HIDE DEF r
<1>10. BlocksSound(r, base)
  BY <1>1, <1>9, TopType DEF StoreSound, BlocksSound, LOG_START
<1>11. DOMAIN st.params \subseteq 0..h /\ DOMAIN r.params \subseteq 0..(r.last + 1)
  BY <1>1, <1>8, <1>9 DEF StoreSound, ParamsSound
<1>12. \A k \in DOMAIN st.params : k # h + 1 /\ r.params[k] = st.params[k] /\ Linked(st.params, k)
  BY <1>8, <1>9, <1>11 DEF StoreSound, ParamsSound
<1>13. \A k \in DOMAIN st.params : Linked(r.params, k) /\ ParamsAt(r, k) = ParamsAt(st, k)
  BY <1>8, <1>9, <1>12 DEF Linked, ParamsAt
<1>14. Linked(r.params, h + 1) /\ ParamsAt(r, h + 1) = ParamsFor(h + 1)
  <2>1. CASE Block(h).changes
    <3>1. r.params[h + 1].changed = h + 1 /\ r.params[h + 1].params = h /\ h # Unchanged
      BY <1>1, <1>7, <1>8, <1>9, <2>1
    <3> QED BY <1>1, <1>2, <1>8, <1>9, <2>1, <3>1 DEF Linked, ParamsAt
  <2>2. CASE ~Block(h).changes
    <3>1. r.params[h + 1].changed = st.params[last].changed /\ r.params[h + 1].params = Unchanged
      BY <1>7, <1>8, <1>9, <2>2
    <3>2. /\ st.params[last].changed \in DOMAIN st.params /\ st.params[last].changed <= h + 1
          /\ r.params[st.params[last].changed].params = ParamsFor(h)
          /\ st.params[st.params[last].changed].params # Unchanged
      <4> DEFINE c == st.params[last].changed
      <4>1. /\ c \in DOMAIN st.params /\ c <= last /\ st.params[c].params # Unchanged
            /\ st.params[c].params = ParamsFor(h)
        BY <1>3, <1>4 DEF Linked
      <4> HIDE DEF c
      <4>2. r.params[c].params = ParamsFor(h) /\ c <= h + 1
        BY <1>11, <1>12, <4>1
      <4> QED BY <4>1, <4>2 DEF c
    <3>3. st.params[last].changed \in DOMAIN r.params
      BY <1>8, <1>9, <3>2
    <3> QED BY <1>1, <1>2, <1>8, <1>9, <1>12, <2>2, <3>1, <3>2, <3>3 DEF Linked, ParamsAt
  <2> QED BY <2>1, <2>2
<1>15. ParamsSound(r, base)
  <2>1. (base + 2)..(r.last + 1) \subseteq DOMAIN r.params
    BY <1>1, <1>8, <1>9 DEF StoreSound, ParamsSound
  <2>2. \A k \in DOMAIN r.params : Linked(r.params, k) /\ (k > base => ParamsAt(r, k) = ParamsFor(k))
    BY <1>8, <1>9, <1>13, <1>14 DEF StoreSound, ParamsSound
  <2> QED BY <1>8, <1>9, <1>11, <1>14, <2>1, <2>2 DEF ParamsSound
<1>16. r \in Store /\ r.last = h /\ StoreSound(r, base)
  BY <1>9, <1>10, <1>15 DEF StoreSound
<1> QED BY <1>5, <1>16 DEF r

(* A node brought to block h by a snapshot. *)
LEMMA BootstrapSound ==
  ASSUME chain \in Seq(CertifiedBlock), NEW st \in Store, NEW base \in Nat, StoreSound(st, base), NEW h \in Nat, h > st.last, h <= Top
  PROVE  LET r == Bootstrapped(st, h, ParamsFor(h + 1))
         IN  r \in Store /\ r.last = h /\ StoreSound(r, h)
<1> DEFINE info == Info(h, ParamsFor(h + 1))
           q == SetConsensusParams(st, h, info)
           r == [q EXCEPT !.last = h]
<1>1. /\ st.last \in Nat /\ st.blocks \in SUBSET Nat /\ st.params \in ParamMap
      /\ h > LOG_START /\ Unchanged \notin Nat /\ ParamsFor(h + 1) \in Nat
  <2>1. h + 1 \in Nat
    OBVIOUS
  <2>2. ParamsFor(h + 1) \in Nat
    BY <2>1, ParamsForType
  <2> QED BY <2>2, SyncAssumption DEF Store, SyncAssumption, StoreSound, BlocksSound, LOG_START
<1>2. info \in ParamInfo /\ info.changed = h /\ info.params = ParamsFor(h + 1)
  BY <1>1 DEF Info, ParamInfo
<1> HIDE DEF info
<1>3. /\ q \in Store /\ q.last = st.last /\ q.blocks = st.blocks /\ q.paramsLast = h
      /\ DOMAIN q.params = DOMAIN st.params \cup {h} /\ q.params[h] = info
      /\ \A k \in DOMAIN st.params \ {h} : q.params[k] = st.params[k]
  BY <1>2, SetParams
<1> HIDE DEF q
<1>4. r \in Store /\ r.last = h /\ r.blocks = st.blocks /\ r.params = q.params /\ r.paramsLast = h
  BY <1>3 DEF Store
<1>5. Bootstrapped(st, h, ParamsFor(h + 1)) = r
  BY DEF Bootstrapped, q, info
<1> HIDE DEF r
<1>6. BlocksSound(r, h)
  BY <1>1, <1>4, TopType DEF StoreSound, BlocksSound, LOG_START
<1>7. DOMAIN st.params \subseteq 0..h /\ DOMAIN r.params \subseteq 0..h
  BY <1>1, <1>3, <1>4 DEF StoreSound, ParamsSound
<1>8. Linked(r.params, h) /\ ParamsAt(r, h) = ParamsFor(h + 1)
  <2>1. r.params[h].changed = h /\ r.params[h].params = ParamsFor(h + 1) /\ ParamsFor(h + 1) # Unchanged
    BY <1>1, <1>2, <1>3, <1>4
  <2> QED BY <1>3, <1>4, <2>1 DEF Linked, ParamsAt
<1>9. ASSUME NEW k \in DOMAIN st.params, k # h
      PROVE  Linked(r.params, k)
  <2>1. Linked(st.params, k) /\ k < h /\ k \in Nat
    BY <1>1, <1>7, <1>9 DEF StoreSound, ParamsSound
  <2>2. st.params[k].changed \in DOMAIN st.params /\ st.params[k].changed # h
    BY <1>7, <2>1 DEF Linked
  <2> QED BY <1>3, <1>4, <1>9, <2>1, <2>2 DEF Linked
<1>10. ParamsSound(r, h)
  <2>1. \A k \in DOMAIN r.params : Linked(r.params, k) /\ ~ (k > h)
    BY <1>3, <1>4, <1>7, <1>8, <1>9
  <2> QED BY <1>1, <1>3, <1>4, <1>7, <1>8, <2>1 DEF ParamsSound
<1>11. r \in Store /\ r.last = h /\ StoreSound(r, h)
  BY <1>4, <1>6, <1>10 DEF StoreSound
<1> QED BY <1>5, <1>11

(* The last block taken back. *)
LEMMA RollbackSound ==
  ASSUME chain \in Seq(CertifiedBlock), NEW st \in Store, NEW base \in Nat, StoreSound(st, base), NEW h \in Nat,
         MayRollbackBlock(st, h), h \in st.blocks
  PROVE  LET r == RollbackBlock(st, h)
         IN  r \in Store /\ r.last = h - 1 /\ StoreSound(r, base) /\ h > LOG_START
<1> DEFINE p == [k \in DOMAIN st.params \ {h + 1} |-> st.params[k]]
           r == [st EXCEPT !.blocks = @ \ {h}, !.last = h - 1, !.params = p, !.paramsLast = h]
<1>1. /\ st.last = h /\ st.paramsLast = h + 1 /\ h > LOG_START /\ h > base /\ h - 1 \in Nat
      /\ st.blocks \in SUBSET Nat /\ st.params \in ParamMap
  BY DEF MayRollbackBlock, Store, StoreSound, BlocksSound, LOG_START
<1>2. RollbackBlock(st, h) = r
  BY DEF RollbackBlock
<1>3. DOMAIN st.params \subseteq 0..(h + 1) /\ \A k \in DOMAIN st.params : st.params[k] \in ParamInfo /\ Linked(st.params, k)
  BY <1>1, ParamMapDef DEF StoreSound, ParamsSound
<1>4. /\ DOMAIN p = DOMAIN st.params \ {h + 1} /\ p = [k \in DOMAIN p |-> p[k]]
      /\ \A k \in DOMAIN p : p[k] = st.params[k]
  OBVIOUS
<1> HIDE DEF p
<1>5. p \in ParamMap
  <2>1. DOMAIN p \subseteq Nat /\ \A k \in DOMAIN p : p[k] \in ParamInfo
    BY <1>3, <1>4
  <2> QED BY <1>4, <2>1, ParamMapDef
<1>6. r \in Store /\ r.last = h - 1 /\ r.blocks = st.blocks \ {h} /\ r.params = p /\ r.paramsLast = h
  BY <1>1, <1>5 DEF Store
<1> HIDE DEF r
<1>7. BlocksSound(r, base)
  BY <1>1, <1>6, TopType DEF StoreSound, BlocksSound, LOG_START
<1>8. DOMAIN p \subseteq 0..h
  BY <1>1, <1>3, <1>4
<1>9. ASSUME NEW k \in DOMAIN p
      PROVE  Linked(p, k) /\ ParamsAt(r, k) = ParamsAt(st, k)
  <2>1. Linked(st.params, k) /\ k \in DOMAIN st.params /\ k \in 0..h /\ p[k] = st.params[k]
    BY <1>3, <1>4, <1>8
  <2>2. st.params[k].changed \in DOMAIN p
    <3> DEFINE c == st.params[k].changed
    <3>1. c \in DOMAIN st.params /\ c <= k
      BY <2>1 DEF Linked
    <3> HIDE DEF c
    <3>2. c \in 0..(h + 1) /\ c # h + 1
      BY <1>1, <1>3, <2>1, <3>1
    <3>3. c \in DOMAIN p
      BY <1>4, <3>1, <3>2
    <3> QED BY <3>3 DEF c
  <2>3. p[st.params[k].changed] = st.params[st.params[k].changed]
    BY <1>4, <2>2
  <2> QED BY <1>4, <1>6, <2>1, <2>2, <2>3 DEF Linked, ParamsAt
<1>10. ParamsSound(r, base)
  <2>1. \A k \in DOMAIN p : k > base => ParamsAt(r, k) = ParamsFor(k)
    BY <1>4, <1>9 DEF StoreSound, ParamsSound
  <2>2. (base + 2)..h \subseteq DOMAIN p
    BY <1>1, <1>4 DEF StoreSound, ParamsSound
  <2>3. h \in DOMAIN p => ParamsAt(r, h) = ParamsFor(h)
    BY <1>1, <2>1
  <2>4. h \notin DOMAIN p => h - 1 = base
    BY <1>1, <2>2
  <2> QED BY <1>1, <1>6, <1>8, <1>9, <2>1, <2>2, <2>3, <2>4 DEF ParamsSound
<1>11. r \in Store /\ r.last = h - 1 /\ StoreSound(r, base)
  BY <1>6, <1>7, <1>10 DEF StoreSound
<1> QED BY <1>1, <1>2, <1>11

(* Blocks that are certified later leave a store what it was. *)
LEMMA StoreStaysSound ==
  ASSUME chain \in Seq(CertifiedBlock), NEW b, chain' = Append(chain, b),
         NEW st \in Store, NEW base \in Nat, StoreSound(st, base)
  PROVE  StoreSound(st, base)'
<1>1. Top' = Top + 1 /\ Top \in Nat /\ st.last \in Nat /\ st.last <= Top
  BY DEF Top, Store, StoreSound, BlocksSound, LOG_START
<1>2. BlocksSound(st, base)'
  BY <1>1 DEF StoreSound, BlocksSound
<1>3. \A k \in 0..(st.last + 1) : ParamsFor(k)' = ParamsFor(k)
  BY <1>1, ParamsForStays
<1>4. ParamsSound(st, base)'
  BY <1>1, <1>3 DEF StoreSound, ParamsSound
<1> QED BY <1>2, <1>4 DEF StoreSound

------------------------------------------------------------------------------
(* The queue of proposers. *)
Entry == [address : Node, index : Nat, value : Nat]
Proposal == [index : Nat, queue : Seq(Entry)]

LEMMA UpdatedQueue ==
  ASSUME NEW vs \in Seq(Node), vs # <<>>, NEW queue \in Seq(Entry)
  PROVE  UpdateProposerQueue(vs, queue) \in Seq(Entry) \ {<<>>}
<1> DEFINE known == {queue[i].address : i \in DOMAIN queue}
           entry(i) == [address |-> vs[i], index |-> i, value |-> Tokens[vs[i]]]
           base == [i \in DOMAIN queue |-> [queue[i] EXCEPT !.value = @ + Tokens[queue[i].address]]]
           places == [i \in DOMAIN vs |-> i]
           n == Len(vs)
           D == DOMAIN places
           next(q, i) == IF vs[i] \in known THEN q ELSE Append(q, entry(i))
           Fits(F) == F = [w \in SUBSET D |-> IF w = {} THEN base ELSE next(F[w \ {Max(w)}], places[Max(w)])]
           F0 == CHOOSE F : Fits(F)
           step == [p \in Seq(Entry) \X (1..n) |-> next(p[1], p[2])]
<1>1. UpdateProposerQueue(vs, queue) = F0[D]
  BY Zenon DEF UpdateProposerQueue, FoldLeftDomain, FoldLeft, MapThenFoldSet
<1>2. n \in Nat /\ D = 1..n /\ n >= 1 /\ \A i \in 1..n : places[i] = i /\ vs[i] \in Node
  OBVIOUS
<1>3. /\ base \in Seq(Entry) /\ Len(base) = Len(queue)
  <2>1. Tokens \in [Node -> Nat]
    BY SyncAssumption DEF SyncAssumption
  <2>2. ASSUME NEW i \in DOMAIN queue
        PROVE  [queue[i] EXCEPT !.value = @ + Tokens[queue[i].address]] \in Entry
    <3>1. queue[i] \in Entry
      OBVIOUS
    <3>2. Tokens[queue[i].address] \in Nat
      BY <2>1, <3>1 DEF Entry
    <3> DEFINE v == queue[i].value + Tokens[queue[i].address]
    <3>3. v \in Nat
      BY <3>1, <3>2 DEF Entry
    <3> HIDE DEF v
    <3>4. [queue[i] EXCEPT !.value = v] \in Entry
      BY <3>1, <3>3 DEF Entry
    <3> QED BY <3>4 DEF v
  <2>3. DOMAIN queue = 1..Len(queue) /\ Len(queue) \in Nat
    OBVIOUS
  <2> QED BY <2>2, <2>3
<1>4. \A i \in 1..n : entry(i) \in Entry
  BY <1>2, SyncAssumption DEF SyncAssumption, Entry
<1> HIDE DEF entry, base, n, known
<1> DEFINE V == Seq(Entry)
<1>5. \A q \in V, i \in 1..n : next(q, i) \in V /\ Len(next(q, i)) >= Len(q)
  BY <1>4
<1>5a. queue = <<>> => known = {}
  BY DEF known
<1>6. /\ step \in [V \X (1..n) -> V]
      /\ \A q \in V, i \in 1..n : step[<<q, i>>] = next(q, i)
  BY <1>5
<1>6a. base \in V
  BY <1>3
<1> HIDE DEF step, next, D, places, V
<1>7. PICK F : Folding(F, n, V, base, step)
  BY <1>2, <1>6, <1>6a, FoldingExists
<1>8. Fits(F)
  <2>1. ASSUME NEW w \in SUBSET D, w # {}
        PROVE  F[w] = next(F[w \ {Max(w)}], places[Max(w)])
    <3>1. Max(w) \in 1..n /\ w \ {Max(w)} \in SUBSET (1..n) /\ F[w] = step[<<F[w \ {Max(w)}], Max(w)>>]
      BY <1>2, <1>7, <2>1 DEF Folding
    <3>2. F[w \ {Max(w)}] \in V
      BY <1>7, <3>1 DEF Folding
    <3> QED BY <1>2, <1>6, <3>1, <3>2
  <2>2. F = [w \in SUBSET D |-> F[w]] /\ F[{}] = base
    BY <1>2, <1>7 DEF Folding
  <2> QED BY <2>1, <2>2
<1>9. Fits(F0)
  <2> HIDE DEF Fits
  <2> QED BY <1>8
<1> HIDE DEF F0
<1>10. Follows(F0, n, V, base, step)
  <2>1. F0[{}] = base /\ \A w \in SUBSET D : w # {} => F0[w] = next(F0[w \ {Max(w)}], places[Max(w)])
    BY <1>9
  <2> HIDE DEF Fits
  <2>2. ASSUME NEW w \in SUBSET (1..n), w # {}, F0[w \ {Max(w)}] \in V
        PROVE  F0[w] = step[<<F0[w \ {Max(w)}], Max(w)>>]
    <3>1. Max(w) \in 1..n /\ w \in SUBSET D
      BY <1>2, <1>7, <2>2 DEF Folding
    <3>2. places[Max(w)] = Max(w)
      BY <1>2, <3>1
    <3> QED BY <1>6, <2>1, <2>2, <3>1, <3>2
  <2> QED BY <2>1, <2>2 DEF Follows
<1>11. PICK r : Run(r, F0, n, V, base, step)
  BY <1>2, <1>6, <1>6a, <1>10, FoldRuns
<1>12. \A i \in 1..n : r[i - 1] \in V /\ r[i] = next(r[i - 1], i)
  <2> SUFFICES ASSUME NEW i \in 1..n
               PROVE  r[i - 1] \in V /\ r[i] = next(r[i - 1], i)
    OBVIOUS
  <2>1. i - 1 \in 0..n
    BY <1>2
  <2> QED BY <1>6, <1>11, <2>1 DEF Run
<1> DEFINE Holds == {i \in 1..n : Len(r[i]) >= 1}
<1>13. 1 \in Holds
  <2>1. 1 \in 1..n /\ r[1] = next(base, 1) /\ base \in V /\ r[1] \in V
    <3>1. 1 \in 1..n /\ 1 - 1 = 0 /\ 1 \in 0..n
      BY <1>2
    <3> QED BY <1>6a, <1>11, <1>12, <3>1 DEF Run
  <2>2. CASE queue = <<>>
    <3>1. r[1] = Append(base, entry(1))
      BY <1>5a, <2>1, <2>2 DEF next
    <3> QED BY <1>4, <2>1, <3>1 DEF V
  <2>3. CASE queue # <<>>
    <3>1. Len(base) >= 1
      BY <1>3, <2>3
    <3> QED BY <1>5, <1>6a, <2>1, <3>1
  <2> QED BY <2>2, <2>3
<1>14. \A i \in 1..n : i \in Holds /\ i < n => i + 1 \in Holds
  <2> SUFFICES ASSUME NEW i \in 1..n, i \in Holds, i < n
               PROVE  i + 1 \in Holds
    OBVIOUS
  <2>1. i + 1 \in 1..n /\ (i + 1) - 1 = i
    BY <1>2
  <2>2. r[i + 1] = next(r[i], i + 1) /\ r[i] \in V
    BY <1>12, <2>1
  <2>3. next(r[i], i + 1) \in V /\ Len(next(r[i], i + 1)) >= Len(r[i])
    BY <1>5, <2>1, <2>2
  <2>4. \A q \in V : Len(q) \in Nat
    BY DEF V
  <2>5. Len(r[i + 1]) >= 1
    BY <2>2, <2>3, <2>4
  <2> QED BY <2>1, <2>5
<1>15. n \in Holds
  <2> HIDE DEF Holds
  <2>1. 1 \in Int /\ n \in Int /\ n \in 1..n
    BY <1>2
  <2> QED BY <1>13, <1>14, <2>1, IntervalInduction
<1>16. r[n] \in Seq(Entry) /\ r[n] # <<>>
  BY <1>2, <1>11, <1>15 DEF V, Run
<1> QED BY <1>1, <1>2, <1>11, <1>16 DEF Run

(* The first of the greatest values of a queue. *)
LEMMA FirstOfQueue ==
  ASSUME NEW q \in Seq(Entry), q # <<>>
  PROVE  \E i \in DOMAIN q : \A j \in DOMAIN q : \/ q[i].value > q[j].value
                                                 \/ q[i].value = q[j].value /\ i <= j
<1> DEFINE n == Len(q)
           Best(k, i) == \A j \in 1..k : q[i].value > q[j].value \/ (q[i].value = q[j].value /\ i <= j)
           Holds == {k \in 1..n : \E i \in 1..k : Best(k, i)}
<1>1. n \in Nat /\ n >= 1 /\ DOMAIN q = 1..n /\ \A i \in 1..n : q[i].value \in Nat
  <2>1. n \in Nat /\ n >= 1 /\ DOMAIN q = 1..n /\ \A i \in 1..n : q[i] \in Entry
    OBVIOUS
  <2> QED BY <2>1 DEF Entry
<1> HIDE DEF n
<1>2. 1 \in Holds
  <2>1. Best(1, 1)
    BY <1>1
  <2> QED BY <1>1, <2>1
<1>3. ASSUME NEW k \in 1..n, k \in Holds, k < n
      PROVE  k + 1 \in Holds
  <2> SUFFICES \E i \in 1..(k + 1) : Best(k + 1, i)
    <3>1. k + 1 \in 1..n
      BY <1>1, <1>3
    <3> HIDE DEF Best
    <3> QED BY <3>1
  <2>1. PICK i \in 1..k : Best(k, i)
    BY <1>3
  <2>2. i \in 1..n /\ k + 1 \in 1..n /\ \A j \in 1..(k + 1) : j \in 1..n /\ (j \in 1..k \/ j = k + 1)
    BY <1>1, <1>3
  <2>3. CASE q[k + 1].value > q[i].value
    <3>1. Best(k + 1, k + 1)
      BY <1>1, <2>1, <2>2, <2>3
    <3> QED BY <1>1, <3>1
  <2>4. CASE ~ (q[k + 1].value > q[i].value)
    <3>1. Best(k + 1, i)
      BY <1>1, <2>1, <2>2, <2>4
    <3> QED BY <1>1, <3>1
  <2> QED BY <2>3, <2>4
<1>4. n \in Holds
  <2> HIDE DEF Holds
  <2>1. 1 \in Int /\ n \in Int /\ n \in 1..n
    BY <1>1
  <2> QED BY <1>2, <1>3, <2>1, IntervalInduction
<1>5. PICK i \in 1..n : Best(n, i)
  BY <1>4
<1> QED BY <1>1, <1>5

LEMMA NextProposerType ==
  ASSUME NEW vs \in Seq(Node), vs # <<>>, NEW queue \in Seq(Entry)
  PROVE  GetNextProposer(vs, queue) \in Proposal
<1> DEFINE q == UpdateProposerQueue(vs, queue)
           first == CHOOSE i \in DOMAIN q : \A j \in DOMAIN q : \/ q[i].value > q[j].value
                                                                \/ q[i].value = q[j].value /\ i <= j
<1>1. GetNextProposer(vs, queue) = [index |-> q[first].index, queue |-> [q EXCEPT ![first].value = 0]]
  BY Zenon DEF GetNextProposer
<1>2. q \in Seq(Entry) /\ q # <<>>
  BY UpdatedQueue
<1> HIDE DEF q
<1>3. first \in DOMAIN q
  BY <1>2, FirstOfQueue
<1> HIDE DEF first
<1>4. q[first] \in Entry
  BY <1>2, <1>3
<1>5. [q[first] EXCEPT !.value = 0] \in Entry /\ q[first].index \in Nat
  BY <1>4 DEF Entry
<1>6. [q EXCEPT ![first].value = 0] \in Seq(Entry)
  <2>1. [q EXCEPT ![first].value = 0] = [q EXCEPT ![first] = [q[first] EXCEPT !.value = 0]]
    BY <1>3
  <2> QED BY <1>2, <1>3, <1>5, <2>1, ExceptSeq
<1> QED BY <1>1, <1>5, <1>6 DEF Proposal

Queued(s) == [index |-> s.proposerIndex, queue |-> s.proposerQueue]

(* The proposers of k rounds, each chosen from the queue the one before left. *)
Rounds(r, vs, k) ==
    /\ r \in [0..k -> Proposal]
    /\ \A i \in 1..k : r[i] = GetNextProposer(vs, r[i - 1].queue)

LEMMA AdvanceRun ==
  ASSUME NEW s, Queued(s) \in Proposal, NEW vs \in Seq(Node), vs # <<>>, NEW k \in Nat
  PROVE  \E r : Rounds(r, vs, k) /\ r[0] = Queued(s) /\ r[k] = AdvanceQueue(s, vs, k)
<1> DEFINE base == [index |-> s.proposerIndex, queue |-> s.proposerQueue]
           places == [i \in 1..k |-> i]
           D == DOMAIN places
           next(q) == GetNextProposer(vs, q.queue)
           Fits(F) == F = [w \in SUBSET D |-> IF w = {} THEN base ELSE next(F[w \ {Max(w)}])]
           F0 == CHOOSE F : Fits(F)
           V == Proposal
           step == [p \in V \X (1..k) |-> next(p[1])]
<1>1. AdvanceQueue(s, vs, k) = F0[D]
  BY Zenon DEF AdvanceQueue, FoldLeft, MapThenFoldSet
<1>2. D = 1..k /\ base = Queued(s) /\ base \in V
  BY DEF Queued
<1>3. \A q \in V : next(q) \in V
  BY NextProposerType DEF Proposal
<1> HIDE DEF base, next, V, D
<1>4. step \in [V \X (1..k) -> V] /\ \A q \in V, i \in 1..k : step[<<q, i>>] = next(q)
  BY <1>3
<1> HIDE DEF step
<1>5. PICK F : Folding(F, k, V, base, step)
  BY <1>2, <1>4, FoldingExists
<1>6. Fits(F)
  <2>1. ASSUME NEW w \in SUBSET D, w # {}
        PROVE  F[w] = next(F[w \ {Max(w)}])
    <3>1. Max(w) \in 1..k /\ w \ {Max(w)} \in SUBSET (1..k) /\ F[w] = step[<<F[w \ {Max(w)}], Max(w)>>]
      BY <1>2, <1>5, <2>1 DEF Folding
    <3>2. F[w \ {Max(w)}] \in V
      BY <1>5, <3>1 DEF Folding
    <3> QED BY <1>4, <3>1, <3>2
  <2>2. F = [w \in SUBSET D |-> F[w]] /\ F[{}] = base
    BY <1>2, <1>5 DEF Folding
  <2> QED BY <2>1, <2>2
<1>7. Fits(F0)
  <2> HIDE DEF Fits
  <2> QED BY <1>6
<1> HIDE DEF F0
<1>8. Follows(F0, k, V, base, step)
  <2>1. F0[{}] = base /\ \A w \in SUBSET D : w # {} => F0[w] = next(F0[w \ {Max(w)}])
    BY <1>7
  <2> HIDE DEF Fits
  <2>2. ASSUME NEW w \in SUBSET (1..k), w # {}, F0[w \ {Max(w)}] \in V
        PROVE  F0[w] = step[<<F0[w \ {Max(w)}], Max(w)>>]
    <3>1. Max(w) \in 1..k /\ w \in SUBSET D
      BY <1>2, <1>5, <2>2 DEF Folding
    <3> QED BY <1>4, <2>1, <2>2, <3>1
  <2> QED BY <2>1, <2>2 DEF Follows
<1>9. PICK r : Run(r, F0, k, V, base, step)
  BY <1>2, <1>4, <1>8, FoldRuns
<1>10. Rounds(r, vs, k)
  <2>1. ASSUME NEW i \in 1..k
        PROVE  r[i] = GetNextProposer(vs, r[i - 1].queue)
    <3>1. i - 1 \in 0..k
      OBVIOUS
    <3>2. r[i - 1] \in V /\ r[i] = step[<<r[i - 1], i>>]
      BY <1>9, <3>1 DEF Run
    <3> QED BY <1>4, <3>2 DEF next
  <2> QED BY <1>9, <2>1 DEF Rounds, Run, V
<1> QED BY <1>1, <1>2, <1>9, <1>10 DEF Run

LEMMA AdvanceType ==
  ASSUME NEW s, Queued(s) \in Proposal, NEW vs \in Seq(Node), vs # <<>>, NEW k \in Nat
  PROVE  AdvanceQueue(s, vs, k) \in Proposal
<1>1. PICK r : Rounds(r, vs, k) /\ r[k] = AdvanceQueue(s, vs, k)
  BY AdvanceRun
<1> QED BY <1>1 DEF Rounds

(* The proposer and the queue of round t, as the founders come to it. *)
AtStart == [proposerIndex |-> 1, proposerQueue |-> <<>>]
AtRound(t) == AdvanceQueue(AtStart, Founders, t)

LEMMA FoundersType == Founders \in Seq(Node) /\ Founders # <<>> /\ Queued(AtStart) \in Proposal
BY SyncAssumption DEF SyncAssumption, Queued, AtStart, Proposal

LEMMA AtRoundZero == AtRound(0) = Queued(AtStart)
<1>1. 0 \in Nat
  OBVIOUS
<1>2. PICK r : Rounds(r, Founders, 0) /\ r[0] = Queued(AtStart) /\ r[0] = AdvanceQueue(AtStart, Founders, 0)
  BY <1>1, AdvanceRun, FoundersType
<1> QED BY <1>2 DEF AtRound

(* Who went on from round t as the founders do is where they are. *)
LEMMA AdvanceAgrees ==
  ASSUME NEW s, NEW t \in Nat, NEW k \in Nat, Queued(s) = AtRound(t)
  PROVE  AdvanceQueue(s, Founders, k) = AtRound(t + k)
<1>1. t + k \in Nat
  OBVIOUS
<1>2. PICK a : Rounds(a, Founders, t) /\ a[0] = Queued(AtStart) /\ a[t] = AdvanceQueue(AtStart, Founders, t)
  BY AdvanceRun, FoundersType
<1>3. PICK b : Rounds(b, Founders, t + k) /\ b[0] = Queued(AtStart) /\ b[t + k] = AdvanceQueue(AtStart, Founders, t + k)
  BY <1>1, AdvanceRun, FoundersType
<1>4. Queued(s) \in Proposal
  BY <1>2 DEF AtRound, Rounds
<1>5. PICK c : Rounds(c, Founders, k) /\ c[0] = Queued(s) /\ c[k] = AdvanceQueue(s, Founders, k)
  BY <1>4, AdvanceRun, FoundersType
<1>6. \A i \in 0..t : a[i] = b[i]
  <2> DEFINE Holds == {i \in 0..t : a[i] = b[i]}
  <2>1. 0 \in Holds
    BY <1>2, <1>3
  <2>2. \A i \in 0..t : i \in Holds /\ i < t => i + 1 \in Holds
    <3> SUFFICES ASSUME NEW i \in 0..t, i \in Holds, i < t
                 PROVE  a[i + 1] = b[i + 1]
      OBVIOUS
    <3>1. i + 1 \in 1..t /\ i + 1 \in 1..(t + k) /\ (i + 1) - 1 = i
      OBVIOUS
    <3>2. a[i + 1] = GetNextProposer(Founders, a[i].queue) /\ b[i + 1] = GetNextProposer(Founders, b[i].queue)
      BY <1>2, <1>3, <3>1 DEF Rounds
    <3> QED BY <3>2
  <2> HIDE DEF Holds
  <2>3. \A i \in 0..t : i \in Holds
    <3>1. 0 \in Int /\ t \in Int
      OBVIOUS
    <3> QED BY <2>1, <2>2, <3>1, IntervalInduction
  <2> QED BY <2>3 DEF Holds
<1>7. c[0] = b[t]
  BY <1>2, <1>5, <1>6 DEF AtRound
<1>8. \A i \in 0..k : c[i] = b[t + i]
  <2> DEFINE Holds == {i \in 0..k : c[i] = b[t + i]}
  <2>1. 0 \in Holds
    BY <1>7
  <2>2. \A i \in 0..k : i \in Holds /\ i < k => i + 1 \in Holds
    <3> SUFFICES ASSUME NEW i \in 0..k, i \in Holds, i < k
                 PROVE  c[i + 1] = b[t + (i + 1)]
      OBVIOUS
    <3>1. i + 1 \in 1..k /\ (i + 1) - 1 = i /\ t + (i + 1) \in 1..(t + k) /\ (t + (i + 1)) - 1 = t + i
      OBVIOUS
    <3>2. c[i + 1] = GetNextProposer(Founders, c[i].queue)
      BY <1>5, <3>1 DEF Rounds
    <3>3. b[t + (i + 1)] = GetNextProposer(Founders, b[t + i].queue)
      <4> DEFINE j == t + (i + 1)
      <4>1. j \in 1..(t + k) /\ j - 1 = t + i
        BY <3>1
      <4> HIDE DEF j
      <4>2. b[j] = GetNextProposer(Founders, b[j - 1].queue)
        BY <1>3, <4>1 DEF Rounds
      <4> QED BY <4>1, <4>2 DEF j
    <3> QED BY <3>2, <3>3
  <2> HIDE DEF Holds
  <2>3. \A i \in 0..k : i \in Holds
    <3>1. 0 \in Int /\ k \in Int
      OBVIOUS
    <3> QED BY <2>1, <2>2, <3>1, IntervalInduction
  <2> QED BY <2>3 DEF Holds
<1>9. c[k] = b[t + k]
  BY <1>8
<1> QED BY <1>3, <1>5, <1>9 DEF AtRound

------------------------------------------------------------------------------
(* The validators after a block. *)
Joined(vs, b) == IF b.creates = NoNode THEN vs ELSE Append(vs, b.creates)

LEMMA ValidatorsIn ==
  ASSUME chain \in Seq(CertifiedBlock), NEW h \in Nat, LOG_START <= h, h <= Top,
         NEW V, Founders \in V, \A vs \in V, i \in DOMAIN chain : Joined(vs, chain[i]) \in V
  PROVE  ValidatorsAfter(h) \in V
<1> DEFINE blocks == SubSeq(chain, 1, h - LOG_START)
           n == h - LOG_START
           D == DOMAIN blocks
           next(q, i) == IF blocks[i].creates = NoNode THEN q ELSE Append(q, blocks[i].creates)
           Fits(F) == F = [w \in SUBSET D |-> IF w = {} THEN Founders ELSE next(F[w \ {Max(w)}], Max(w))]
           F0 == CHOOSE F : Fits(F)
           step == [p \in V \X (1..n) |-> next(p[1], p[2])]
<1>1. ValidatorsAfter(h) = F0[D]
  BY Zenon DEF ValidatorsAfter, FoldLeft, MapThenFoldSet
<1>2. n \in Nat /\ D = 1..n /\ \A i \in 1..n : i \in DOMAIN chain /\ blocks[i] = chain[i]
  BY DEF Top, LOG_START
<1>3. \A q \in V, i \in 1..n : next(q, i) \in V
  BY <1>2 DEF Joined
<1> HIDE DEF next, D, blocks, n
<1>4. step \in [V \X (1..n) -> V] /\ \A q \in V, i \in 1..n : step[<<q, i>>] = next(q, i)
  BY <1>3
<1> HIDE DEF step
<1>5. PICK F : Folding(F, n, V, Founders, step)
  BY <1>2, <1>4, FoldingExists
<1>6. Fits(F)
  <2>1. ASSUME NEW w \in SUBSET D, w # {}
        PROVE  F[w] = next(F[w \ {Max(w)}], Max(w))
    <3>1. Max(w) \in 1..n /\ w \ {Max(w)} \in SUBSET (1..n) /\ F[w] = step[<<F[w \ {Max(w)}], Max(w)>>]
      BY <1>2, <1>5, <2>1 DEF Folding
    <3>2. F[w \ {Max(w)}] \in V
      BY <1>5, <3>1 DEF Folding
    <3> QED BY <1>4, <3>1, <3>2
  <2>2. F = [w \in SUBSET D |-> F[w]] /\ F[{}] = Founders
    BY <1>2, <1>5 DEF Folding
  <2> QED BY <2>1, <2>2
<1>7. Fits(F0)
  <2> HIDE DEF Fits
  <2> QED BY <1>6
<1> HIDE DEF F0
<1>8. Follows(F0, n, V, Founders, step)
  <2>1. F0[{}] = Founders /\ \A w \in SUBSET D : w # {} => F0[w] = next(F0[w \ {Max(w)}], Max(w))
    BY <1>7
  <2> HIDE DEF Fits
  <2>2. ASSUME NEW w \in SUBSET (1..n), w # {}, F0[w \ {Max(w)}] \in V
        PROVE  F0[w] = step[<<F0[w \ {Max(w)}], Max(w)>>]
    <3>1. Max(w) \in 1..n /\ w \in SUBSET D
      BY <1>2, <1>5, <2>2 DEF Folding
    <3> QED BY <1>4, <2>1, <2>2, <3>1
  <2> QED BY <2>1, <2>2 DEF Follows
<1>9. PICK r : Run(r, F0, n, V, Founders, step)
  BY <1>2, <1>4, <1>8, FoldRuns
<1>10. r[n] \in V /\ r[n] = F0[D]
  BY <1>2, <1>9 DEF Run
<1> QED BY <1>1, <1>10

LEMMA ValidatorsType ==
  ASSUME chain \in Seq(CertifiedBlock), NEW h \in Nat, LOG_START <= h, h <= Top
  PROVE  ValidatorsAfter(h) \in Seq(Node) /\ ValidatorsAfter(h) # <<>>
<1> DEFINE V == Seq(Node) \ {<<>>}
<1>1. Founders \in V
  BY FoundersType
<1>2. ASSUME NEW vs \in V, NEW i \in DOMAIN chain
      PROVE  Joined(vs, chain[i]) \in V
  <2>1. chain[i] \in CertifiedBlock
    OBVIOUS
  <2>2. chain[i].creates \in Node \cup {NoNode}
    BY <2>1 DEF CertifiedBlock
  <2> QED BY <2>2 DEF Joined
<1> HIDE DEF V
<1>3. ValidatorsAfter(h) \in V
  BY <1>1, <1>2, ValidatorsIn
<1> QED BY <1>3 DEF V

(* The validators are those of genesis as long as nobody joined. *)
NoneJoined == \A i \in DOMAIN chain : chain[i].creates = NoNode

LEMMA ValidatorsAreFounders ==
  ASSUME chain \in Seq(CertifiedBlock), NEW h \in Nat, LOG_START <= h, h <= Top, NoneJoined
  PROVE  ValidatorsAfter(h) = Founders
<1> DEFINE V == {Founders}
<1>1. Founders \in V /\ \A vs \in V, i \in DOMAIN chain : Joined(vs, chain[i]) \in V
  BY DEF NoneJoined, Joined
<1> HIDE DEF V
<1>2. ValidatorsAfter(h) \in V
  BY <1>1, ValidatorsIn
<1> QED BY <1>2 DEF V

------------------------------------------------------------------------------
(* Messages and nodes. *)
SyncRequest == [type : {"syncRequest"}, to : Node, from : Node, start : Nat]
SyncResponse ==
    [type : {"syncResponse"}, to : Node, from : Node, first : Nat, last : Nat, top : Nat, termId : Nat,
     entries : SUBSET ((LOG_START + 1)..Top)]
NodeRequest == [type : {"nodeRequest"}, to : Node, from : Node]
NodeResponse ==
    {m \in [type : {"nodeResponse"}, to : Node, from : Node, nodes : Seq(Node), proposerQueue : Seq(Entry),
            proposerQueueTermId : Nat, proposerIndex : Nat, mixed : BOOLEAN] :
        NoneJoined /\ ~m.mixed => Queued(m) = AtRound(m.proposerQueueTermId)}
UpdateNode == [type : {"updateNode"}, to : Node, address : Node]
BlockProposal ==
    {m \in [type : {"proposal"}, to : Node, termId : Nat, height : Nat, kept : BOOLEAN, proposerId : Nat,
            proposerIndex : Nat, proposerQueue : Seq(Entry), mixed : BOOLEAN] :
        NoneJoined /\ ~m.mixed => Queued(m) = AtRound(m.termId)}

Message ==
    SyncRequest \cup SyncResponse \cup NodeRequest \cup NodeResponse \cup UpdateNode \cup BlockProposal

NodeState ==
    [fsm : {"unstarted", "Node", "active", "commit"}, termId : Nat, nextHeight : Nat, executed : Nat,
     nodes : Seq(Node), currentNodeId : Nat, proposerQueue : Seq(Entry), proposerIndex : Nat,
     proposerQueueTermId : Nat, lastLogIndex : Nat, logs : SUBSET Nat, store : Store, syncing : BOOLEAN,
     base : Nat, mixed : BOOLEAN, out : SUBSET Message, ok : BOOLEAN]

AfterGenesis == {h \in Nat : h > LOG_START}

NodeSound(s, n) ==
    /\ StoreSound(s.store, s.base)
    /\ s.store.last = s.nextHeight - 1 /\ s.store.last <= s.lastLogIndex
    /\ s.logs \subseteq AfterGenesis
    /\ s.currentNodeId \in DOMAIN s.nodes /\ s.nodes[s.currentNodeId] = n
    /\ NoneJoined /\ ~s.mixed => Queued(s) = AtRound(s.proposerQueueTermId)

Good(n) == {s \in NodeState : NodeSound(s, n)}

LEMMA SendGood ==
  ASSUME NEW n \in Node, NEW s \in Good(n), NEW ms \in SUBSET Message
  PROVE  Send(s, ms) \in Good(n) /\ Send(s, ms).lastLogIndex = s.lastLogIndex
<1>1. s.out \cup ms \in SUBSET Message
  BY DEF Good, NodeState
<1> HIDE DEF Message
<1> QED BY <1>1 DEF Send, Good, NodeState, NodeSound, Queued

LEMMA RevertGood ==
  ASSUME NEW n \in Node, NEW s \in Good(n)
  PROVE  Revert(s) \in Good(n)
BY DEF Revert, Good, NodeState, NodeSound, Queued

LEMMA FsmGood ==
  ASSUME NEW n \in Node, NEW s \in Good(n), NEW fsm \in {"Node", "active", "commit"}
  PROVE  [s EXCEPT !.fsm = fsm] \in Good(n) /\ [s EXCEPT !.fsm = fsm].lastLogIndex = s.lastLogIndex
BY DEF Good, NodeState, NodeSound, Queued

LEMMA TermGood ==
  ASSUME NEW n \in Node, NEW s \in Good(n), NEW t \in Nat
  PROVE  [s EXCEPT !.termId = t] \in Good(n) /\ [s EXCEPT !.termId = t].lastLogIndex = s.lastLogIndex
BY DEF Good, NodeState, NodeSound, Queued

(* What Good says of the parts that matter for the blocks. *)
LEMMA GoodParts ==
  ASSUME chain \in Seq(CertifiedBlock), NEW n \in Node, NEW s \in Good(n)
  PROVE  /\ s.store \in Store /\ s.store.last \in Nat /\ LOG_START <= s.store.last /\ s.store.last <= Top
         /\ s.nextHeight = s.store.last + 1 /\ s.base \in Nat /\ s.termId \in Nat /\ s.proposerQueueTermId \in Nat
         /\ s.lastLogIndex \in Nat /\ s.logs \subseteq AfterGenesis
         /\ Validators(s) \in Seq(Node) /\ Validators(s) # <<>> /\ (NoneJoined => Validators(s) = Founders)
         /\ s.nodes \in Seq(Node) /\ s.currentNodeId \in DOMAIN s.nodes /\ s.nodes[s.currentNodeId] = n
         /\ Queued(s) \in Proposal
<1>1. /\ s.store \in Store /\ s.store.last \in Nat /\ LOG_START <= s.store.last /\ s.store.last <= Top
      /\ s.nextHeight = s.store.last + 1 /\ s.base \in Nat /\ s.termId \in Nat /\ s.proposerQueueTermId \in Nat
      /\ s.lastLogIndex \in Nat /\ s.logs \subseteq AfterGenesis
  <2>1. s \in NodeState /\ NodeSound(s, n) /\ Top \in Nat
    BY TopType DEF Good
  <2>2. /\ s.store \in Store /\ s.base \in Nat /\ s.termId \in Nat /\ s.proposerQueueTermId \in Nat
        /\ s.lastLogIndex \in Nat /\ s.nextHeight \in Nat
    BY <2>1 DEF NodeState
  <2>3. s.store.last \in Nat
    BY <2>2 DEF Store
  <2>4. LOG_START <= s.base /\ s.base <= s.store.last /\ s.store.last <= Top
    BY <2>1 DEF NodeSound, StoreSound, BlocksSound
  <2>5. s.store.last = s.nextHeight - 1 /\ s.logs \subseteq AfterGenesis
    BY <2>1 DEF NodeSound
  <2>6. s.nextHeight = s.store.last + 1 /\ LOG_START <= s.store.last
    <3>1. s.store.last = s.nextHeight - 1
      BY <2>5
    <3>2. s.base \in Nat /\ s.nextHeight \in Nat /\ s.store.last \in Nat
      BY <2>2, <2>3
    <3> QED BY <2>4, <3>1, <3>2 DEF LOG_START
  <2> QED BY <2>2, <2>3, <2>4, <2>5, <2>6
<1>2. Validators(s) = ValidatorsAfter(s.store.last)
  <2>1. s.nextHeight - 1 = s.store.last
    BY <1>1
  <2> QED BY <2>1 DEF Validators
<1>3. Validators(s) \in Seq(Node) /\ Validators(s) # <<>> /\ (NoneJoined => Validators(s) = Founders)
  BY <1>1, <1>2, ValidatorsType, ValidatorsAreFounders
<1>4. Queued(s) \in Proposal
  BY DEF Good, NodeState, Queued, Proposal
<1> QED BY <1>1, <1>3, <1>4 DEF Good, NodeState, NodeSound

LEMMA CatchUpGood ==
  ASSUME chain \in Seq(CertifiedBlock), NEW n \in Node, NEW s \in Good(n)
  PROVE  CatchUp(s) \in Good(n) /\ \A k \in {"store", "base", "nextHeight", "lastLogIndex", "logs", "nodes",
                                             "currentNodeId", "fsm"} : CatchUp(s)[k] = s[k]
<1> DEFINE k == s.termId - s.proposerQueueTermId
           r == AdvanceQueue(s, Validators(s), k)
           c == [s EXCEPT !.proposerIndex = r.index, !.proposerQueue = r.queue, !.proposerQueueTermId = s.termId]
<1>1. CASE s.proposerQueueTermId >= s.termId
  BY <1>1 DEF CatchUp
<1>2. CASE ~ (s.proposerQueueTermId >= s.termId)
  <2>1. k \in Nat /\ s.proposerQueueTermId + k = s.termId
    BY <1>2, GoodParts
  <2>2. CatchUp(s) = c
    BY <1>2 DEF CatchUp
  <2>3. r \in Proposal
    <3> HIDE DEF k
    <3> QED BY <2>1, GoodParts, AdvanceType
  <2>4. NoneJoined /\ ~s.mixed => r = AtRound(s.termId)
    <3>1. SUFFICES ASSUME NoneJoined, ~s.mixed
                   PROVE  r = AtRound(s.termId)
      OBVIOUS
    <3>2. Validators(s) = Founders /\ Queued(s) = AtRound(s.proposerQueueTermId) /\ s.proposerQueueTermId \in Nat
      BY <3>1, GoodParts DEF Good, NodeSound
    <3> HIDE DEF k
    <3>3. AdvanceQueue(s, Founders, k) = AtRound(s.proposerQueueTermId + k)
      BY <2>1, <3>2, AdvanceAgrees
    <3> QED BY <2>1, <3>2, <3>3
  <2> HIDE DEF r, k
  <2>5. [index |-> r.index, queue |-> r.queue] = r /\ r.index \in Nat /\ r.queue \in Seq(Entry)
    BY <2>3 DEF Proposal
  <2>6. Queued(c) = r
    BY <2>5 DEF Good, NodeState, Queued
  <2>7. c \in NodeState
    BY <2>5, GoodParts DEF Good, NodeState
  <2>8. /\ c.store = s.store /\ c.base = s.base /\ c.nextHeight = s.nextHeight /\ c.lastLogIndex = s.lastLogIndex
        /\ c.logs = s.logs /\ c.nodes = s.nodes /\ c.currentNodeId = s.currentNodeId /\ c.fsm = s.fsm
        /\ c.proposerQueueTermId = s.termId /\ c.mixed = s.mixed
    BY DEF Good, NodeState
  <2> HIDE DEF c
  <2>9. NodeSound(c, n)
    BY <2>4, <2>6, <2>8 DEF Good, NodeSound
  <2> QED BY <2>2, <2>7, <2>8, <2>9 DEF Good
<1> QED BY <1>1, <1>2

(* A round is entered with its own queue: what a proposer says of both agrees. *)
LEMMA SetRoundProposerGood ==
  ASSUME chain \in Seq(CertifiedBlock), NEW n \in Node, NEW s \in Good(n)
  PROVE  LET r == SetRoundProposer(s)
         IN  /\ r \in Good(n) /\ r.lastLogIndex = s.lastLogIndex /\ r.proposerQueueTermId = r.termId
<1>1. CASE s.proposerQueueTermId > s.termId
  <2> DEFINE r == [s EXCEPT !.termId = s.proposerQueueTermId]
  <2>1. SetRoundProposer(s) = r
    BY <1>1 DEF SetRoundProposer
  <2>2. r \in Good(n) /\ r.lastLogIndex = s.lastLogIndex
    BY GoodParts, TermGood
  <2>3. r.proposerQueueTermId = r.termId
    BY DEF Good, NodeState
  <2> QED BY <2>1, <2>2, <2>3
<1>2. CASE ~ (s.proposerQueueTermId > s.termId)
  <2>1. SetRoundProposer(s) = CatchUp(s)
    BY <1>2 DEF SetRoundProposer
  <2>2. CatchUp(s) \in Good(n) /\ CatchUp(s).lastLogIndex = s.lastLogIndex
    BY CatchUpGood
  <2>3. CatchUp(s).proposerQueueTermId = CatchUp(s).termId
    BY <1>2, GoodParts DEF CatchUp, Good, NodeState
  <2> QED BY <2>1, <2>2, <2>3
<1> QED BY <1>1, <1>2

(* An entry of the height a node works on, or of a later one, in its log. *)
LEMMA LogGood ==
  ASSUME NEW n \in Node, NEW s \in Good(n), NEW h \in AfterGenesis, NEW last \in Nat, last >= s.lastLogIndex
  PROVE  LET r == [s EXCEPT !.logs = @ \cup {h}, !.lastLogIndex = last]
             q == [s EXCEPT !.lastLogIndex = last]
         IN  r \in Good(n) /\ r.lastLogIndex = last /\ q \in Good(n) /\ q.lastLogIndex = last
<1>1. /\ s \in NodeState /\ NodeSound(s, n) /\ s.lastLogIndex \in Nat /\ s.store.last \in Nat
      /\ h \in Nat /\ s.logs \subseteq Nat
  BY DEF Good, NodeState, Store, AfterGenesis
<1>2. s.store.last <= last /\ s.logs \cup {h} \in SUBSET Nat /\ s.logs \cup {h} \subseteq AfterGenesis
  BY <1>1 DEF NodeSound
<1>3. ASSUME NEW logs \in SUBSET Nat, logs \subseteq AfterGenesis
      PROVE  [s EXCEPT !.logs = logs, !.lastLogIndex = last] \in Good(n)
  <2> DEFINE r == [s EXCEPT !.logs = logs, !.lastLogIndex = last]
  <2>1. r \in NodeState
    BY <1>1, <1>3 DEF NodeState
  <2>2. /\ r.nextHeight = s.nextHeight /\ r.logs = logs /\ r.nodes = s.nodes /\ r.store = s.store
        /\ r.base = s.base /\ r.lastLogIndex = last /\ r.currentNodeId = s.currentNodeId
        /\ Queued(r) = Queued(s) /\ r.proposerQueueTermId = s.proposerQueueTermId /\ r.mixed = s.mixed
    BY <1>1 DEF NodeState, Queued
  <2> HIDE DEF r
  <2>3. NodeSound(r, n)
    BY <1>1, <1>2, <1>3, <2>2 DEF NodeSound
  <2> QED BY <2>1, <2>3 DEF Good, r
<1>4. [s EXCEPT !.logs = @ \cup {h}, !.lastLogIndex = last] = [s EXCEPT !.logs = s.logs \cup {h}, !.lastLogIndex = last]
  OBVIOUS
<1>5. [s EXCEPT !.lastLogIndex = last] = [s EXCEPT !.logs = s.logs, !.lastLogIndex = last]
  BY <1>1 DEF NodeState
<1>6. s.logs \in SUBSET Nat /\ s.logs \subseteq AfterGenesis
  BY <1>1 DEF NodeSound
<1>7. [s EXCEPT !.logs = @ \cup {h}, !.lastLogIndex = last].lastLogIndex = last /\ [s EXCEPT !.lastLogIndex = last].lastLogIndex = last
  BY <1>1 DEF NodeState
<1> QED BY <1>2, <1>3, <1>4, <1>5, <1>6, <1>7

LEMMA NextHeight ==
  ASSUME chain \in Seq(CertifiedBlock), NEW n \in Node, NEW s \in Good(n)
  PROVE  s.nextHeight \in AfterGenesis /\ s.nextHeight = s.store.last + 1 /\ s.nextHeight \in Nat
BY GoodParts DEF AfterGenesis, LOG_START

LEMMA ProposeGood ==
  ASSUME chain \in Seq(CertifiedBlock), NEW n \in Node, NEW s \in Good(n), s.proposerQueueTermId = s.termId
  PROVE  Propose(s) \in Good(n) /\ Propose(s).lastLogIndex >= s.lastLogIndex
<1> DEFINE h == s.nextHeight
           builds == NodeInfoComplete(s) /\ s.lastLogIndex = s.store.last
           q == [s EXCEPT !.logs = @ \cup {h}, !.lastLogIndex = h]
           p == IF builds THEN q ELSE s
           self == s.nodes[s.currentNodeId]
           msg(m) == [type |-> "proposal", to |-> m, termId |-> s.termId, height |-> h,
                      kept |-> h \in s.logs, proposerId |-> s.currentNodeId,
                      proposerIndex |-> s.proposerIndex, proposerQueue |-> s.proposerQueue,
                      mixed |-> s.mixed]
           ms == {msg(m) : m \in Node \ {self}}
<1>1. Propose(s) = IF h \notin p.logs THEN p ELSE Send(p, ms)
  BY Zenon DEF Propose
<1>2. p \in Good(n) /\ p.lastLogIndex >= s.lastLogIndex
  <2>1. h \in AfterGenesis /\ h = s.store.last + 1 /\ h \in Nat /\ s.lastLogIndex \in Nat
    BY NextHeight, GoodParts
  <2>2. CASE builds
    <3>1. h >= s.lastLogIndex
      BY <2>1, <2>2
    <3>2. ASSUME NEW k \in AfterGenesis, NEW last \in Nat, last >= s.lastLogIndex
          PROVE  [s EXCEPT !.logs = @ \cup {k}, !.lastLogIndex = last] \in Good(n)
      BY <3>2, LogGood
    <3>3. q \in Good(n)
      BY ONLY <2>1, <3>1, <3>2
    <3>4. q.lastLogIndex = h
      BY DEF Good, NodeState
    <3> HIDE DEF q, h
    <3> QED BY <2>2, <3>1, <3>3, <3>4
  <2>3. CASE ~builds
    BY <2>1, <2>3
  <2> QED BY <2>2, <2>3
<1>3. ms \in SUBSET Message
  <2>1. /\ s.termId \in Nat /\ h \in Nat /\ (h \in s.logs) \in BOOLEAN /\ s.currentNodeId \in Nat
        /\ s.proposerIndex \in Nat /\ s.proposerQueue \in Seq(Entry) /\ s.mixed \in BOOLEAN
    BY DEF Good, NodeState
  <2>2. ASSUME NEW m \in Node
        PROVE  msg(m) \in BlockProposal
    <3> DEFINE r == msg(m)
    <3>1. r \in [type : {"proposal"}, to : Node, termId : Nat, height : Nat, kept : BOOLEAN, proposerId : Nat,
                  proposerIndex : Nat, proposerQueue : Seq(Entry), mixed : BOOLEAN]
      BY <2>1
    <3>2. Queued(r) = Queued(s) /\ r.termId = s.termId /\ r.mixed = s.mixed
      BY DEF Queued
    <3>3. NoneJoined /\ ~s.mixed => Queued(s) = AtRound(s.termId)
      BY DEF Good, NodeSound
    <3> HIDE DEF r
    <3>4. r \in BlockProposal
      BY <3>1, <3>2, <3>3 DEF BlockProposal
    <3> QED BY <3>4 DEF r
  <2> HIDE DEF msg
  <2>3. ms \subseteq BlockProposal
    BY <2>2
  <2> QED BY <2>3 DEF Message
<1> HIDE DEF p, ms
<1> QED BY <1>1, <1>2, <1>3, SendGood

LEMMA EnterActiveGood ==
  ASSUME chain \in Seq(CertifiedBlock), NEW n \in Node, NEW s \in Good(n)
  PROVE  EnterActive(s) \in Good(n) /\ EnterActive(s).lastLogIndex >= s.lastLogIndex
<1> DEFINE t == [s EXCEPT !.termId = @ + 1]
           r == [SetRoundProposer(t) EXCEPT !.fsm = "active"]
<1>1. t \in Good(n) /\ t.lastLogIndex = s.lastLogIndex
  <2>1. s.termId + 1 \in Nat
    BY GoodParts
  <2> QED BY <2>1, TermGood
<1> HIDE DEF t
<1>2. SetRoundProposer(t) \in Good(n) /\ SetRoundProposer(t).lastLogIndex = t.lastLogIndex
  BY <1>1, SetRoundProposerGood
<1>3. r \in Good(n) /\ r.lastLogIndex = s.lastLogIndex /\ r.lastLogIndex \in Nat
  <2>1. r \in Good(n) /\ r.lastLogIndex = s.lastLogIndex
    BY <1>1, <1>2, FsmGood
  <2> HIDE DEF r
  <2> QED BY <2>1, GoodParts
<1>4. r.proposerQueueTermId = r.termId
  <2>1. SetRoundProposer(t).proposerQueueTermId = SetRoundProposer(t).termId
    BY <1>1, SetRoundProposerGood
  <2> QED BY <1>2, <2>1 DEF Good, NodeState
<1>5. EnterActive(s) = IF r.proposerIndex = r.currentNodeId /\ r.nextHeight <= LOG_START + MaxBlocks THEN Propose(r) ELSE r
  BY Zenon DEF EnterActive, r, t
<1> HIDE DEF r
<1>6. r.lastLogIndex >= r.lastLogIndex
  BY <1>3
<1> QED BY <1>3, <1>4, <1>5, <1>6, ProposeGood

LEMMA PeersType ==
  ASSUME NEW n \in Node, NEW s \in Good(n)
  PROVE  Peers(s) \subseteq Node
<1>1. \A i \in DOMAIN s.nodes : s.nodes[i] \in Node
  <2>1. s.nodes \in Seq(Node)
    BY DEF Good, NodeState
  <2> QED BY <2>1
<1> QED BY <1>1 DEF Peers

LEMMA RequestBlockSyncGood ==
  ASSUME chain \in Seq(CertifiedBlock), NEW n \in Node, NEW s \in Good(n)
  PROVE  RequestBlockSync(s, n) \in Good(n) /\ RequestBlockSync(s, n).lastLogIndex = s.lastLogIndex
<1> DEFINE ms == {[type |-> "syncRequest", to |-> m, from |-> n, start |-> s.store.last + 1] : m \in Peers(s)}
<1>1. s.store.last + 1 \in Nat
  BY GoodParts
<1>2. ms \subseteq SyncRequest
  BY <1>1, PeersType DEF SyncRequest
<1>3. ms \in SUBSET Message
  BY <1>2 DEF Message
<1> QED BY <1>3, SendGood DEF RequestBlockSync

LEMMA RegisterGood ==
  ASSUME chain \in Seq(CertifiedBlock), NEW n \in Node, NEW s \in Good(n)
  PROVE  /\ RegisterValidatorWithNetwork(s, n) \in Good(n)
         /\ RegisterValidatorWithNetwork(s, n).lastLogIndex = s.lastLogIndex
<1> DEFINE ms == {[type |-> "updateNode", to |-> m, address |-> s.nodes[s.currentNodeId]] : m \in Node \ {n}}
<1>1. s.nodes[s.currentNodeId] \in Node
  BY GoodParts
<1>2. ms \subseteq UpdateNode
  BY <1>1 DEF UpdateNode
<1>3. ms \in SUBSET Message
  BY <1>2 DEF Message
<1> QED BY <1>3, SendGood DEF RegisterValidatorWithNetwork

LEMMA SendNodeSyncRequestGood ==
  ASSUME NEW n \in Node, NEW s \in Good(n)
  PROVE  SendNodeSyncRequest(s, n) \in Good(n)
<1> DEFINE ms == {[type |-> "nodeRequest", to |-> m, from |-> n] : m \in Peers(s)}
<1>1. ms \subseteq NodeRequest
  BY PeersType DEF NodeRequest
<1>2. ms \in SUBSET Message
  BY <1>1 DEF Message
<1> QED BY <1>2, SendGood DEF SendNodeSyncRequest

(* The list of nodes only grows when one is added. *)
LEMMA NodeAdded ==
  ASSUME NEW nodes \in Seq(Node), NEW a \in Node
  PROVE  /\ UpdateNodeEntry(nodes, a) \in Seq(Node)
         /\ \A i \in DOMAIN nodes : i \in DOMAIN UpdateNodeEntry(nodes, a) /\ UpdateNodeEntry(nodes, a)[i] = nodes[i]
<1>1. CASE a \in Range(nodes)
  BY <1>1 DEF UpdateNodeEntry
<1>2. CASE a \notin Range(nodes)
  <2>1. UpdateNodeEntry(nodes, a) = Append(nodes, a)
    BY <1>2 DEF UpdateNodeEntry
  <2> QED BY <2>1, AppendProperties
<1> QED BY <1>1, <1>2

LEMMA UpdateNodeGood ==
  ASSUME NEW n \in Node, NEW s \in Good(n), NEW a \in Node
  PROVE  [s EXCEPT !.nodes = UpdateNodeEntry(@, a)] \in Good(n)
<1>1. s.nodes \in Seq(Node)
  BY DEF Good, NodeState
<1> DEFINE ns == UpdateNodeEntry(s.nodes, a)
<1>2. ns \in Seq(Node) /\ \A i \in DOMAIN s.nodes : i \in DOMAIN ns /\ ns[i] = s.nodes[i]
  BY <1>1, NodeAdded
<1> HIDE DEF ns
<1>3. [s EXCEPT !.nodes = ns] \in Good(n)
  BY <1>2 DEF Good, NodeState, NodeSound, Queued
<1> QED BY <1>3 DEF ns

------------------------------------------------------------------------------
(* Finalization *)

(* What a node becomes as the block of its height is final. *)
Past(s, h, nodes, store, t) ==
    [s EXCEPT !.nextHeight = h + 1, !.executed = h, !.termId = t, !.logs = @ \ {h},
              !.nodes = nodes, !.store = store]

LEMMA FinalizedGood ==
  ASSUME chain \in Seq(CertifiedBlock), NEW n \in Node, NEW s \in Good(n), NEW h \in Nat,
         h = s.nextHeight, h <= Top, h <= s.lastLogIndex,
         NEW nodes \in Seq(Node), s.currentNodeId \in DOMAIN nodes, nodes[s.currentNodeId] = n,
         NEW store \in Store, store.last = h, StoreSound(store, s.base), NEW t \in Nat
  PROVE  /\ Past(s, h, nodes, store, t) \in Good(n)
         /\ Past(s, h, nodes, store, t).lastLogIndex = s.lastLogIndex
<1> DEFINE f == [s EXCEPT !.nextHeight = h + 1, !.executed = h, !.termId = t, !.logs = @ \ {h},
                          !.nodes = nodes, !.store = store]
<1>1. s \in NodeState /\ NodeSound(s, n) /\ h + 1 \in Nat /\ (h + 1) - 1 = h
  BY DEF Good
<1>2. f \in NodeState
  <2>1. s.logs \ {h} \in SUBSET Nat
    BY <1>1 DEF NodeState
  <2> QED BY <1>1, <2>1 DEF NodeState
<1>3. /\ f.nextHeight = h + 1 /\ f.logs = s.logs \ {h} /\ f.nodes = nodes /\ f.store = store
      /\ f.base = s.base /\ f.lastLogIndex = s.lastLogIndex /\ f.currentNodeId = s.currentNodeId
      /\ Queued(f) = Queued(s) /\ f.proposerQueueTermId = s.proposerQueueTermId /\ f.mixed = s.mixed
  BY <1>1 DEF NodeState, Queued
<1> HIDE DEF f
<1>4. NodeSound(f, n)
  BY <1>1, <1>3 DEF NodeSound
<1> QED BY <1>2, <1>3, <1>4 DEF Good, f, Past

LEMMA VerifiedHeight ==
  ASSUME chain \in Seq(CertifiedBlock), NEW n \in Node, NEW s \in Good(n), NEW h, VerifyBlockProposal(s, h)
  PROVE  h = s.nextHeight /\ h \in Nat /\ h = s.store.last + 1 /\ GetConsensusParams(s.store, 0) = ParamsFor(h)
BY GoodParts DEF VerifyBlockProposal

LEMMA FinalizeGood ==
  ASSUME chain \in Seq(CertifiedBlock), NEW n \in Node, NEW s \in Good(n), NEW h,
         VerifyBlockProposal(s, h), h <= Top, h <= s.lastLogIndex
  PROVE  Finalize(s, n, h) \in Good(n) /\ Finalize(s, n, h).lastLogIndex >= s.lastLogIndex
<1> DEFINE b == Block(h)
           q == CatchUp(s)
           nodes == IF b.creates = NoNode THEN q.nodes ELSE UpdateNodeEntry(q.nodes, b.creates)
           store == SetBlock(SaveConsensusParams(q.store, h + 1, IF b.changes THEN h ELSE Unchanged), h)
           f == Past(q, h, nodes, store, b.termId)
<1>1. h \in Nat /\ h = s.store.last + 1 /\ h = s.nextHeight /\ GetConsensusParams(s.store, 0) = ParamsFor(h)
  BY VerifiedHeight
<1>2. /\ s.store \in Store /\ s.base \in Nat /\ StoreSound(s.store, s.base) /\ h > LOG_START
      /\ s.nodes \in Seq(Node) /\ s.currentNodeId \in DOMAIN s.nodes /\ s.nodes[s.currentNodeId] = n
  <2>1. LOG_START <= s.store.last /\ s.store.last \in Nat
    BY GoodParts
  <2>2. h > LOG_START
    BY <1>1, <2>1 DEF LOG_START
  <2> QED BY <2>2, GoodParts DEF Good, NodeSound
<1>3. /\ q \in Good(n) /\ q.store = s.store /\ q.base = s.base /\ q.nextHeight = s.nextHeight
      /\ q.lastLogIndex = s.lastLogIndex /\ q.nodes = s.nodes /\ q.currentNodeId = s.currentNodeId
      /\ q.fsm = s.fsm
  BY CatchUpGood
<1>4. b \in CertifiedBlock
  <2>1. h \in (LOG_START + 1)..Top
    BY <1>1, <1>2, TopType DEF LOG_START
  <2> QED BY <2>1, TopType
<1>5. b.termId \in Nat /\ b.changes \in BOOLEAN /\ b.creates \in Node \cup {NoNode}
  BY <1>4 DEF CertifiedBlock
<1>6. store \in Store /\ store.last = h /\ StoreSound(store, s.base)
  BY <1>1, <1>2, <1>3, <1>5, SaveSound
<1> HIDE DEF q, store
<1>7. nodes \in Seq(Node) /\ s.currentNodeId \in DOMAIN nodes /\ nodes[s.currentNodeId] = n
  <2>1. CASE b.creates = NoNode
    BY <1>2, <1>3, <2>1
  <2>2. CASE b.creates # NoNode
    <3>1. b.creates \in Node /\ nodes = UpdateNodeEntry(s.nodes, b.creates)
      BY <1>3, <1>5, <2>2
    <3> HIDE DEF nodes
    <3> QED BY <1>2, <3>1, NodeAdded
  <2> QED BY <2>1, <2>2
<1> HIDE DEF nodes, b
<1>8. f \in Good(n) /\ f.lastLogIndex = s.lastLogIndex
  <2>1. /\ h \in Nat /\ h = q.nextHeight /\ h <= q.lastLogIndex /\ q \in Good(n) /\ b.termId \in Nat
        /\ nodes \in Seq(Node) /\ q.currentNodeId \in DOMAIN nodes /\ nodes[q.currentNodeId] = n
        /\ store \in Store /\ store.last = h /\ StoreSound(store, q.base)
    BY <1>1, <1>3, <1>5, <1>6, <1>7
  <2>2. f \in Good(n) /\ f.lastLogIndex = q.lastLogIndex
    BY <2>1, FinalizedGood
  <2> QED BY <1>3, <2>2
<1> HIDE DEF f
<1>9. Finalize(s, n, h) =
         IF ~MaySetBlock(s.store, h) \/ (b.changes /\ GetConsensusParams(s.store, h) = Missing) THEN Revert(s)
         ELSE IF b.creates = n /\ s.fsm = "Node"
              THEN EnterActive(RequestBlockSync(RegisterValidatorWithNetwork(f, n), n))
         ELSE f
  BY Zenon DEF Finalize, f, Past, q, nodes, store, b
<1> DEFINE g == EnterActive(RequestBlockSync(RegisterValidatorWithNetwork(f, n), n))
<1>10. g \in Good(n) /\ g.lastLogIndex >= s.lastLogIndex
  BY <1>8, RegisterGood, RequestBlockSyncGood, EnterActiveGood
<1>11. Revert(s) \in Good(n) /\ Revert(s).lastLogIndex = s.lastLogIndex
  BY RevertGood DEF Revert, Good, NodeState
<1>12. s.lastLogIndex >= s.lastLogIndex
  BY GoodParts
<1> HIDE DEF g
<1> QED BY <1>8, <1>9, <1>10, <1>11, <1>12 DEF g

LEMMA FinalizeStoredGood ==
  ASSUME chain \in Seq(CertifiedBlock), NEW n \in Node, NEW s \in Good(n), NEW h, h <= s.lastLogIndex, h <= Top
  PROVE  FinalizeStored(s, n, h) \in Good(n) /\ FinalizeStored(s, n, h).lastLogIndex >= s.lastLogIndex
<1>1. CASE s.ok /\ h \in s.logs /\ VerifyBlockProposal(s, h)
  <2>1. FinalizeStored(s, n, h) = Finalize(s, n, h)
    BY <1>1 DEF FinalizeStored
  <2> QED BY <1>1, <2>1, FinalizeGood
<1>2. CASE ~ (s.ok /\ h \in s.logs /\ VerifyBlockProposal(s, h))
  <2>1. FinalizeStored(s, n, h) \in {s, Revert(s)}
    BY <1>2 DEF FinalizeStored
  <2>2. Revert(s).lastLogIndex = s.lastLogIndex /\ s.lastLogIndex >= s.lastLogIndex
    BY GoodParts DEF Revert, Good, NodeState
  <2> QED BY <2>1, <2>2, RevertGood
<1> QED BY <1>1, <1>2

LEMMA StoreTrustedGood ==
  ASSUME chain \in Seq(CertifiedBlock), NEW n \in Node, NEW s \in Good(n),
         NEW h \in (LOG_START + 1)..Top, s.store.last <= h
  PROVE  /\ StoreTrusted(s, h) \in Good(n) /\ StoreTrusted(s, h).lastLogIndex = h
         /\ StoreTrusted(s, h).store = s.store /\ StoreTrusted(s, h).nextHeight = s.nextHeight
         /\ StoreTrusted(s, h).executed = s.executed
<1> DEFINE t == [s EXCEPT !.logs = @ \cup {h}, !.lastLogIndex = h]
<1>1. s \in NodeState /\ NodeSound(s, n) /\ h \in Nat /\ h \in AfterGenesis
  BY TopType DEF Good, LOG_START, AfterGenesis
<1>2. t \in NodeState
  <2>1. s.logs \cup {h} \in SUBSET Nat
    BY <1>1 DEF NodeState
  <2> QED BY <1>1, <2>1 DEF NodeState
<1>3. /\ t.nextHeight = s.nextHeight /\ t.logs = s.logs \cup {h} /\ t.nodes = s.nodes /\ t.store = s.store
      /\ t.base = s.base /\ t.lastLogIndex = h /\ t.currentNodeId = s.currentNodeId /\ t.executed = s.executed
      /\ Queued(t) = Queued(s) /\ t.proposerQueueTermId = s.proposerQueueTermId /\ t.mixed = s.mixed
  BY <1>1 DEF NodeState, Queued
<1> HIDE DEF t
<1>4. NodeSound(t, n)
  BY <1>1, <1>3 DEF NodeSound
<1> QED BY <1>2, <1>3, <1>4 DEF Good, t, StoreTrusted

LEMMA ProcessGood ==
  ASSUME chain \in Seq(CertifiedBlock), NEW n \in Node, NEW s \in Good(n), NEW h \in (LOG_START + 1)..Top
  PROVE  ProcessAndFinalize(s, n, h) \in Good(n)
<1>1. CASE s.ok /\ VerifyBlockProposal(s, h)
  <2> DEFINE t == StoreTrusted(s, h)
  <2>1. h = s.store.last + 1 /\ s.store.last \in Nat /\ h \in Nat /\ h <= Top
    BY <1>1, VerifiedHeight, GoodParts, TopType DEF LOG_START
  <2>2. /\ t \in Good(n) /\ t.lastLogIndex = h /\ t.store = s.store /\ t.nextHeight = s.nextHeight
        /\ t.executed = s.executed
    BY <2>1, StoreTrustedGood
  <2> HIDE DEF t
  <2>3. VerifyBlockProposal(t, h)
    BY <1>1, <2>2 DEF VerifyBlockProposal
  <2>4. h <= t.lastLogIndex
    BY <2>1, <2>2
  <2>5. Finalize(t, n, h) \in Good(n)
    BY <2>1, <2>2, <2>3, <2>4, FinalizeGood
  <2>6. ProcessAndFinalize(s, n, h) = Finalize(t, n, h)
    BY <1>1 DEF ProcessAndFinalize, t
  <2> QED BY <2>5, <2>6
<1>2. CASE ~ (s.ok /\ VerifyBlockProposal(s, h))
  <2>1. ProcessAndFinalize(s, n, h) \in {s, Revert(s)}
    BY <1>2 DEF ProcessAndFinalize
  <2> QED BY <2>1, RevertGood
<1> QED BY <1>1, <1>2

(* The stored blocks up to h, one after the other. *)
LEMMA FinalizeAllGood ==
  ASSUME chain \in Seq(CertifiedBlock), NEW n \in Node, NEW s \in Good(n), NEW from \in Nat, NEW h \in Nat,
         from <= h, s.lastLogIndex = h, h <= Top
  PROVE  FoldLeft(LAMBDA x, i : FinalizeStored(x, n, i), s, Heights(from, h)) \in Good(n)
<1> DEFINE hs == Heights(from, h)
           k == h - from + 1
           D == DOMAIN hs
           V == {x \in Good(n) : x.lastLogIndex >= h}
           next(q, i) == FinalizeStored(q, n, hs[i])
           Fits(F) == F = [w \in SUBSET D |-> IF w = {} THEN s ELSE next(F[w \ {Max(w)}], Max(w))]
           F0 == CHOOSE F : Fits(F)
           step == [p \in V \X (1..k) |-> next(p[1], p[2])]
<1>1. FoldLeft(LAMBDA x, i : FinalizeStored(x, n, i), s, Heights(from, h)) = F0[D]
  BY Zenon DEF FoldLeft, MapThenFoldSet
<1>2. k \in Nat /\ D = 1..k /\ \A i \in 1..k : hs[i] <= h /\ hs[i] <= Top /\ hs[i] \in Nat
  BY TopType DEF Heights
<1>3. s \in V
  BY GoodParts
<1>4. ASSUME NEW q \in V, NEW i \in 1..k
      PROVE  next(q, i) \in V
  <2>1. q \in Good(n) /\ q.lastLogIndex \in Nat /\ q.lastLogIndex >= h
    BY GoodParts
  <2>2. hs[i] <= h /\ hs[i] <= Top /\ hs[i] \in Nat
    BY <1>2
  <2>3. hs[i] <= q.lastLogIndex
    BY <2>1, <2>2
  <2>4. next(q, i) \in Good(n) /\ next(q, i).lastLogIndex >= q.lastLogIndex
    BY <2>1, <2>2, <2>3, FinalizeStoredGood
  <2> HIDE DEF next
  <2>5. next(q, i).lastLogIndex \in Nat
    BY <2>4, GoodParts
  <2> QED BY <2>1, <2>4, <2>5
<1> HIDE DEF next, D, hs, k, V
<1>5. step \in [V \X (1..k) -> V] /\ \A q \in V, i \in 1..k : step[<<q, i>>] = next(q, i)
  BY <1>4
<1> HIDE DEF step
<1>6. PICK F : Folding(F, k, V, s, step)
  BY <1>2, <1>3, <1>5, FoldingExists
<1>7. Fits(F)
  <2>1. ASSUME NEW w \in SUBSET D, w # {}
        PROVE  F[w] = next(F[w \ {Max(w)}], Max(w))
    <3>1. Max(w) \in 1..k /\ w \ {Max(w)} \in SUBSET (1..k) /\ F[w] = step[<<F[w \ {Max(w)}], Max(w)>>]
      BY <1>2, <1>6, <2>1 DEF Folding
    <3>2. F[w \ {Max(w)}] \in V
      BY <1>6, <3>1 DEF Folding
    <3> QED BY <1>5, <3>1, <3>2
  <2>2. F = [w \in SUBSET D |-> F[w]] /\ F[{}] = s
    BY <1>2, <1>6 DEF Folding
  <2> QED BY <2>1, <2>2
<1>8. Fits(F0)
  <2> HIDE DEF Fits
  <2> QED BY <1>7
<1> HIDE DEF F0
<1>9. Follows(F0, k, V, s, step)
  <2>1. F0[{}] = s /\ \A w \in SUBSET D : w # {} => F0[w] = next(F0[w \ {Max(w)}], Max(w))
    BY <1>8
  <2> HIDE DEF Fits
  <2>2. ASSUME NEW w \in SUBSET (1..k), w # {}, F0[w \ {Max(w)}] \in V
        PROVE  F0[w] = step[<<F0[w \ {Max(w)}], Max(w)>>]
    <3>1. Max(w) \in 1..k /\ w \in SUBSET D
      BY <1>2, <1>6, <2>2 DEF Folding
    <3> QED BY <1>5, <2>1, <2>2, <3>1
  <2> QED BY <2>1, <2>2 DEF Follows
<1>10. PICK r : Run(r, F0, k, V, s, step)
  BY <1>2, <1>3, <1>5, <1>9, FoldRuns
<1>11. r[k] \in V /\ r[k] = F0[D]
  BY <1>2, <1>10 DEF Run
<1> QED BY <1>1, <1>11 DEF V

(* The blocks of a batch that the node does not have yet. *)
LEMMA ProcessAllGood ==
  ASSUME chain \in Seq(CertifiedBlock), NEW n \in Node, NEW s \in Good(n), NEW from \in Nat, NEW h \in Nat,
         from <= h, NEW entries \in SUBSET ((LOG_START + 1)..Top)
  PROVE  FoldLeft(LAMBDA x, i : IF i \in entries THEN ProcessAndFinalize(x, n, i) ELSE x,
                  s, Heights(from, h)) \in Good(n)
<1> DEFINE hs == Heights(from, h)
           k == h - from + 1
           D == DOMAIN hs
           V == Good(n)
           next(q, i) == IF hs[i] \in entries THEN ProcessAndFinalize(q, n, hs[i]) ELSE q
           Fits(F) == F = [w \in SUBSET D |-> IF w = {} THEN s ELSE next(F[w \ {Max(w)}], Max(w))]
           F0 == CHOOSE F : Fits(F)
           step == [p \in V \X (1..k) |-> next(p[1], p[2])]
<1>1. FoldLeft(LAMBDA x, i : IF i \in entries THEN ProcessAndFinalize(x, n, i) ELSE x, s, Heights(from, h)) = F0[D]
  BY Zenon DEF FoldLeft, MapThenFoldSet
<1>2. k \in Nat /\ D = 1..k
  BY DEF Heights
<1>3. s \in V
  OBVIOUS
<1>4. \A q \in V, i \in 1..k : next(q, i) \in V
  BY ProcessGood
<1> HIDE DEF next, D, hs, k, V
<1>5. step \in [V \X (1..k) -> V] /\ \A q \in V, i \in 1..k : step[<<q, i>>] = next(q, i)
  BY <1>4
<1> HIDE DEF step
<1>6. PICK F : Folding(F, k, V, s, step)
  BY <1>2, <1>3, <1>5, FoldingExists
<1>7. Fits(F)
  <2>1. ASSUME NEW w \in SUBSET D, w # {}
        PROVE  F[w] = next(F[w \ {Max(w)}], Max(w))
    <3>1. Max(w) \in 1..k /\ w \ {Max(w)} \in SUBSET (1..k) /\ F[w] = step[<<F[w \ {Max(w)}], Max(w)>>]
      BY <1>2, <1>6, <2>1 DEF Folding
    <3>2. F[w \ {Max(w)}] \in V
      BY <1>6, <3>1 DEF Folding
    <3> QED BY <1>5, <3>1, <3>2
  <2>2. F = [w \in SUBSET D |-> F[w]] /\ F[{}] = s
    BY <1>2, <1>6 DEF Folding
  <2> QED BY <2>1, <2>2
<1>8. Fits(F0)
  <2> HIDE DEF Fits
  <2> QED BY <1>7
<1> HIDE DEF F0
<1>9. Follows(F0, k, V, s, step)
  <2>1. F0[{}] = s /\ \A w \in SUBSET D : w # {} => F0[w] = next(F0[w \ {Max(w)}], Max(w))
    BY <1>8
  <2> HIDE DEF Fits
  <2>2. ASSUME NEW w \in SUBSET (1..k), w # {}, F0[w \ {Max(w)}] \in V
        PROVE  F0[w] = step[<<F0[w \ {Max(w)}], Max(w)>>]
    <3>1. Max(w) \in 1..k /\ w \in SUBSET D
      BY <1>2, <1>6, <2>2 DEF Folding
    <3> QED BY <1>5, <2>1, <2>2, <3>1
  <2> QED BY <2>1, <2>2 DEF Follows
<1>10. PICK r : Run(r, F0, k, V, s, step)
  BY <1>2, <1>3, <1>5, <1>9, FoldRuns
<1>11. r[k] \in V /\ r[k] = F0[D]
  BY <1>2, <1>10 DEF Run
<1> QED BY <1>1, <1>11 DEF V

LEMMA ReceiveCommitGood ==
  ASSUME chain \in Seq(CertifiedBlock), NEW n \in Node, NEW s \in Good(n), NEW h \in (LOG_START + 1)..Top
  PROVE  ReceiveCommit(s, n, h) \in Good(n)
<1>1. h \in Nat /\ s.store.last \in Nat
  BY GoodParts, TopType DEF LOG_START
<1>2. CASE s.store.last >= h
  BY <1>2 DEF ReceiveCommit
<1>3. CASE ~ (s.store.last >= h) /\ h = s.nextHeight /\ ~VerifyBlockProposal(s, h)
  BY <1>3, RevertGood DEF ReceiveCommit
<1>4. CASE ~ (s.store.last >= h) /\ ~ (h = s.nextHeight /\ ~VerifyBlockProposal(s, h))
  <2> DEFINE t == StoreTrusted(s, h)
  <2>1. t \in Good(n) /\ t.lastLogIndex = h
    BY <1>1, <1>4, StoreTrustedGood
  <2> HIDE DEF t
  <2>2. s.store.last + 1 \in Nat /\ s.store.last + 1 <= h
    BY <1>1, <1>4
  <2>3. h <= Top
    BY TopType DEF LOG_START
  <2>4. FoldLeft(LAMBDA x, i : FinalizeStored(x, n, i), t, Heights(s.store.last + 1, h)) \in Good(n)
    BY <1>1, <2>1, <2>2, <2>3, FinalizeAllGood
  <2>5. ReceiveCommit(s, n, h) = FoldLeft(LAMBDA x, i : FinalizeStored(x, n, i), t, Heights(s.store.last + 1, h))
    BY <1>4, Zenon DEF ReceiveCommit, t
  <2> QED BY <2>4, <2>5
<1> QED BY <1>2, <1>3, <1>4

------------------------------------------------------------------------------
(* Proposals *)
LEMMA RollbackTermGood ==
  ASSUME NEW n \in Node, NEW s \in Good(n), NEW m \in BlockProposal, NEW t \in Nat
  PROVE  RollbackTermIdWithStateChange(s, t, m) \in Good(n)
<1> DEFINE x == m.mixed \/ t # m.termId
           r == [s EXCEPT !.termId = t, !.proposerQueueTermId = t, !.proposerIndex = m.proposerIndex,
                          !.proposerQueue = m.proposerQueue, !.mixed = x]
<1>1. /\ m.proposerQueue \in Seq(Entry) /\ m.proposerIndex \in Nat /\ m.mixed \in BOOLEAN
      /\ (NoneJoined /\ ~m.mixed => Queued(m) = AtRound(m.termId))
      /\ s \in NodeState /\ NodeSound(s, n) /\ x \in BOOLEAN
  BY DEF BlockProposal, Good
<1>2. ~x => ~m.mixed /\ t = m.termId
  OBVIOUS
<1>3. RollbackTermIdWithStateChange(s, t, m) = r
  BY Zenon DEF RollbackTermIdWithStateChange
<1> HIDE DEF x
<1>4. r \in NodeState
  BY <1>1 DEF NodeState
<1>5. /\ r.nextHeight = s.nextHeight /\ r.logs = s.logs /\ r.nodes = s.nodes /\ r.store = s.store
      /\ r.base = s.base /\ r.lastLogIndex = s.lastLogIndex /\ r.currentNodeId = s.currentNodeId
      /\ Queued(r) = Queued(m) /\ r.proposerQueueTermId = t /\ (r.mixed <=> x)
  BY <1>1 DEF NodeState, Queued
<1> HIDE DEF r
<1>6. NoneJoined /\ ~r.mixed => Queued(r) = AtRound(r.proposerQueueTermId)
  BY <1>1, <1>2, <1>5
<1>7. NodeSound(r, n)
  BY <1>1, <1>5, <1>6 DEF NodeSound
<1> QED BY <1>3, <1>4, <1>7 DEF Good

LEMMA ReceiveBlockProposalGood ==
  ASSUME chain \in Seq(CertifiedBlock), NEW n \in Node, NEW s \in Good(n), NEW m \in BlockProposal, NEW t \in Nat
  PROVE  ReceiveBlockProposal(s, m, t) \in Good(n)
<1> DEFINE h == m.height
           last == IF s.lastLogIndex < h THEN h ELSE s.lastLogIndex
           stored == [s EXCEPT !.logs = @ \cup {h}, !.lastLogIndex = last]
           ahead == [s EXCEPT !.lastLogIndex = h]
<1>1. h \in Nat /\ s.lastLogIndex \in Nat /\ s.nextHeight \in AfterGenesis /\ s.nextHeight \in Nat
  BY GoodParts, NextHeight DEF BlockProposal
<1>2. last \in Nat /\ last >= s.lastLogIndex
  BY <1>1
<1>3. ReceiveBlockProposal(s, m, t) =
         IF h < s.nextHeight THEN s
         ELSE IF h > s.nextHeight THEN IF h > s.lastLogIndex THEN ahead ELSE stored
         ELSE IF ~VerifyBlockProposal(s, h) THEN Revert(s)
         ELSE IF s.termId > t THEN RollbackTermIdWithStateChange(stored, t, m)
         ELSE stored
  BY Zenon DEF ReceiveBlockProposal
<1>4. ~ (h < s.nextHeight) => stored \in Good(n)
  <2> HIDE DEF last
  <2>1. ~ (h < s.nextHeight) => h \in AfterGenesis
    BY <1>1 DEF AfterGenesis, LOG_START
  <2> QED BY <1>2, <2>1, LogGood
<1>5. h > s.lastLogIndex => ahead \in Good(n)
  <2>1. s.nextHeight \in AfterGenesis /\ (h > s.lastLogIndex => h >= s.lastLogIndex)
    BY <1>1
  <2> QED BY <1>1, <2>1, LogGood
<1> HIDE DEF stored, ahead
<1> QED BY <1>3, <1>4, <1>5, RevertGood, RollbackTermGood

LEMMA ForceGood ==
  ASSUME NEW n \in Node, NEW s \in Good(n), NEW m \in BlockProposal
  PROVE  ForceProposalReset(s, m) \in Good(n)
<1>1. m.termId \in Nat
  BY DEF BlockProposal
<1> QED BY <1>1, RollbackTermGood, TermGood DEF ForceProposalReset

------------------------------------------------------------------------------
(* State sync *)
LEMMA BatchType ==
  ASSUME chain \in Seq(CertifiedBlock), NEW n \in Node, NEW s \in Good(n), NEW m \in SyncRequest,
         NEW first \in Nat, NEW last \in Nat, last <= s.store.last
  PROVE  Batch(s, n, m, first, last) \in Message
<1>1. /\ s.store.last \in Nat /\ s.termId \in Nat /\ s.logs \subseteq AfterGenesis
      /\ s.store.last <= Top /\ Top \in Nat /\ s.store.blocks \subseteq (LOG_START + 1)..Top
  <2>1. s.store.blocks \subseteq (LOG_START + 1)..s.store.last
    BY DEF Good, NodeSound, StoreSound, BlocksSound
  <2>2. s.store.last \in Nat /\ s.store.last <= Top /\ Top \in Nat
    BY GoodParts, TopType
  <2>3. s.store.blocks \subseteq (LOG_START + 1)..Top
    BY <2>1, <2>2 DEF LOG_START
  <2> QED BY <2>2, <2>3, GoodParts
<1>2. (s.store.blocks \cup s.logs) \cap first..last \in SUBSET ((LOG_START + 1)..Top)
  BY <1>1 DEF AfterGenesis, LOG_START
<1>3. m.from \in Node
  BY DEF SyncRequest
<1>4. Batch(s, n, m, first, last) \in SyncResponse
  BY <1>1, <1>2, <1>3 DEF Batch, SyncResponse
<1> QED BY <1>4 DEF Message

LEMMA SyncRequestGood ==
  ASSUME chain \in Seq(CertifiedBlock), NEW n \in Node, NEW s \in Good(n), NEW m \in SyncRequest
  PROVE  ReceiveStateSyncRequest(s, n, m) \in Good(n)
<1> DEFINE last == s.store.last
           firsts == {h \in m.start..last : (h - m.start) % SYNC_BATCH = 0}
           to(h) == IF h + SYNC_BATCH > last THEN last ELSE h + SYNC_BATCH - 1
           many == {Batch(s, n, m, h, to(h)) : h \in firsts}
<1>1. last \in Nat /\ m.start \in Nat /\ SYNC_BATCH \in Nat /\ SYNC_BATCH >= 1
  BY GoodParts, SyncAssumption DEF SyncRequest, SyncAssumption
<1>2. \A h \in firsts : h \in Nat /\ to(h) \in Nat /\ to(h) <= last
  BY <1>1
<1> HIDE DEF to, firsts
<1>3. many \in SUBSET Message
  BY <1>2, BatchType
<1>4. /\ {Batch(s, n, m, m.start, last)} \in SUBSET Message
      /\ ~ (last < m.start) => {Batch(s, n, m, m.start, m.start)} \in SUBSET Message
  <2>1. last <= last
    BY <1>1
  <2>2. ~ (last < m.start) => m.start <= last
    BY <1>1
  <2> QED BY <1>1, <2>1, <2>2, BatchType
<1> HIDE DEF last
<1>5. ReceiveStateSyncRequest(s, n, m) =
         IF last <= LOG_START THEN s
         ELSE IF last < m.start THEN Send(s, {Batch(s, n, m, m.start, last)})
         ELSE IF last - m.start + 1 > MAX_DELTA THEN Send(s, {Batch(s, n, m, m.start, m.start)})
         ELSE Send(s, many)
  BY Zenon DEF ReceiveStateSyncRequest, last, firsts, to
<1> HIDE DEF many
<1> QED BY <1>3, <1>4, <1>5, SendGood

LEMMA SyncResponseGood ==
  ASSUME chain \in Seq(CertifiedBlock), NEW n \in Node, NEW s \in Good(n), NEW m \in SyncResponse
  PROVE  ReceiveStateSyncResponse(s, n, m) \in Good(n)
<1> DEFINE next == s.store.last + 1
           synced == FoldLeft(LAMBDA x, h : IF h \in m.entries THEN ProcessAndFinalize(x, n, h) ELSE x,
                              s, Heights(next, m.last))
<1>1. s.store.last \in Nat /\ m.last \in Nat /\ m.termId \in Nat /\ m.entries \in SUBSET ((LOG_START + 1)..Top)
  BY GoodParts DEF SyncResponse
<1>2. ~ (s.store.last >= m.last) => synced \in Good(n)
  <2>1. SUFFICES ASSUME ~ (s.store.last >= m.last)
                 PROVE  synced \in Good(n)
    OBVIOUS
  <2>2. next \in Nat /\ next <= m.last
    BY <1>1, <2>1
  <2> QED BY <1>1, <2>2, ProcessAllGood
<1>3. ReceiveStateSyncResponse(s, n, m) =
         IF m.top - m.first + 1 > MAX_DELTA THEN [s EXCEPT !.syncing = TRUE]
         ELSE IF s.store.last >= m.last THEN s
         ELSE IF m.entries # {} /\ next \notin m.first..m.last THEN s
         ELSE [synced EXCEPT !.termId = m.termId]
  BY Zenon DEF ReceiveStateSyncResponse
<1> HIDE DEF synced, next
<1>4. [s EXCEPT !.syncing = TRUE] \in Good(n)
  BY DEF Good, NodeState, NodeSound, Queued
<1>5. ~ (s.store.last >= m.last) => [synced EXCEPT !.termId = m.termId] \in Good(n)
  BY <1>1, <1>2, TermGood
<1> QED BY <1>3, <1>4, <1>5

LEMMA IfSyncedGood ==
  ASSUME NEW n \in Node, NEW s \in Good(n), NEW m
  PROVE  RequestValidatorNodeInfoIfSynced(s, n, m) \in Good(n)
BY SendNodeSyncRequestGood DEF RequestValidatorNodeInfoIfSynced

LEMMA BootstrapGood ==
  ASSUME chain \in Seq(CertifiedBlock), NEW n \in Node, NEW s \in Good(n), NEW h \in Nat, s.store.last < h, h <= Top
  PROVE  BootstrapAfterStateSync(s, n, h) \in Good(n)
<1> DEFINE store == Bootstrapped(s.store, h, ParamsFor(h + 1))
           t == [s EXCEPT !.nextHeight = h + 1, !.executed = h, !.lastLogIndex = h, !.store = store,
                          !.syncing = FALSE, !.base = h]
<1>1. s \in NodeState /\ NodeSound(s, n) /\ s.store \in Store /\ s.base \in Nat /\ h + 1 \in Nat /\ (h + 1) - 1 = h
  BY DEF Good, NodeState
<1>2. store \in Store /\ store.last = h /\ StoreSound(store, h)
  <2>1. StoreSound(s.store, s.base) /\ h > s.store.last
    BY <1>1, GoodParts DEF NodeSound
  <2> QED BY <1>1, <2>1, BootstrapSound
<1> HIDE DEF store
<1>3. t \in NodeState
  BY <1>1, <1>2 DEF NodeState
<1>4. /\ t.nextHeight = h + 1 /\ t.logs = s.logs /\ t.nodes = s.nodes /\ t.store = store
      /\ t.base = h /\ t.lastLogIndex = h /\ t.currentNodeId = s.currentNodeId
      /\ Queued(t) = Queued(s) /\ t.proposerQueueTermId = s.proposerQueueTermId /\ t.mixed = s.mixed
  BY <1>1 DEF NodeState, Queued
<1> HIDE DEF t
<1>5. NodeSound(t, n)
  BY <1>1, <1>2, <1>4 DEF NodeSound
<1>6. t \in Good(n)
  BY <1>3, <1>5 DEF Good
<1>7. BootstrapAfterStateSync(s, n, h) = SendNodeSyncRequest(t, n)
  BY DEF BootstrapAfterStateSync, t, store
<1> QED BY <1>6, <1>7, SendNodeSyncRequestGood

------------------------------------------------------------------------------
(* Node sync *)
LEMMA NodeRequestGood ==
  ASSUME NEW n \in Node, NEW s \in Good(n), NEW m \in NodeRequest
  PROVE  ReceiveUpdateNodeRequest(s, n, m) \in Good(n)
<1> DEFINE r == [type |-> "nodeResponse", to |-> m.from, from |-> n, nodes |-> s.nodes,
                 proposerQueue |-> s.proposerQueue, proposerQueueTermId |-> s.proposerQueueTermId,
                 proposerIndex |-> s.proposerIndex, mixed |-> s.mixed]
<1>1. m.from \in Node /\ s \in NodeState /\ NodeSound(s, n)
  BY DEF NodeRequest, Good
<1>2. r \in [type : {"nodeResponse"}, to : Node, from : Node, nodes : Seq(Node), proposerQueue : Seq(Entry),
             proposerQueueTermId : Nat, proposerIndex : Nat, mixed : BOOLEAN]
  BY <1>1 DEF NodeState
<1>3. Queued(r) = Queued(s) /\ r.proposerQueueTermId = s.proposerQueueTermId /\ r.mixed = s.mixed
  BY DEF Queued
<1> HIDE DEF r
<1>4. r \in NodeResponse
  BY <1>1, <1>2, <1>3 DEF NodeResponse, NodeSound
<1>5. {r} \in SUBSET Message
  BY <1>4 DEF Message
<1> QED BY <1>5, SendGood DEF ReceiveUpdateNodeRequest, r

LEMMA AdoptNodesGood ==
  ASSUME NEW n \in Node, NEW s \in Good(n), NEW nodes \in Seq(Node)
  PROVE  AdoptNodes(s, nodes) \in Good(n)
<1> DEFINE self == s.nodes[s.currentNodeId]
           at == {i \in DOMAIN nodes : nodes[i] = self}
           first == CHOOSE i \in at : \A j \in at : i <= j
           t == [s EXCEPT !.nodes = nodes, !.currentNodeId = first]
           longer == Append(nodes, self)
           u == [s EXCEPT !.nodes = longer, !.currentNodeId = Len(nodes) + 1]
<1>1. self = n /\ s \in NodeState /\ NodeSound(s, n)
  BY DEF Good, NodeSound
<1>2. AdoptNodes(s, nodes) = IF at # {} THEN t ELSE IF s.currentNodeId = 1 THEN u ELSE s
  BY Zenon DEF AdoptNodes
<1> HIDE DEF self
<1>3. ASSUME at # {}
      PROVE  t \in Good(n)
  <2>1. at \subseteq Nat
    OBVIOUS
  <2>2. \E i \in at : \A j \in at : i <= j
    <3> HIDE DEF at
    <3> QED BY <1>3, <2>1, NatMinimum
  <2>3. first \in at
    <3> HIDE DEF at
    <3> QED BY <2>2
  <2> HIDE DEF first
  <2>4. first \in DOMAIN nodes /\ first \in Nat /\ nodes[first] = n
    BY <1>1, <2>1, <2>3
  <2> HIDE DEF at
  <2> QED BY <1>1, <2>4 DEF Good, NodeState, NodeSound, Queued
<1>4. u \in Good(n)
  <2>1. longer \in Seq(Node) /\ Len(nodes) + 1 \in DOMAIN longer /\ longer[Len(nodes) + 1] = n /\ Len(nodes) + 1 \in Nat
    BY <1>1
  <2> HIDE DEF longer
  <2> QED BY <1>1, <2>1 DEF Good, NodeState, NodeSound, Queued
<1> HIDE DEF t, u, at
<1> QED BY <1>2, <1>3, <1>4

LEMMA NodeResponseGood ==
  ASSUME NEW n \in Node, NEW s \in Good(n), NEW m \in NodeResponse
  PROVE  ReceiveUpdateNodeResponse(s, m) \in Good(n)
<1> DEFINE t == [s EXCEPT !.proposerIndex = m.proposerIndex, !.proposerQueue = m.proposerQueue,
                          !.proposerQueueTermId = m.proposerQueueTermId, !.mixed = m.mixed]
<1>1. /\ m.nodes \in Seq(Node) /\ m.proposerQueue \in Seq(Entry) /\ m.proposerIndex \in Nat
      /\ m.proposerQueueTermId \in Nat /\ m.mixed \in BOOLEAN
      /\ (NoneJoined /\ ~m.mixed => Queued(m) = AtRound(m.proposerQueueTermId))
      /\ s \in NodeState /\ NodeSound(s, n)
  BY DEF NodeResponse, Good
<1>2. t \in NodeState
  BY <1>1 DEF NodeState
<1>3. /\ t.nextHeight = s.nextHeight /\ t.logs = s.logs /\ t.nodes = s.nodes /\ t.store = s.store
      /\ t.base = s.base /\ t.lastLogIndex = s.lastLogIndex /\ t.currentNodeId = s.currentNodeId
      /\ Queued(t) = Queued(m) /\ t.proposerQueueTermId = m.proposerQueueTermId /\ t.mixed = m.mixed
  BY <1>1 DEF NodeState, Queued
<1> HIDE DEF t
<1>4. t \in Good(n)
  BY <1>1, <1>2, <1>3 DEF Good, NodeSound
<1>5. ReceiveUpdateNodeResponse(s, m) \in {s, AdoptNodes(t, m.nodes)}
  BY DEF ReceiveUpdateNodeResponse, t
<1> QED BY <1>1, <1>4, <1>5, AdoptNodesGood

LEMMA UpdateNodeMessageGood ==
  ASSUME NEW n \in Node, NEW s \in Good(n), NEW m \in UpdateNode
  PROVE  UpdateNodeAndReturn(s, m) \in Good(n)
<1>1. m.address \in Node
  BY DEF UpdateNode
<1> QED BY <1>1, RevertGood, UpdateNodeGood DEF UpdateNodeAndReturn

------------------------------------------------------------------------------
(* Rollback *)
LEMMA RollbackGood ==
  ASSUME chain \in Seq(CertifiedBlock), NEW n \in Node, NEW s \in Good(n),
         NEW h \in {s.store.last, s.store.last + 1}, Rollback(s, h).ok
  PROVE  Rollback(s, h) \in Good(n)
<1>1. /\ s \in NodeState /\ NodeSound(s, n) /\ s.store \in Store /\ s.base \in Nat /\ s.store.last \in Nat
      /\ LOG_START <= s.store.last /\ StoreSound(s.store, s.base)
  BY GoodParts DEF Good, NodeState, NodeSound
<1>2. CASE h = s.store.last /\ h \notin s.store.blocks
  BY <1>2 DEF Rollback
<1>3. CASE h = s.store.last /\ h \in s.store.blocks
  <2> DEFINE r == RollbackLast(s, h)
             store == RollbackBlock(s.store, h)
             t == [s EXCEPT !.store = store, !.nextHeight = h, !.executed = h,
                            !.logs = @ \ {h}, !.lastLogIndex = h - 1]
  <2>1. Rollback(s, h) = [r EXCEPT !.logs = @ \ {h}, !.lastLogIndex = h - 1]
    BY <1>3 DEF Rollback
  <2>2. MayRollbackBlock(s.store, h)
    <3> SUFFICES ASSUME ~MayRollbackBlock(s.store, h)
                 PROVE  FALSE
      OBVIOUS
    <3>1. r = [s EXCEPT !.ok = FALSE]
      BY DEF RollbackLast, Revert
    <3> HIDE DEF r
    <3>2. [r EXCEPT !.logs = @ \ {h}, !.lastLogIndex = h - 1].ok = FALSE
      BY <1>1, <3>1 DEF NodeState
    <3> QED BY <2>1, <3>2
  <2>3. store \in Store /\ store.last = h - 1 /\ StoreSound(store, s.base) /\ h > LOG_START /\ h \in Nat
    <3>1. h \in Nat
      BY <1>1, <1>3
    <3> QED BY <1>1, <1>3, <2>2, <3>1, RollbackSound
  <2>4. Rollback(s, h) = t
    <3>1. r = [s EXCEPT !.store = store, !.nextHeight = h, !.executed = h]
      BY <2>2 DEF RollbackLast
    <3> HIDE DEF r, store
    <3> QED BY <1>1, <2>1, <3>1 DEF NodeState
  <2> HIDE DEF store
  <2>5. h - 1 \in Nat /\ s.logs \ {h} \in SUBSET Nat
    BY <1>1, <2>3 DEF LOG_START, NodeState
  <2>6. t \in NodeState
    BY <1>1, <2>3, <2>5 DEF NodeState
  <2>7. /\ t.nextHeight = h /\ t.logs = s.logs \ {h} /\ t.nodes = s.nodes /\ t.store = store
        /\ t.base = s.base /\ t.lastLogIndex = h - 1 /\ t.currentNodeId = s.currentNodeId
        /\ Queued(t) = Queued(s) /\ t.proposerQueueTermId = s.proposerQueueTermId /\ t.mixed = s.mixed
    BY <1>1 DEF NodeState, Queued
  <2> HIDE DEF t
  <2>8. NodeSound(t, n)
    BY <1>1, <2>3, <2>5, <2>7 DEF NodeSound
  <2> QED BY <2>4, <2>6, <2>8 DEF Good
<1>4. CASE h = s.store.last + 1 /\ h # s.store.last
  <2> DEFINE t == [s EXCEPT !.logs = @ \ {h}, !.lastLogIndex = h - 1]
  <2>1. Rollback(s, h) = t
    BY <1>4 DEF Rollback
  <2>2. h - 1 = s.store.last /\ h - 1 \in Nat /\ s.logs \ {h} \in SUBSET Nat
    <3>1. h - 1 = s.store.last /\ h - 1 \in Nat
      BY <1>1, <1>4
    <3>2. s.logs \in SUBSET Nat
      BY <1>1 DEF NodeState
    <3> QED BY <3>1, <3>2
  <2>3. t \in NodeState
    BY <1>1, <2>2 DEF NodeState
  <2>4. /\ t.nextHeight = s.nextHeight /\ t.logs = s.logs \ {h} /\ t.nodes = s.nodes /\ t.store = s.store
        /\ t.base = s.base /\ t.lastLogIndex = h - 1 /\ t.currentNodeId = s.currentNodeId
        /\ Queued(t) = Queued(s) /\ t.proposerQueueTermId = s.proposerQueueTermId /\ t.mixed = s.mixed
    BY <1>1 DEF NodeState, Queued
  <2> HIDE DEF t
  <2>5. NodeSound(t, n)
    BY <1>1, <2>2, <2>4 DEF NodeSound
  <2> QED BY <2>1, <2>3, <2>5 DEF Good
<1>5. s.store.last + 1 # s.store.last
  BY <1>1
<1> QED BY <1>2, <1>3, <1>4, <1>5

------------------------------------------------------------------------------
(* The inductive invariant: every node is good for the chain as it is, and so is
   every message, however old. *)
IInv ==
    /\ chain \in Seq(CertifiedBlock)
    /\ node \in [Node -> NodeState]
    /\ \A n \in Node : node[n] \in Good(n) /\ node[n].out = {} /\ node[n].ok
    /\ msgs \subseteq Message

LEMMA InitNodeGood ==
  ASSUME chain = <<>>, NEW n \in Node
  PROVE  InitNode(n) \in Good(n) /\ InitNode(n).out = {} /\ InitNode(n).ok
<1> DEFINE founder == n \in Range(Founders)
           nodes == IF founder THEN Founders ELSE <<n, Head(Founders)>>
           id == IF founder THEN CHOOSE i \in DOMAIN Founders : Founders[i] = n ELSE 1
           st == EmptyStore(LOG_START)
           s == [fsm |-> "unstarted", termId |-> 0, nextHeight |-> LOG_START + 1,
                 executed |-> LOG_START, nodes |-> nodes, currentNodeId |-> id,
                 proposerQueue |-> <<>>, proposerIndex |-> 1, proposerQueueTermId |-> 0,
                 lastLogIndex |-> LOG_START, logs |-> {}, store |-> st,
                 syncing |-> FALSE, base |-> LOG_START, mixed |-> FALSE, out |-> {}, ok |-> TRUE]
<1>1. InitNode(n) = s
  BY Zenon DEF InitNode
<1>2. Founders \in Seq(Node) /\ Founders # <<>>
  BY FoundersType
<1>3. nodes \in Seq(Node) /\ id \in DOMAIN nodes /\ nodes[id] = n /\ id \in Nat
  <2>1. CASE founder
    <3>1. \E i \in DOMAIN Founders : Founders[i] = n
      BY <2>1 DEF Range
    <3>2. id \in DOMAIN Founders /\ Founders[id] = n
      BY <2>1, <3>1
    <3> HIDE DEF id
    <3>3. DOMAIN Founders \subseteq Nat
      BY <1>2
    <3> QED BY <1>2, <2>1, <3>2, <3>3
  <2>2. CASE ~founder
    <3>1. Head(Founders) \in Node
      BY <1>2
    <3>2. nodes = <<n, Head(Founders)>> /\ id = 1
      BY <2>2
    <3> HIDE DEF nodes, id
    <3> QED BY <3>1, <3>2
  <2> QED BY <2>1, <2>2
<1> HIDE DEF nodes, id, founder
<1>4. st \in Store /\ StoreSound(st, LOG_START) /\ st.last = LOG_START
  BY EmptyStoreSound DEF EmptyStore
<1> HIDE DEF st
<1>5. s \in NodeState
  BY <1>3, <1>4 DEF NodeState, LOG_START
<1>6. /\ s.nextHeight - 1 = LOG_START /\ s.lastLogIndex = LOG_START /\ s.store = st /\ s.base = LOG_START
      /\ s.logs = {} /\ s.nodes = nodes /\ s.currentNodeId = id /\ s.proposerQueueTermId = 0
      /\ Queued(s) = Queued(AtStart) /\ s.out = {} /\ s.ok = TRUE
  BY DEF Queued, AtStart, LOG_START
<1> HIDE DEF s
<1>7. NodeSound(s, n)
  BY <1>3, <1>4, <1>6, AtRoundZero DEF NodeSound, LOG_START
<1> QED BY <1>1, <1>5, <1>6, <1>7 DEF Good

LEMMA Initially == Init => IInv
<1> SUFFICES ASSUME Init
             PROVE  IInv
  OBVIOUS
<1>1. chain = <<>> /\ msgs = {} /\ node = [n \in Node |-> InitNode(n)]
  BY DEF Init
<1>2. \A n \in Node : InitNode(n) \in Good(n) /\ InitNode(n).out = {} /\ InitNode(n).ok
  BY <1>1, InitNodeGood
<1>3. \A n \in Node : InitNode(n) \in NodeState
  BY <1>2 DEF Good
<1> QED BY <1>1, <1>2, <1>3 DEF IInv

------------------------------------------------------------------------------
(* What stays as it is as long as the chain does. *)
LEMMA SameChain ==
  ASSUME chain' = chain
  PROVE  Message' = Message /\ NodeState' = NodeState /\ \A m \in Node : Good(m)' = Good(m)
<1>1. SyncResponse' = SyncResponse
  BY DEF SyncResponse, Top, LOG_START
<1>2. NodeResponse' = NodeResponse /\ BlockProposal' = BlockProposal
  BY DEF NodeResponse, BlockProposal, NoneJoined
<1>3. Message' = Message
  BY <1>1, <1>2 DEF Message
<1>4. NodeState' = NodeState
  BY <1>3 DEF NodeState
<1>5. ASSUME NEW m \in Node, NEW s
      PROVE  NodeSound(s, m)' <=> NodeSound(s, m)
  <2>1. Top' = Top /\ NoneJoined' = NoneJoined
    BY DEF Top, NoneJoined
  <2>2. StoreSound(s.store, s.base)' = StoreSound(s.store, s.base)
    <3>1. \A h : ParamsFor(h)' = ParamsFor(h)
      BY DEF ParamsFor, Block
    <3> QED BY <2>1, <3>1 DEF StoreSound, BlocksSound, ParamsSound
  <2> QED BY <2>1, <2>2 DEF NodeSound
<1> QED BY <1>3, <1>4, <1>5 DEF Good

(* The end of a call that leaves the node good. *)
LEMMA InstallGood ==
  ASSUME IInv, NEW n \in Node, NEW r \in Good(n), NEW got, Install(n, r, got)
  PROVE  IInv'
<1>1. chain' = chain
  BY DEF Install
<1>2. Message' = Message /\ NodeState' = NodeState /\ \A m \in Node : Good(m)' = Good(m)
  BY <1>1, SameChain
<1>3. msgs' \subseteq Message
  <2>1. r.out \subseteq Message
    BY DEF Good, NodeState
  <2> QED BY <2>1 DEF Install, IInv
<1>4. /\ node' \in [Node -> NodeState]
      /\ \A m \in Node : node'[m] \in Good(m) /\ node'[m].out = {} /\ node'[m].ok
  <2>1. CASE r.ok
    <3> DEFINE t == [r EXCEPT !.out = {}]
    <3>1. t \in Good(n) /\ t.out = {} /\ t.ok
      BY <2>1 DEF Good, NodeState, NodeSound, Queued
    <3>2. t \in NodeState
      BY <3>1 DEF Good
    <3>3. node' = [node EXCEPT ![n] = t]
      BY <2>1 DEF Install
    <3> HIDE DEF t
    <3> QED BY <3>1, <3>2, <3>3 DEF IInv
  <2>2. CASE ~r.ok
    BY <2>2 DEF Install, IInv
  <2> QED BY <2>1, <2>2
<1> QED BY <1>1, <1>2, <1>3, <1>4 DEF IInv

LEMMA StartKeeps ==
  ASSUME IInv, NEW n \in Node, Start(n)
  PROVE  IInv'
<1> DEFINE asked == RequestBlockSync(node[n], n)
           r == IF IsValidator(n) \/ (~Started(n) /\ IfNodeIsValidator(node[n])) THEN ToValidator(asked, n)
                ELSE [asked EXCEPT !.fsm = "Node"]
<1>1. chain \in Seq(CertifiedBlock) /\ node[n] \in Good(n)
  BY DEF IInv
<1>2. asked \in Good(n)
  BY <1>1, RequestBlockSyncGood
<1> HIDE DEF asked
<1>3. [asked EXCEPT !.fsm = "Node"] \in Good(n)
  BY <1>2, FsmGood
<1>4. ToValidator(asked, n) \in Good(n)
  BY <1>1, <1>2, RegisterGood, EnterActiveGood DEF ToValidator
<1>5. r \in Good(n)
  BY <1>3, <1>4
<1>6. Install(n, r, {})
  BY Zenon DEF Start, asked
<1> HIDE DEF r
<1> QED BY <1>5, <1>6, InstallGood

LEMMA NextRoundKeeps ==
  ASSUME IInv, NEW n \in Node, NextRound(n)
  PROVE  IInv'
<1>1. EnterActive(node[n]) \in Good(n)
  BY EnterActiveGood DEF IInv
<1> QED BY <1>1, InstallGood DEF NextRound

LEMMA CommitBlockKeeps ==
  ASSUME IInv, NEW n \in Node, CommitBlock(n)
  PROVE  IInv'
<1> DEFINE h == node[n].nextHeight
           t == StoreTrusted(node[n], h)
           f == FinalizeStored(t, n, h)
<1>1. chain \in Seq(CertifiedBlock) /\ node[n] \in Good(n)
  BY DEF IInv
<1>2. h \in (LOG_START + 1)..Top /\ node[n].store.last <= h
  <2>1. h <= Top /\ h = node[n].store.last + 1 /\ LOG_START <= node[n].store.last /\ node[n].store.last \in Nat
    BY <1>1, GoodParts DEF CommitBlock
  <2> QED BY <1>1, <2>1, TopType DEF LOG_START
<1> HIDE DEF h
<1>3. t \in Good(n) /\ t.lastLogIndex = h
  BY <1>1, <1>2, StoreTrustedGood
<1> HIDE DEF t
<1>4. h <= h /\ h <= Top
  BY <1>2, TopType, <1>1 DEF LOG_START
<1>5. f \in Good(n)
  BY <1>1, <1>3, <1>4, FinalizeStoredGood
<1> HIDE DEF f
<1>6. [f EXCEPT !.fsm = "commit"] \in Good(n)
  BY <1>5, FsmGood
<1>7. Install(n, [f EXCEPT !.fsm = "commit"], {})
  BY Zenon DEF CommitBlock, f, t, h
<1> QED BY <1>6, <1>7, InstallGood

LEMMA CommitKeeps ==
  ASSUME IInv, NEW n \in Node, Commit(n)
  PROVE  IInv'
<1>1. PICK h \in (LOG_START + 1)..Top : Install(n, ReceiveCommit(node[n], n, h), {})
  BY DEF Commit
<1>2. ReceiveCommit(node[n], n, h) \in Good(n)
  BY ReceiveCommitGood DEF IInv
<1> QED BY <1>1, <1>2, InstallGood

LEMMA HandleGood ==
  ASSUME IInv, NEW m \in msgs, m.type # "proposal"
  PROVE  m.to \in Node /\ Handle(m.to, m) \in Good(m.to)
<1> DEFINE n == m.to
           s == node[n]
<1>1. m \in Message /\ chain \in Seq(CertifiedBlock)
  BY DEF IInv
<1>2. n \in Node
  BY <1>1 DEF Message, SyncRequest, SyncResponse, NodeRequest, NodeResponse, UpdateNode, BlockProposal
<1>3. s \in Good(n)
  BY <1>2 DEF IInv
<1> HIDE DEF n, s
<1> SUFFICES Handle(n, m) \in Good(n)
  BY <1>2 DEF n
<1>4. CASE m \in SyncRequest
  <2>1. m.type = "syncRequest"
    BY <1>4 DEF SyncRequest
  <2>2. Handle(n, m) = ReceiveStateSyncRequest(s, n, m)
    BY <2>1 DEF Handle, s
  <2> QED BY <1>1, <1>2, <1>3, <1>4, <2>2, SyncRequestGood
<1>5. CASE m \in SyncResponse
  <2>1. m.type = "syncResponse"
    BY <1>5 DEF SyncResponse
  <2> DEFINE r == ReceiveStateSyncResponse(s, n, m)
  <2>2. Handle(n, m) \in {r, RequestValidatorNodeInfoIfSynced(r, n, m)}
    BY <2>1 DEF Handle, s
  <2>3. r \in Good(n)
    BY <1>1, <1>2, <1>3, <1>5, SyncResponseGood
  <2> HIDE DEF r
  <2>4. RequestValidatorNodeInfoIfSynced(r, n, m) \in Good(n)
    BY <1>2, <2>3, IfSyncedGood
  <2> QED BY <2>2, <2>3, <2>4
<1>6. CASE m \in NodeRequest
  <2>1. m.type = "nodeRequest"
    BY <1>6 DEF NodeRequest
  <2>2. Handle(n, m) \in {s, ReceiveUpdateNodeRequest(s, n, m)}
    BY <2>1 DEF Handle, s
  <2> QED BY <1>2, <1>3, <1>6, <2>2, NodeRequestGood
<1>7. CASE m \in NodeResponse
  <2>1. m.type = "nodeResponse"
    BY <1>7 DEF NodeResponse
  <2>2. Handle(n, m) = ReceiveUpdateNodeResponse(s, m)
    BY <2>1 DEF Handle, s
  <2> QED BY <1>2, <1>3, <1>7, <2>2, NodeResponseGood
<1>8. CASE m \in UpdateNode
  <2>1. m.type = "updateNode"
    BY <1>8 DEF UpdateNode
  <2>2. Handle(n, m) = UpdateNodeAndReturn(s, m)
    BY <2>1 DEF Handle, s
  <2> QED BY <1>2, <1>3, <1>8, <2>2, UpdateNodeMessageGood
<1>9. m \notin BlockProposal
  BY DEF BlockProposal
<1> QED BY <1>1, <1>4, <1>5, <1>6, <1>7, <1>8, <1>9 DEF Message

LEMMA ReceiveKeeps ==
  ASSUME IInv, NEW m \in msgs, Receive(m)
  PROVE  IInv'
<1>1. m.to \in Node /\ Handle(m.to, m) \in Good(m.to)
  BY HandleGood DEF Receive
<1>2. Install(m.to, Handle(m.to, m), {m})
  BY DEF Receive
<1> QED BY <1>1, <1>2, InstallGood

LEMMA ReceiveProposalKeeps ==
  ASSUME IInv, NEW m \in msgs, ReceiveProposal(m)
  PROVE  IInv'
<1> DEFINE n == m.to
           s == node[n]
           next == SetRoundProposer([s EXCEPT !.termId = @ + 1])
           in(t) == ReceiveBlockProposal(s, m, t)
           forced(t) == SetRoundProposer(ReceiveBlockProposal(ForceProposalReset(s, m), m, t))
           back == ForceProposalReset(s, m)
           early(t) == [ReceiveBlockProposal(next, m, t) EXCEPT !.fsm = "active"]
<1>1. m \in BlockProposal /\ chain \in Seq(CertifiedBlock)
  <2>1. m \in Message /\ m.type = "proposal" /\ chain \in Seq(CertifiedBlock)
    BY DEF IInv, ReceiveProposal
  <2> QED BY <2>1 DEF Message, SyncRequest, SyncResponse, NodeRequest, NodeResponse, UpdateNode
<1>2. n \in Node /\ m.termId \in Nat
  BY <1>1 DEF BlockProposal
<1>3. s \in Good(n) /\ s.termId + 1 \in Nat
  <2>1. s \in Good(n)
    BY <1>2 DEF IInv
  <2> HIDE DEF s, n
  <2> QED BY <1>1, <1>2, <2>1, GoodParts
<1>4. PICK t \in IF m.kept THEN 1..m.termId ELSE {m.termId} :
          \/ Install(n, in(t), {m}) \/ Install(n, forced(t), {m}) \/ Install(n, back, {m})
          \/ Install(n, early(t), {m}) \/ Install(n, s, {m})
  BY Zenon DEF ReceiveProposal
<1>5. t \in Nat
  BY <1>2
<1> HIDE DEF s, n
<1>6. next \in Good(n)
  <2>1. [s EXCEPT !.termId = @ + 1] \in Good(n)
    BY <1>2, <1>3, TermGood
  <2> QED BY <1>1, <1>2, <2>1, SetRoundProposerGood
<1> HIDE DEF next
<1>7. in(t) \in Good(n) /\ back \in Good(n) /\ forced(t) \in Good(n) /\ early(t) \in Good(n)
  BY <1>1, <1>2, <1>3, <1>5, <1>6, ReceiveBlockProposalGood, ForceGood, SetRoundProposerGood, FsmGood
<1> HIDE DEF in, back, forced, early
<1> QED BY <1>2, <1>3, <1>4, <1>7, InstallGood

LEMMA SnapshotKeeps ==
  ASSUME IInv, NEW n \in Node, Snapshot(n)
  PROVE  IInv'
<1>1. PICK m \in Node \ {n} : \E h \in (node[n].store.last + 1)..node[m].store.last :
          Install(n, BootstrapAfterStateSync(node[n], n, h), {})
  BY DEF Snapshot
<1>2. PICK h \in (node[n].store.last + 1)..node[m].store.last :
          Install(n, BootstrapAfterStateSync(node[n], n, h), {})
  BY <1>1
<1>3. chain \in Seq(CertifiedBlock) /\ node[n] \in Good(n) /\ node[m] \in Good(m)
  BY DEF IInv
<1>4. node[m].store.last <= Top /\ node[n].store.last \in Nat /\ node[m].store.last \in Nat
  BY <1>3, GoodParts
<1>5. h \in Nat /\ node[n].store.last < h /\ h <= Top
  BY <1>3, <1>4, TopType
<1>6. BootstrapAfterStateSync(node[n], n, h) \in Good(n)
  BY <1>3, <1>5, BootstrapGood
<1> QED BY <1>2, <1>6, InstallGood

LEMMA RollsBackKeeps ==
  ASSUME IInv, NEW n \in Node, OperatorRollsBack(n)
  PROVE  IInv'
<1>1. PICK h \in {node[n].store.last, node[n].store.last + 1} :
          Rollback(node[n], h).ok /\ node' = [node EXCEPT ![n] = Rollback(node[n], h)]
  BY Zenon DEF OperatorRollsBack
<1>2. chain' = chain /\ msgs' = msgs
  BY DEF OperatorRollsBack
<1>3. chain \in Seq(CertifiedBlock) /\ node[n] \in Good(n) /\ node[n].out = {}
  BY DEF IInv
<1>4. Rollback(node[n], h) \in Good(n)
  BY <1>1, <1>3, RollbackGood
<1>5. Rollback(node[n], h).out = {}
  BY <1>3 DEF Rollback, RollbackLast, Revert, Good, NodeState
<1>6. Rollback(node[n], h) \in NodeState
  BY <1>4 DEF Good
<1>7. /\ node' \in [Node -> NodeState]
      /\ \A m \in Node : node'[m] \in Good(m) /\ node'[m].out = {} /\ node'[m].ok
  BY <1>1, <1>4, <1>5, <1>6 DEF IInv
<1> QED BY <1>2, <1>7, SameChain DEF IInv

(* A block that is certified later takes nothing away. *)
LEMMA LaterBlock ==
  ASSUME chain \in Seq(CertifiedBlock), NEW b \in CertifiedBlock, chain' = Append(chain, b)
  PROVE  Message \subseteq Message' /\ NodeState \subseteq NodeState' /\ \A n \in Node : Good(n) \subseteq Good(n)'
<1>1. Top' = Top + 1 /\ Top \in Nat /\ (NoneJoined' => NoneJoined)
  BY DEF Top, LOG_START, NoneJoined
<1>2. (LOG_START + 1)..Top \subseteq ((LOG_START + 1)..Top)'
  BY <1>1 DEF LOG_START
<1>3. SyncResponse \subseteq SyncResponse'
  BY <1>2 DEF SyncResponse
<1>4. NodeResponse \subseteq NodeResponse' /\ BlockProposal \subseteq BlockProposal'
  BY <1>1 DEF NodeResponse, BlockProposal
<1>5. Message \subseteq Message'
  BY <1>3, <1>4 DEF Message
<1>6. NodeState \subseteq NodeState'
  BY <1>5 DEF NodeState
<1>7. ASSUME NEW n \in Node, NEW s \in Good(n)
      PROVE  NodeSound(s, n)'
  <2>1. s \in NodeState /\ NodeSound(s, n) /\ s.store \in Store /\ s.base \in Nat
    BY DEF Good, NodeState
  <2>2. StoreSound(s.store, s.base)'
    BY <2>1, StoreStaysSound DEF NodeSound
  <2> QED BY <1>1, <1>2, <2>1, <2>2 DEF NodeSound
<1> QED BY <1>5, <1>6, <1>7 DEF Good

LEMMA CertifyKeeps ==
  ASSUME IInv, NEW p \in Node, Certify(p)
  PROVE  IInv'
<1> DEFINE vs == Range(ValidatorsAfter(Top))
<1>1. PICK a \in (Node \ vs) \cup {NoNode}, changes \in BOOLEAN :
          chain' = Append(chain, [termId |-> node[p].termId, creates |-> a, changes |-> changes])
  BY Zenon DEF Certify
<1>2. node' = node /\ msgs' = msgs
  BY DEF Certify
<1> HIDE DEF vs
<1> DEFINE b == [termId |-> node[p].termId, creates |-> a, changes |-> changes]
<1>3. b \in CertifiedBlock
  BY DEF IInv, NodeState, CertifiedBlock
<1>4. chain' = Append(chain, b) /\ chain \in Seq(CertifiedBlock)
  BY <1>1 DEF IInv
<1> HIDE DEF b
<1>5. chain' \in Seq(CertifiedBlock)
  BY <1>3, <1>4
<1>6. Message \subseteq Message' /\ NodeState \subseteq NodeState' /\ \A n \in Node : Good(n) \subseteq Good(n)'
  BY <1>3, <1>4, LaterBlock
<1>7. node' \in [Node -> NodeState']
  BY <1>2, <1>6 DEF IInv
<1> QED BY <1>2, <1>5, <1>6, <1>7 DEF IInv

LEMMA Step == IInv /\ [Next]_vars => IInv'
<1> SUFFICES ASSUME IInv, [Next]_vars
             PROVE  IInv'
  OBVIOUS
<1>1. ASSUME NEW n \in Node, Start(n)
      PROVE  IInv'
  BY <1>1, StartKeeps
<1>2. ASSUME NEW n \in Node, NextRound(n)
      PROVE  IInv'
  BY <1>2, NextRoundKeeps
<1>3. ASSUME NEW n \in Node, Certify(n)
      PROVE  IInv'
  BY <1>3, CertifyKeeps
<1>4. ASSUME NEW n \in Node, CommitBlock(n)
      PROVE  IInv'
  BY <1>4, CommitBlockKeeps
<1>5. ASSUME NEW n \in Node, Commit(n)
      PROVE  IInv'
  BY <1>5, CommitKeeps
<1>6. ASSUME NEW n \in Node, Snapshot(n)
      PROVE  IInv'
  BY <1>6, SnapshotKeeps
<1>7. ASSUME NEW n \in Node, OperatorRollsBack(n)
      PROVE  IInv'
  BY <1>7, RollsBackKeeps
<1>8. ASSUME NEW m \in msgs, Receive(m)
      PROVE  IInv'
  BY <1>8, ReceiveKeeps
<1>9. ASSUME NEW m \in msgs, ReceiveProposal(m)
      PROVE  IInv'
  BY <1>9, ReceiveProposalKeeps
<1>10. CASE UNCHANGED vars
  <2>1. chain' = chain /\ node' = node /\ msgs' = msgs
    BY <1>10 DEF vars
  <2> QED BY <2>1, SameChain DEF IInv
<1> QED BY <1>1, <1>2, <1>3, <1>4, <1>5, <1>6, <1>7, <1>8, <1>9, <1>10 DEF Next

(* Whatever arrives, in whatever order, and whatever is rolled back or brought by a
   snapshot, every node and every message stays good for the chain. *)
THEOREM SyncInvariant == Spec => []IInv
BY Initially, Step, PTL DEF Spec

(* A store has every block of the chain from its last snapshot to its height and
   none beyond, and the parameters it reads for the next are those the chain set. *)
THEOREM StoresFollowTheChain == Spec => []StoreFollowsChain
<1>1. IInv => StoreFollowsChain
  <2> SUFFICES ASSUME IInv, NEW n \in Node
               PROVE  /\ node[n].store.last = node[n].nextHeight - 1 /\ node[n].store.last <= Top
                      /\ (node[n].base + 1)..node[n].store.last \subseteq node[n].store.blocks
                      /\ node[n].store.blocks \subseteq (LOG_START + 1)..node[n].store.last
                      /\ node[n].lastLogIndex >= node[n].store.last
                      /\ \/ GetConsensusParams(node[n].store, 0) = ParamsFor(node[n].nextHeight)
                         \/ GetConsensusParams(node[n].store, 0) = Missing /\ node[n].nextHeight = node[n].base + 1
    BY Zenon DEF StoreFollowsChain
  <2> DEFINE s == node[n]
  <2>1. s \in Good(n) /\ chain \in Seq(CertifiedBlock)
    BY DEF IInv
  <2> HIDE DEF s
  <2>2. NodeSound(s, n) /\ s.store \in Store /\ s.base \in Nat /\ s.nextHeight \in Nat /\ s.lastLogIndex \in Nat
    BY <2>1 DEF Good, NodeState
  <2>3. s.nextHeight = s.store.last + 1 /\ s.store.last \in Nat
    BY <2>1, GoodParts
  <2>4. \/ GetConsensusParams(s.store, 0) = ParamsFor(s.store.last + 1)
        \/ GetConsensusParams(s.store, 0) = Missing /\ s.store.last = s.base
    BY <2>2, LatestParams DEF NodeSound, StoreSound
  <2> QED BY <2>2, <2>3, <2>4 DEF NodeSound, StoreSound, BlocksSound, s
<1> QED BY <1>1, SyncInvariant, PTL

(* The id a node signs under is that of its own entry, whichever lists of other
   nodes it took over. *)
THEOREM IdsAreTheirOwn == Spec => []OwnIdIsOwn
<1>1. IInv => OwnIdIsOwn
  BY DEF IInv, Good, NodeSound, OwnIdIsOwn
<1> QED BY <1>1, SyncInvariant, PTL

(* While nobody joins, the proposer and the queue of a round are those the founders
   come to in it, by whatever jumps, hand-overs and rollbacks a node came there, but
   for queues that come of a rollback to the round of a kept block. *)
THEOREM QueuesAreOfTheirRounds == Spec => []QueuesAgree
<1>1. IInv => QueuesAgree
  <2> SUFFICES ASSUME IInv, NoneJoined, NEW n \in Node, NEW m \in Node, ~node[n].mixed, ~node[m].mixed,
                      node[n].proposerQueueTermId = node[m].proposerQueueTermId
               PROVE  /\ node[n].proposerQueue = node[m].proposerQueue
                      /\ node[n].proposerIndex = node[m].proposerIndex
    BY DEF QueuesAgree, NoneJoined
  <2>1. Queued(node[n]) = Queued(node[m])
    BY DEF IInv, Good, NodeSound
  <2> QED BY <2>1 DEF Queued
<1> QED BY <1>1, SyncInvariant, PTL
=============================================================================
