-------------------------- MODULE RendezvousProofs --------------------------
(***************************************************************************)
(* JoinTogether for any number of ranks and of restarts: of the rendezvous *)
(* by itself, then of the whole NCCL system that starts with it.           *)
(***************************************************************************)
EXTENDS NcclStart, NcclSystemProofs

(* A rank that is past nccl_uid in its current start.                      *)
HasUid(w) == boot[w] \in {"ready", "barrier", "join", "up"}

(* It has raised its flag in its current start, or has ended since.        *)
PastReady(w) == boot[w] \in {"barrier", "join", "up", "down"}

(* A rank that lags behind another one has ended; so the ranks that run    *)
(* are all in the latest start.                                            *)
RunnersAreLatest ==
  \A v, w \in Ranks : starts[v] < starts[w] => boot[v] = "down"

(* What is in Redis was written in the latest start.                       *)
KeysAreLatest ==
  /\ uidKey # 0 => uidKey = starts[0] /\ \A w \in Ranks : starts[w] <= starts[0]
  /\ \A v \in Ranks : readyKey[v] # 0 =>
       /\ readyKey[v] = starts[v]
       /\ \A w \in Ranks : starts[w] <= starts[v]
       /\ PastReady(v)

(* The id a rank holds is the one rank 0 made in the same start.           *)
IdsAreLatest == \A w \in Ranks : HasUid(w) => uid[w] = starts[w]

(* The flags a rank has counted are those of ranks of its own start.       *)
FlagsAreLatest ==
  \A v, w \in Ranks :
    \/ boot[w] = "barrier" /\ v < seen[w]
    \/ boot[w] \in {"join", "up"}
    => starts[v] = starts[w] /\ PastReady(v)

Clean == RunnersAreLatest /\ KeysAreLatest /\ IdsAreLatest /\ FlagsAreLatest

Inv == RendezvousTypeOK /\ (~tainted => Clean)

-----------------------------------------------------------------------------
LEMMA RanksFacts == 0 \in Ranks /\ \A w \in Ranks : w \in Nat /\ w < WorldSize
  BY SlicingAssumption DEF Ranks

LEMMA InvInit == RendezvousInit => Inv
<1> SUFFICES ASSUME RendezvousInit PROVE Inv OBVIOUS
<1>1. RendezvousTypeOK
  <2>1. tainted \in BOOLEAN BY DEF RendezvousInit
  <2>2. QED BY <2>1, RanksFacts, RendezvousAssumption DEF RendezvousInit, RendezvousTypeOK
<1>2. Clean
  BY RanksFacts DEF RendezvousInit, Clean, RunnersAreLatest, KeysAreLatest, IdsAreLatest,
     FlagsAreLatest, HasUid, PastReady
<1> QED BY <1>1, <1>2 DEF Inv

(* Why the id and the flags are enough: a rank that runs is of the latest  *)
(* start, and so is what it finds in Redis.                                *)
LEMMA FoundKeysAreMine ==
  ASSUME RendezvousTypeOK, Clean, NEW w \in Ranks, boot[w] # "down"
  PROVE  /\ uidKey # 0 => uidKey = starts[w]
         /\ \A v \in Ranks : readyKey[v] # 0 => starts[v] = starts[w] /\ PastReady(v)
<1>1. \A v \in Ranks : starts[v] <= starts[w]
  BY DEF Clean, RunnersAreLatest, RendezvousTypeOK
<1>2. uidKey # 0 => uidKey = starts[w]
  BY <1>1, RanksFacts DEF Clean, KeysAreLatest, RendezvousTypeOK
<1>3. ASSUME NEW v \in Ranks, readyKey[v] # 0 PROVE starts[v] = starts[w] /\ PastReady(v)
  BY <1>1, <1>3 DEF Clean, KeysAreLatest, RendezvousTypeOK
<1> QED BY <1>2, <1>3

LEMMA TypeKept == ASSUME RendezvousTypeOK, [RendezvousNext]_rendezvousVars
                  PROVE  RendezvousTypeOK'
<1> USE RanksFacts, RendezvousAssumption DEF RendezvousTypeOK, Enter
<1>1. ASSUME NEW w \in Ranks, Start(w) PROVE RendezvousTypeOK'
  <2>1. tainted' \in BOOLEAN BY <1>1 DEF Start
  <2>2. QED BY <1>1, <2>1 DEF Start
<1>2. CASE PublishUid BY <1>2 DEF PublishUid
<1>3. ASSUME NEW w \in Ranks, PollUid(w) \/ SetReady(w) PROVE RendezvousTypeOK'
  BY <1>3 DEF PollUid, SetReady
<1>4. ASSUME NEW w \in Ranks, SeeReady(w) \/ MissReady(w) PROVE RendezvousTypeOK'
  <2>1. ASSUME NEW k \in Ranks, k + 1 # WorldSize PROVE k + 1 \in Ranks
    BY <2>1, SlicingAssumption DEF Ranks
  <2>2. QED BY <1>4, <2>1 DEF SeeReady, MissReady
<1>5. ASSUME NEW w \in Ranks, Leave(w) \/ ExpireReady(w) PROVE RendezvousTypeOK'
  BY <1>5 DEF Leave, ExpireReady
<1>6. CASE ExpireUid \/ Join BY <1>6 DEF ExpireUid, Join
<1>7. CASE UNCHANGED rendezvousVars BY <1>7 DEF rendezvousVars
<1> QED
  BY <1>1, <1>2, <1>3, <1>4, <1>5, <1>6, <1>7 DEF RendezvousNext, BootStep, Outside, GivesUp

-----------------------------------------------------------------------------
(* Each step, from a state in which no rank has been started among         *)
(* leftovers, keeps the four parts.                                        *)

LEMMA StartKeeps ==
  ASSUME RendezvousTypeOK, Clean, NEW w \in Ranks, Start(w), CleanStart(w)
  PROVE  Clean'
<1> DEFINE this == starts[w] + 1
<1>1. /\ starts' = [starts EXCEPT ![w] = this]
      /\ boot' = [boot EXCEPT ![w] = "uid"]
      /\ UNCHANGED <<uid, seen, uidKey, readyKey>>
  BY DEF Start, Enter
<1>2. \A v \in Ranks : starts[v] = this \/ (starts[v] = this - 1 /\ boot[v] = "down")
  BY DEF CleanStart
<1>3. uidKey \in {0, this} /\ \A v \in Ranks : readyKey[v] \in {0, this}
  BY DEF CleanStart
<1>4. RunnersAreLatest' BY <1>1, <1>2 DEF RunnersAreLatest, RendezvousTypeOK
<1>5. KeysAreLatest'
  <2>1. uidKey # 0 => starts[0] = this /\ 0 # w
    BY <1>3, RanksFacts DEF Clean, KeysAreLatest, RendezvousTypeOK
  <2>2. \A v \in Ranks : readyKey[v] # 0 => starts[v] = this /\ v # w /\ PastReady(v)
    BY <1>3 DEF Clean, KeysAreLatest, RendezvousTypeOK
  <2>3. \A v \in Ranks : starts'[v] <= this BY <1>1, <1>2 DEF RendezvousTypeOK
  <2>4. \A v \in Ranks : v # w => starts'[v] = starts[v] /\ boot'[v] = boot[v]
    BY <1>1 DEF RendezvousTypeOK
  <2>5. uidKey' # 0 => uidKey' = starts'[0] /\ \A v \in Ranks : starts'[v] <= starts'[0]
    BY <1>1, <1>3, <2>1, <2>3, <2>4, RanksFacts
  <2>6. ASSUME NEW v \in Ranks, readyKey'[v] # 0
        PROVE  /\ readyKey'[v] = starts'[v]
               /\ \A x \in Ranks : starts'[x] <= starts'[v]
               /\ PastReady(v)'
    BY <1>1, <1>3, <2>2, <2>3, <2>4, <2>6 DEF PastReady
  <2>7. QED BY <2>5, <2>6 DEF KeysAreLatest
<1>6. IdsAreLatest' BY <1>1 DEF Clean, IdsAreLatest, HasUid, RendezvousTypeOK
<1>7. FlagsAreLatest'
  <2> SUFFICES ASSUME NEW v \in Ranks, NEW x \in Ranks,
                      (boot'[x] = "barrier" /\ v < seen'[x]) \/ boot'[x] \in {"join", "up"}
               PROVE  starts'[v] = starts'[x] /\ PastReady(v)'
    BY DEF FlagsAreLatest
  <2>1. x # w /\ boot[x] = boot'[x] BY <1>1 DEF RendezvousTypeOK
  <2>2. starts[x] = this BY <1>2, <2>1
  <2>3. starts[v] = starts[x] /\ PastReady(v) BY <1>1, <2>1 DEF Clean, FlagsAreLatest
  <2>4. v # w BY <2>2, <2>3 DEF RendezvousTypeOK
  <2>5. QED BY <1>1, <2>1, <2>3, <2>4 DEF PastReady, RendezvousTypeOK
<1> QED BY <1>4, <1>5, <1>6, <1>7 DEF Clean

LEMMA UidKeeps ==
  ASSUME RendezvousTypeOK, Clean, NEW w \in Ranks, (w = 0 /\ PublishUid) \/ PollUid(w)
  PROVE  Clean'
<1>1. /\ boot[w] = "uid"
      /\ boot' = [boot EXCEPT ![w] = "ready"]
      /\ uid' = [uid EXCEPT ![w] = starts[w]]
      /\ uidKey' = uidKey \/ (w = 0 /\ uidKey' = starts[0])
      /\ UNCHANGED <<seen, readyKey, starts>>
  BY FoundKeysAreMine DEF PublishUid, PollUid, Enter
<1>2. RunnersAreLatest' BY <1>1 DEF Clean, RunnersAreLatest, RendezvousTypeOK
<1>3. \A v \in Ranks : starts[v] <= starts[w]
  BY <1>1 DEF Clean, RunnersAreLatest, RendezvousTypeOK
<1>4. \A v \in Ranks : PastReady(v) => PastReady(v)'
  BY <1>1 DEF PastReady, RendezvousTypeOK
<1>5. KeysAreLatest' BY <1>1, <1>3, <1>4 DEF Clean, KeysAreLatest
<1>6. IdsAreLatest' BY <1>1 DEF Clean, IdsAreLatest, HasUid, RendezvousTypeOK
<1>7. FlagsAreLatest'
  <2>1. \A x \in Ranks : boot'[x] \in {"barrier", "join", "up"} => boot[x] = boot'[x]
    BY <1>1 DEF RendezvousTypeOK
  <2>2. QED BY <1>1, <1>4, <2>1 DEF Clean, FlagsAreLatest
<1> QED BY <1>2, <1>5, <1>6, <1>7 DEF Clean

LEMMA SetReadyKeeps ==
  ASSUME RendezvousTypeOK, Clean, NEW w \in Ranks, SetReady(w)
  PROVE  Clean'
<1>1. /\ boot[w] = "ready"
      /\ boot' = [boot EXCEPT ![w] = "barrier"]
      /\ readyKey' = [readyKey EXCEPT ![w] = starts[w]]
      /\ seen' = [seen EXCEPT ![w] = 0]
      /\ UNCHANGED <<uid, uidKey, starts>>
  BY DEF SetReady, Enter
<1>2. RunnersAreLatest' BY <1>1 DEF Clean, RunnersAreLatest, RendezvousTypeOK
<1>3. \A v \in Ranks : starts[v] <= starts[w]
  BY <1>1 DEF Clean, RunnersAreLatest, RendezvousTypeOK
<1>4. PastReady(w)' /\ \A v \in Ranks : PastReady(v) => PastReady(v)'
  BY <1>1 DEF PastReady, RendezvousTypeOK
<1>5. KeysAreLatest' BY <1>1, <1>3, <1>4 DEF Clean, KeysAreLatest, RendezvousTypeOK
<1>6. IdsAreLatest' BY <1>1 DEF Clean, IdsAreLatest, HasUid, RendezvousTypeOK
<1>7. FlagsAreLatest'
  <2>1. \A x \in Ranks \ {w} : boot'[x] = boot[x] /\ seen'[x] = seen[x]
    BY <1>1 DEF RendezvousTypeOK
  <2>2. boot'[w] = "barrier" /\ \A v \in Ranks : ~(v < seen'[w])
    BY <1>1, RanksFacts DEF RendezvousTypeOK
  <2>3. QED BY <1>1, <1>4, <2>1, <2>2 DEF Clean, FlagsAreLatest
<1> QED BY <1>2, <1>5, <1>6, <1>7 DEF Clean

LEMMA BarrierKeeps ==
  ASSUME RendezvousTypeOK, Clean, NEW w \in Ranks, SeeReady(w) \/ MissReady(w)
  PROVE  Clean'
<1>1. /\ boot[w] = "barrier"
      /\ boot' = boot \/ boot' = [boot EXCEPT ![w] = "join"]
      /\ UNCHANGED <<uid, uidKey, readyKey, starts>>
  BY DEF SeeReady, MissReady, Enter
<1>2. RunnersAreLatest' BY <1>1 DEF Clean, RunnersAreLatest, RendezvousTypeOK
<1>3. \A v \in Ranks : PastReady(v) => PastReady(v)'
  BY <1>1 DEF PastReady, RendezvousTypeOK
<1>4. KeysAreLatest' BY <1>1, <1>3 DEF Clean, KeysAreLatest
<1>5. IdsAreLatest' BY <1>1 DEF Clean, IdsAreLatest, HasUid, RendezvousTypeOK
<1>6. FlagsAreLatest'
  <2> SUFFICES ASSUME NEW v \in Ranks, NEW x \in Ranks,
                      (boot'[x] = "barrier" /\ v < seen'[x]) \/ boot'[x] \in {"join", "up"}
               PROVE  starts[v] = starts[x] /\ PastReady(v)
    BY <1>1, <1>3 DEF FlagsAreLatest
  <2>1. CASE x # w
    <3>1. boot'[x] = boot[x] /\ seen'[x] = seen[x]
      BY <2>1 DEF SeeReady, MissReady, Enter, RendezvousTypeOK
    <3>2. QED BY <3>1 DEF Clean, FlagsAreLatest
  <2>2. CASE x = w /\ MissReady(w)
    BY <2>2, RanksFacts DEF MissReady, RendezvousTypeOK
  <2>3. CASE x = w /\ SeeReady(w)
    <3>1. v <= seen[w]
      <4>1. seen[w] \in Ranks BY DEF RendezvousTypeOK
      <4>2. CASE seen[w] + 1 = WorldSize BY <4>1, <4>2, RanksFacts
      <4>3. CASE seen[w] + 1 # WorldSize
        <5>1. seen'[w] = seen[w] + 1 /\ boot'[w] = "barrier"
          BY <2>3, <4>3 DEF SeeReady, RendezvousTypeOK
        <5>2. QED BY <2>3, <4>1, <5>1, RanksFacts
      <4> QED BY <4>2, <4>3
    <3>2. CASE v = seen[w] BY <2>3, <3>2, <1>1, FoundKeysAreMine DEF SeeReady
    <3>3. CASE v < seen[w] BY <2>3, <3>3, <1>1 DEF Clean, FlagsAreLatest
    <3> QED BY <3>1, <3>2, <3>3, RanksFacts DEF RendezvousTypeOK
  <2> QED BY <2>1, <2>2, <2>3
<1> QED BY <1>2, <1>4, <1>5, <1>6 DEF Clean

LEMMA JoinKeeps == ASSUME RendezvousTypeOK, Clean, Join PROVE Clean'
<1>1. /\ \A w \in Ranks : boot[w] = "join" /\ boot'[w] = "up"
      /\ UNCHANGED <<uid, seen, uidKey, readyKey, starts>>
  BY DEF Join
<1>2. RunnersAreLatest' BY <1>1 DEF Clean, RunnersAreLatest
<1>3. KeysAreLatest' BY <1>1 DEF Clean, KeysAreLatest, PastReady
<1>4. IdsAreLatest' BY <1>1 DEF Clean, IdsAreLatest, HasUid
<1>5. FlagsAreLatest' BY <1>1 DEF Clean, FlagsAreLatest, PastReady
<1> QED BY <1>2, <1>3, <1>4, <1>5 DEF Clean

LEMMA LeaveKeeps ==
  ASSUME RendezvousTypeOK, Clean, NEW w \in Ranks, Leave(w)
  PROVE  Clean'
<1>1. /\ boot' = [boot EXCEPT ![w] = "down"]
      /\ UNCHANGED <<uidKey, readyKey, starts>>
      /\ \A v \in Ranks \ {w} : uid'[v] = uid[v] /\ seen'[v] = seen[v] /\ boot'[v] = boot[v]
  BY DEF Leave, Enter, RendezvousTypeOK
<1>2. boot'[w] = "down" BY <1>1 DEF RendezvousTypeOK
<1>3. RunnersAreLatest' BY <1>1, <1>2 DEF Clean, RunnersAreLatest
<1>4. \A v \in Ranks : PastReady(v) => PastReady(v)' BY <1>1, <1>2 DEF PastReady
<1>5. KeysAreLatest' BY <1>1, <1>4 DEF Clean, KeysAreLatest
<1>6. IdsAreLatest' BY <1>1, <1>2 DEF Clean, IdsAreLatest, HasUid
<1>7. FlagsAreLatest' BY <1>1, <1>2, <1>4 DEF Clean, FlagsAreLatest
<1> QED BY <1>3, <1>5, <1>6, <1>7 DEF Clean

LEMMA ExpiryKeeps ==
  ASSUME RendezvousTypeOK, Clean, ExpireUid \/ \E w \in Ranks : ExpireReady(w)
  PROVE  Clean'
<1>1. /\ UNCHANGED <<boot, uid, seen, starts>>
      /\ uidKey' \in {0, uidKey}
      /\ \A v \in Ranks : readyKey'[v] \in {0, readyKey[v]}
  BY DEF ExpireUid, ExpireReady, RendezvousTypeOK
<1>2. RunnersAreLatest' /\ IdsAreLatest' /\ FlagsAreLatest'
  BY <1>1 DEF Clean, RunnersAreLatest, IdsAreLatest, FlagsAreLatest, HasUid, PastReady
<1>3. KeysAreLatest' BY <1>1 DEF Clean, KeysAreLatest, PastReady
<1> QED BY <1>2, <1>3 DEF Clean

LEMMA InvStep == Inv /\ [RendezvousNext]_rendezvousVars => Inv'
<1> SUFFICES ASSUME Inv, [RendezvousNext]_rendezvousVars PROVE Inv' OBVIOUS
<1>1. RendezvousTypeOK /\ RendezvousTypeOK' BY TypeKept DEF Inv
<1>2. SUFFICES ASSUME ~tainted' PROVE Clean' BY <1>1 DEF Inv
<1>3. ASSUME NEW w \in Ranks, Start(w) PROVE Clean'
  <2>1. ~tainted /\ CleanStart(w) BY <1>2, <1>3 DEF Start
  <2>2. QED BY <1>1, <1>3, <2>1, StartKeeps DEF Inv
<1>4. CASE tainted' = tainted /\ [RendezvousNext]_rendezvousVars
  <2>1. Clean BY <1>2, <1>4 DEF Inv
  <2>2. ASSUME NEW w \in Ranks, BootStep(w) \/ Leave(w) PROVE Clean'
    BY <1>1, <2>1, <2>2, UidKeeps, SetReadyKeeps, BarrierKeeps, LeaveKeeps DEF BootStep, GivesUp
  <2>3. CASE UNCHANGED rendezvousVars
    <3>1. UNCHANGED <<boot, uid, seen, uidKey, readyKey, starts>> BY <2>3 DEF rendezvousVars
    <3>2. QED BY <2>1, <3>1 DEF Clean, RunnersAreLatest, KeysAreLatest, IdsAreLatest,
                    FlagsAreLatest, HasUid, PastReady
  <2>4. QED
    BY <1>1, <1>3, <1>4, <2>1, <2>2, <2>3, JoinKeeps, ExpiryKeeps DEF RendezvousNext, Outside
<1>5. (\E w \in Ranks : Start(w)) \/ tainted' = tainted
  BY DEF RendezvousNext, BootStep, Outside, GivesUp, PublishUid, PollUid, SetReady, SeeReady,
     MissReady, Leave, ExpireReady, ExpireUid, Join, rendezvousVars
<1> QED BY <1>3, <1>4, <1>5

LEMMA InvJoins == Inv => JoinTogether
<1> SUFFICES ASSUME Inv, ~tainted, NEW v \in Ranks, NEW w \in Ranks,
                    boot[w] \in {"join", "up"}
             PROVE  /\ starts[v] = starts[w]
                    /\ \/ boot[v] \in {"barrier", "join", "up"} /\ uid[v] = uid[w]
                       \/ boot[v] = "down"
  BY DEF JoinTogether
<1>1. starts[v] = starts[w] /\ PastReady(v) BY DEF Inv, Clean, FlagsAreLatest
<1>2. uid[w] = starts[w] BY DEF Inv, Clean, IdsAreLatest, HasUid
<1>3. HasUid(v) => uid[v] = starts[v] BY DEF Inv, Clean, IdsAreLatest
<1> QED BY <1>1, <1>2, <1>3 DEF PastReady, HasUid

(* Redis and the two kinds of keys bring the ranks together, for any world *)
(* size and any number of restarts, if the restarts are clean.             *)
THEOREM RendezvousJoins == RendezvousSpec => []JoinTogether
  BY InvInit, InvStep, InvJoins, PTL DEF RendezvousSpec

-----------------------------------------------------------------------------
(* The NCCL system from its start on is a rendezvous as far as the ranks'  *)
(* processes are concerned: the gateway, the loop and the faults of both   *)
(* do nothing to it but end a rank.                                        *)
LEMMA StartIsRendezvous == [StartNext]_startVars => [RendezvousNext]_rendezvousVars
<1> SUFFICES ASSUME [StartNext]_startVars PROVE [RendezvousNext]_rendezvousVars OBVIOUS
<1>1. CASE GatewaySteps \/ GatewayRestarts \/ RanksWork
  BY <1>1 DEF GatewaySteps, GatewayRestarts, RanksWork
<1>2. ASSUME NEW w \in Ranks, LoopEnds(w) \/ BootEnds(w) \/ Boots(w)
      PROVE  RendezvousNext
  BY <1>2 DEF LoopEnds, BootEnds, Boots, RendezvousNext
<1>3. CASE FromOutside BY <1>3 DEF FromOutside, RendezvousNext
<1>4. CASE EnterLoop BY <1>4 DEF EnterLoop, RendezvousNext
<1>5. CASE UNCHANGED startVars BY <1>5 DEF startVars
<1> QED BY <1>1, <1>2, <1>3, <1>4, <1>5 DEF StartNext

(* In the whole system, while jobs arrive, run and fail, a rank that is    *)
(* past its barrier never waits for a rank that cannot come.               *)
THEOREM RanksJoinTogether == StartSpec => []JoinTogether
<1>1. StartInit => RendezvousInit BY DEF StartInit
<1>2. QED BY <1>1, StartIsRendezvous, InvInit, InvStep, InvJoins, PTL DEF StartSpec

-----------------------------------------------------------------------------
(* A rank is in its loop exactly when it is up, across all the ways to     *)
(* start, to end and to be started again.                                  *)

UpIsLive == \A w \in Ranks : stage[w] # "exited" <=> boot[w] = "up"

StartInv == RanksOK /\ RendezvousTypeOK /\ UpIsLive

LEMMA RanksAreWorkers == Ranks = Workers
  BY NcclAssumption, PublisherAssumption DEF Ranks

LEMMA StartInvInit == StartInit => StartInv
<1> SUFFICES ASSUME StartInit PROVE StartInv OBVIOUS
<1>1. Typed BY TypedInit DEF StartInit
<1>2. overlap \in BOOLEAN BY DEF StartInit
<1>3. RanksOK
  BY <1>1, <1>2
  DEF StartInit, RanksOK, TypeOK, Typed, RanksBusy, RanksTypeOK, PublisherInit, PublisherTypeOK
<1>4. RendezvousTypeOK BY InvInit DEF StartInit, Inv
<1>5. UpIsLive BY RanksAreWorkers DEF StartInit, RendezvousInit, UpIsLive
<1> QED BY <1>3, <1>4, <1>5 DEF StartInv

(* The loop as long as no rank ends.                                       *)
LEMMA RunKeepsLive ==
  ASSUME StartInv, RanksRun, UNCHANGED rendezvousVars
  PROVE  UpIsLive'
<1> USE DEF StartInv, RanksOK, TypeOK, RanksTypeOK, UpIsLive, rendezvousVars
<1>1. CASE \E c \in Channels : PushRankStep(c)
  BY <1>1 DEF PushRankStep, PushToRank, PushToRankFails
<1>2. ASSUME NEW w \in Workers, RankStep(w) PROVE UpIsLive'
  BY <1>2, RanksAreWorkers DEF RankStep, Receive, WriteProbs, NotifyProbs, Done, At
<1>3. CASE AllReduce BY <1>3, RanksAreWorkers DEF AllReduce
<1> QED BY <1>1, <1>2, <1>3 DEF RanksRun

LEMMA LoopEndsKeeps ==
  ASSUME StartInv, NEW w \in Ranks, LoopEnds(w)
  PROVE  RanksOK' /\ UpIsLive'
<1>1. RanksNext BY RanksAreWorkers DEF LoopEnds, RanksNext
<1>2. RanksOK' BY <1>1, RanksNextType DEF LoopEnds, Track, StartInv
<1>3. stage' = [stage EXCEPT ![w] = "exited"] /\ boot' = [boot EXCEPT ![w] = "down"]
  BY DEF LoopEnds, RankEnds, WriteProbsFails, NotifyProbsFails, RankFails, Exit, At, Leave, Enter
<1>4. UpIsLive'
  BY <1>3, RanksAreWorkers
  DEF StartInv, RanksOK, TypeOK, RanksTypeOK, RendezvousTypeOK, UpIsLive
<1> QED BY <1>2, <1>4

LEMMA BootEndsKeeps ==
  ASSUME StartInv, NEW w \in Ranks, BootEnds(w)
  PROVE  RanksOK' /\ UpIsLive'
<1> USE DEF StartInv, BootEnds
<1>1. faults' \in 0 .. MaxFaults
  BY CommonAssumption DEF Fault, RanksOK, TypeOK, CommonTypeOK
<1>2. CommonTypeOK' BY <1>1 DEF RanksOK, TypeOK, CommonTypeOK
<1>3. RanksTypeOK' /\ RanksBusy' /\ overlap' \in BOOLEAN
  BY DEF RanksOK, TypeOK, RanksTypeOK, RanksBusy, PublisherTypeOK, rankVars
<1>4. RanksOK' BY <1>2, <1>3, RanksFrame
<1>5. UpIsLive' BY DEF Leave, Enter, rankVars, RendezvousTypeOK, UpIsLive
<1> QED BY <1>4, <1>5

(* The steps of the rendezvous itself neither make nor unmake a rank that  *)
(* is up.                                                                  *)
LEMMA BootKeeps ==
  ASSUME StartInv, UNCHANGED vars,
         ExpireUid \/ \E w \in Ranks : BootStep(w) \/ Outside(w)
  PROVE  RanksOK' /\ UpIsLive'
<1>1. RanksOK' BY RanksTypeStep DEF StartInv
<1>2. stage' = stage BY DEF vars, rankVars
<1>3. \A v \in Ranks : boot'[v] = "up" <=> boot[v] = "up"
  BY DEF StartInv, RendezvousTypeOK, ExpireUid, BootStep, Outside, PublishUid, PollUid, SetReady,
     SeeReady, MissReady, GivesUp, Leave, Start, ExpireReady, Enter
<1>4. UpIsLive' BY <1>2, <1>3 DEF StartInv, UpIsLive
<1> QED BY <1>1, <1>4

LEMMA EnterLoopKeeps ==
  ASSUME StartInv, EnterLoop
  PROVE  RanksOK' /\ UpIsLive'
<1> USE DEF StartInv, EnterLoop
<1>1. CommonTypeOK' BY DEF RanksOK, TypeOK, CommonTypeOK, sharedVars
<1>2. RanksTypeOK' /\ RanksBusy' /\ overlap' \in BOOLEAN
  BY DEF RanksOK, TypeOK, RanksTypeOK, RanksBusy, PublisherTypeOK
<1>3. RanksOK' BY <1>1, <1>2, RanksFrame
<1>4. UpIsLive' BY RanksAreWorkers DEF Join, UpIsLive
<1> QED BY <1>3, <1>4

LEMMA StartInvStep == StartInv /\ [StartNext]_startVars => StartInv'
<1> SUFFICES ASSUME StartInv, [StartNext]_startVars PROVE StartInv' OBVIOUS
<1>1. RendezvousTypeOK' BY StartIsRendezvous, TypeKept DEF StartInv
<1>2. RanksOK' /\ UpIsLive'
  <2>1. CASE GatewaySteps \/ GatewayRestarts
    <3>1. RanksOK'
      BY <2>1, GatewayRanksType DEF GatewaySteps, GatewayRestarts, Track, StartInv
    <3>2. stage' = stage /\ boot' = boot
      BY <2>1 DEF GatewaySteps, GatewayRestarts, rankVars, rendezvousVars
    <3> QED BY <3>1, <3>2 DEF StartInv, UpIsLive
  <2>2. CASE RanksWork
    <3>1. RanksOK' BY <2>2, RanksNextType DEF RanksWork, RanksNext, Track, StartInv
    <3> QED BY <2>2, <3>1, RunKeepsLive DEF RanksWork
  <2>3. ASSUME NEW w \in Ranks, LoopEnds(w) \/ BootEnds(w) \/ Boots(w)
        PROVE  RanksOK' /\ UpIsLive'
    BY <2>3, LoopEndsKeeps, BootEndsKeeps, BootKeeps DEF Boots
  <2>4. CASE FromOutside BY <2>4, BootKeeps DEF FromOutside
  <2>5. CASE EnterLoop BY <2>5, EnterLoopKeeps
  <2>6. CASE UNCHANGED startVars
    <3>1. RanksOK' BY <2>6, RanksTypeStep DEF startVars, StartInv
    <3>2. stage' = stage /\ boot' = boot BY <2>6 DEF startVars, vars, rankVars, rendezvousVars
    <3> QED BY <3>1, <3>2 DEF StartInv, UpIsLive
  <2> QED BY <2>1, <2>2, <2>3, <2>4, <2>5, <2>6 DEF StartNext
<1> QED BY <1>1, <1>2 DEF StartInv

(* run_nccl from its first line to its last: a rank takes messages exactly *)
(* as long as it belongs to a communicator, and rendezvous, loop and       *)
(* gateway keep each other's state in shape through every restart.         *)
THEOREM StartTypeCorrect == StartSpec => []StartTypeOK
<1>1. StartInv => StartTypeOK BY DEF StartInv, StartTypeOK, RanksOK, UpIsLive
<1> QED BY <1>1, StartInvInit, StartInvStep, PTL DEF StartSpec
=============================================================================
