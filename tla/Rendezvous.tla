----------------------------- MODULE Rendezvous -----------------------------
(***************************************************************************)
(* How the ranks of TRANSPORT=zmq_nccl find each other before they enter   *)
(* their loop (gpu_worker.rs: nccl_rendezvous and NcclWorker::new, called  *)
(* by run_nccl in main.rs).  Rank 0 makes an NCCL id and leaves it in      *)
(* Redis, the others poll for it; then every rank raises a flag of its own *)
(* and waits until it has seen the flags of all.  Id and flags stay in     *)
(* Redis for NCCL_UID_TTL, and nothing in them says which start of the     *)
(* ranks they belong to.                                                   *)
(*                                                                         *)
(* A key is 0 when it does not exist, and otherwise the number of the      *)
(* start of the rank that wrote it.  For nccl_uid that number identifies   *)
(* the NCCL id, which is new with every start of rank 0; for nccl_ready:r  *)
(* it is history only, the program stores "1" and looks at existence.      *)
(***************************************************************************)
EXTENDS Slicing

CONSTANT MaxStarts   (* how often a rank may be started                    *)

ASSUME RendezvousAssumption == MaxStarts \in Nat

VARIABLES
  boot,       (* "down", "uid", "ready", "barrier", "join" or "up"         *)
  uid,        (* the NCCL id each rank has, or 0                           *)
  seen,       (* flags the current pass of the barrier has found           *)
  uidKey,     (* nccl_uid                                                  *)
  readyKey,   (* nccl_ready:{rank}                                         *)
  starts,     (* number of starts of each rank                             *)
  tainted     (* history: a rank was started among leftovers of old starts *)

rendezvousVars == <<boot, uid, seen, uidKey, readyKey, starts, tainted>>

Ranks == 0 .. (WorldSize - 1)

Enter(w, label) == boot' = [boot EXCEPT ![w] = label]

-----------------------------------------------------------------------------
(* The ranks are started together: no rank of an older start still runs,   *)
(* none of its keys is left.                                               *)
CleanStart(w) ==
  LET this == starts[w] + 1
  IN /\ \A v \in Ranks : \/ starts[v] = this
                         \/ starts[v] = this - 1 /\ boot[v] = "down"
     /\ uidKey \in {0, this}
     /\ \A v \in Ranks : readyKey[v] \in {0, this}

Start(w) ==
  /\ boot[w] = "down"
  /\ starts[w] < MaxStarts
  /\ starts' = [starts EXCEPT ![w] = @ + 1]
  /\ tainted' = (tainted \/ ~CleanStart(w))
  /\ Enter(w, "uid")
  /\ UNCHANGED <<uid, seen, uidKey, readyKey>>

(* Rank 0: Id::new and the SETEX of nccl_uid.                              *)
PublishUid ==
  /\ boot[0] = "uid"
  /\ uid' = [uid EXCEPT ![0] = starts[0]]
  /\ uidKey' = starts[0]
  /\ Enter(0, "ready")
  /\ UNCHANGED <<seen, readyKey, starts, tainted>>

(* The other ranks: a GET that finds the key.                              *)
PollUid(w) ==
  /\ w # 0 /\ boot[w] = "uid"
  /\ uidKey # 0
  /\ uid' = [uid EXCEPT ![w] = uidKey]
  /\ Enter(w, "ready")
  /\ UNCHANGED <<seen, uidKey, readyKey, starts, tainted>>

SetReady(w) ==
  /\ boot[w] = "ready"
  /\ readyKey' = [readyKey EXCEPT ![w] = starts[w]]
  /\ seen' = [seen EXCEPT ![w] = 0]
  /\ Enter(w, "barrier")
  /\ UNCHANGED <<uid, uidKey, starts, tainted>>

(* Mutant: the barrier is content with one flag less.                      *)
SeeReady_OneShort(w) ==
  /\ boot[w] = "barrier"
  /\ readyKey[seen[w]] # 0
  /\ IF seen[w] + 2 >= WorldSize
       THEN seen' = [seen EXCEPT ![w] = 0] /\ Enter(w, "join")
       ELSE seen' = [seen EXCEPT ![w] = @ + 1] /\ UNCHANGED boot
  /\ UNCHANGED <<uid, uidKey, readyKey, starts, tainted>>

(* Mutant: the pass looks for one flag too many.                           *)
SeeReady_OneMore(w) ==
  /\ boot[w] = "barrier"
  /\ readyKey[seen[w]] # 0
  /\ IF seen[w] = WorldSize
       THEN seen' = [seen EXCEPT ![w] = 0] /\ Enter(w, "join")
       ELSE seen' = [seen EXCEPT ![w] = @ + 1] /\ UNCHANGED boot
  /\ UNCHANGED <<uid, uidKey, readyKey, starts, tainted>>

(* One GET of the barrier.  A pass that misses a flag goes through the     *)
(* remaining ones for the count it logs and begins again.                  *)
SeeReady(w) ==
  /\ boot[w] = "barrier"
  /\ readyKey[seen[w]] # 0
  /\ IF seen[w] + 1 = WorldSize
       THEN seen' = [seen EXCEPT ![w] = 0] /\ Enter(w, "join")
       ELSE seen' = [seen EXCEPT ![w] = @ + 1] /\ UNCHANGED boot
  /\ UNCHANGED <<uid, uidKey, readyKey, starts, tainted>>

MissReady(w) ==
  /\ boot[w] = "barrier"
  /\ readyKey[seen[w]] = 0
  /\ seen' = [seen EXCEPT ![w] = 0]
  /\ UNCHANGED <<boot, uid, uidKey, readyKey, starts, tainted>>

(* Comm::from_rank returns when every rank has called it with the same id. *)
Join ==
  /\ \A w \in Ranks : boot[w] = "join" /\ uid[w] = uid[0]
  /\ boot' = [w \in Ranks |-> "up"]
  /\ UNCHANGED <<uid, seen, uidKey, readyKey, starts, tainted>>

(* The process ends.                                                       *)
Leave(w) ==
  /\ boot[w] # "down"
  /\ Enter(w, "down")
  /\ uid' = [uid EXCEPT ![w] = 0]
  /\ seen' = [seen EXCEPT ![w] = 0]
  /\ UNCHANGED <<uidKey, readyKey, starts, tainted>>

(* The last of the 200 attempts failed, or from_rank did because ranks     *)
(* with this id are missing.                                               *)
GivesUp(w) ==
  /\ \/ w # 0 /\ boot[w] = "uid" /\ uidKey = 0
     \/ boot[w] = "barrier" /\ readyKey[seen[w]] = 0
     \/ boot[w] = "join" /\ \E v \in Ranks : boot[v] # "join" \/ uid[v] # uid[w]
  /\ Leave(w)

(* NCCL_UID_TTL has passed since the key was written.                      *)
ExpireUid ==
  /\ uidKey # 0
  /\ uidKey' = 0
  /\ UNCHANGED <<boot, uid, seen, readyKey, starts, tainted>>

ExpireReady(w) ==
  /\ readyKey[w] # 0
  /\ readyKey' = [readyKey EXCEPT ![w] = 0]
  /\ UNCHANGED <<boot, uid, seen, uidKey, starts, tainted>>

-----------------------------------------------------------------------------
RendezvousInit ==
  /\ boot = [w \in Ranks |-> "down"]
  /\ uid = [w \in Ranks |-> 0]
  /\ seen = [w \in Ranks |-> 0]
  /\ uidKey = 0
  /\ readyKey = [w \in Ranks |-> 0]
  /\ starts = [w \in Ranks |-> 0]
  /\ tainted = FALSE

(* What a rank does by itself between its start and from_rank.             *)
BootStep(w) ==
  \/ w = 0 /\ PublishUid
  \/ PollUid(w)
  \/ SetReady(w)
  \/ SeeReady(w)
  \/ MissReady(w)
  \/ GivesUp(w)

Outside(w) == Start(w) \/ ExpireReady(w)

RendezvousNext ==
  \/ \E w \in Ranks : BootStep(w) \/ Outside(w) \/ Leave(w)
  \/ ExpireUid
  \/ Join

RendezvousSpec == RendezvousInit /\ [][RendezvousNext]_rendezvousVars

-----------------------------------------------------------------------------
RendezvousTypeOK ==
  /\ boot \in [Ranks -> {"down", "uid", "ready", "barrier", "join", "up"}]
  /\ uid \in [Ranks -> 0 .. MaxStarts]
  /\ seen \in [Ranks -> Ranks]
  /\ uidKey \in 0 .. MaxStarts
  /\ readyKey \in [Ranks -> 0 .. MaxStarts]
  /\ starts \in [Ranks -> 0 .. MaxStarts]
  /\ tainted \in BOOLEAN

(* README.md 53: the ranks "initialize the NCCL communicator and enter the *)
(* ZMQ pull loop together".  A rank that is past the barrier blocks until  *)
(* all ranks have joined with its id.  It never waits in vain for one that *)
(* has not started, not read the id, or read another: all have come as far *)
(* as the barrier in the same start and hold the same id, unless they have *)
(* ended since.  That is what the two kinds of keys achieve, whichever     *)
(* rank ends on the way and whenever a key expires, as long as the ranks   *)
(* are started together, after all of them have ended and their keys have  *)
(* expired.                                                                *)
JoinTogether ==
  ~tainted =>
    \A v, w \in Ranks : boot[w] \in {"join", "up"} =>
      /\ starts[v] = starts[w]
      /\ \/ boot[v] \in {"barrier", "join", "up"} /\ uid[v] = uid[w]
         \/ boot[v] = "down"

(* The same sentence without the condition: ranks that wait in from_rank   *)
(* wait for each other.                                                    *)
OneCommunicator ==
  \A v, w \in Ranks :
    boot[v] \in {"join", "up"} /\ boot[w] \in {"join", "up"} => uid[v] = uid[w]
=============================================================================
