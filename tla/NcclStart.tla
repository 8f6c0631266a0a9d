------------------------------ MODULE NcclStart ------------------------------
(***************************************************************************)
(* NcclSystem from the start of its ranks on: they meet (Rendezvous),      *)
(* connect to their sockets and enter the loop (NcclWorker), and may be    *)
(* started again after they have ended.  stage[w] is "exited" as long as   *)
(* rank w is not in its loop.                                              *)
(***************************************************************************)
EXTENDS NcclSystem, Rendezvous

startVars == <<vars, rendezvousVars>>

StartInit ==
  /\ CommonInit
  /\ GatewayInit
  /\ PublisherInit
  /\ stage = [w \in Workers |-> "exited"]
  /\ msg = [w \in Workers |-> Nil]
  /\ probs = [w \in Workers |-> Nil]
  /\ overlap = FALSE
  /\ RendezvousInit

-----------------------------------------------------------------------------
GatewaySteps == GatewayNext /\ UNCHANGED <<rankVars, rendezvousVars>> /\ Track

GatewayRestarts ==
  /\ GatewayRestart
  /\ Track
  /\ UNCHANGED <<stage, msg, probs, rendezvousVars>>

RanksWork == RanksRun /\ UNCHANGED <<gatewayVars, rendezvousVars>> /\ Track

(* A rank ends in its loop.                                                *)
LoopEnds(w) == RankEnds(w) /\ Leave(w) /\ UNCHANGED gatewayVars /\ Track

(* A Redis or CUDA error or a kill on the way there; a SETEX that was      *)
(* applied all the same is its step followed by this one.                  *)
BootEnds(w) ==
  /\ boot[w] # "up"
  /\ Fault("worker")
  /\ Leave(w)
  /\ UNCHANGED <<store, metadata, progress, bus, subscribed, chan, missed,
                 gatewayVars, rankVars, overlap>>

Boots(w) == BootStep(w) /\ UNCHANGED vars

FromOutside ==
  /\ ExpireUid \/ \E w \in Ranks : Outside(w)
  /\ UNCHANGED vars

(* The communicator is there: every rank connects its socket.              *)
EnterLoop ==
  /\ Join
  /\ stage' = [w \in Workers |-> "recv"]
  /\ UNCHANGED <<sharedVars, gatewayVars, inbox, msg, probs, overlap>>

StartNext ==
  \/ GatewaySteps
  \/ GatewayRestarts
  \/ RanksWork
  \/ \E w \in Ranks : LoopEnds(w) \/ BootEnds(w) \/ Boots(w)
  \/ FromOutside
  \/ EnterLoop
  \/ Quiescent /\ UNCHANGED startVars

StartSpec == StartInit /\ [][StartNext]_startVars

-----------------------------------------------------------------------------
StartTypeOK ==
  /\ TypeOK
  /\ RendezvousTypeOK
  /\ \A w \in Ranks : stage[w] # "exited" <=> boot[w] = "up"
=============================================================================
