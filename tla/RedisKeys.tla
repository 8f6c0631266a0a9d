----------------------------- MODULE RedisKeys -----------------------------
(***************************************************************************)
(* The naming of the Redis keys (gateway-rs/src/config.rs; the worker      *)
(* spells the slice key out in write_result).                              *)
(*                                                                         *)
(* A job id is an arbitrary client string.  It is represented by the       *)
(* sequence of its ':'-separated components, so "a:0" is <<a, 0>>: this is *)
(* all that format!("result:{}:{}", job_id, slice_id) lets one tell apart, *)
(* and it keeps the fact that the key of slice 0 of job "a" and the result *)
(* key of job "a:0" are the same string.  Keys of the "metadata:" and      *)
(* "progress:" families are never confused with anything, so those two     *)
(* families are functions of the job id.                                   *)
(***************************************************************************)
EXTENDS Naturals, Sequences

ResultKey(job) == job

(* Mutant: the slice id is left out of the key.                            *)
SliceKey_Flat(job, slice) == Append(job, 0)

SliceKey(job, slice) == Append(job, slice)
=============================================================================
