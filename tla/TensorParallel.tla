---------------------------- MODULE TensorParallel ----------------------------
(***************************************************************************)
(* The processes of a tensor-parallel engine: ModelRunner of rank 0 in the *)
(* engine's process and one spawned process per further rank, which follow *)
(* rank 0's calls through one shared memory buffer and one event each      *)
(* (nanovllm/engine/model_runner.py), meet in the collectives of the model *)
(* (layers/linear.py, layers/embed_head.py) and end together.              *)
(*                                                                         *)
(* Nothing tells rank 0 that a worker has read the buffer before it is     *)
(* written again; that is left to the collectives, which a rank launches   *)
(* without waiting for them.  done[r] is therefore the progress of r's     *)
(* GPU stream, apart from the program counter pc[r] of its process.        *)
(*                                                                         *)
(* Abstractions.  A message is the number of its call in calls, the length *)
(* and the pickled bytes of a call each being that number.  The warm-up    *)
(* run of __init__ is call 0.  The collectives of CUDA graph capture,      *)
(* which every rank launches alike between the warm-up and the barrier,    *)
(* are left out.                                                           *)
(***************************************************************************)
EXTENDS Integers, Sequences, FiniteSets

CONSTANTS
  TPSize,      \* tensor_parallel_size
  AllReduces,  \* all_reduces of one run of the model
  MaxCalls     \* bound: calls of rank 0

ASSUME TPSizeAssumption == TPSize \in Nat /\ TPSize > 1
ASSUME AllReducesAssumption == AllReduces \in Nat \ {0}
ASSUME MaxCallsAssumption == MaxCalls \in Nat \ {0}

VARIABLES
  pc,        \* where each rank's process is
  calls,     \* the methods rank 0 has called
  step,      \* the iteration of the loop a rank is in
  named,     \* the shared memory exists under its name
  mapped,    \* the ranks that have it open
  shmLen,    \* its first four bytes
  shmData,   \* the bytes after them
  event,     \* worker -> its multiprocessing Event is set
  lenRead,   \* worker -> the length it has read
  got,       \* worker -> the calls it has read
  launched,  \* rank -> the collectives it has launched
  done       \* rank -> how many of them are complete

shmVars == <<named, mapped, shmLen, shmData>>
workerVars == <<event, lenRead, got>>
streamVars == <<launched, done>>
tpVars == <<pc, calls, step, named, mapped, shmLen, shmData,
            event, lenRead, got, launched, done>>

Ranks == 0 .. TPSize - 1
Workers == 1 .. TPSize - 1

Goto(r, place) == pc' = [pc EXCEPT ![r] = place]

(* The call a rank is executing: 0 is the warm-up.                         *)
Current(r) ==
  IF r = 0 THEN Len(calls)
  ELSE IF got[r] = <<>> THEN 0 ELSE got[r][Len(got[r])]

Exiting(r) == Current(r) > 0 /\ calls[Current(r)] = "exit"

-----------------------------------------------------------------------------
(* The GPU streams.                                                        *)

Launch(r, i) ==
  launched' = [launched EXCEPT ![r] = Append(@, <<Current(r), i>>)]

Synchronized(r) == done[r] = Len(launched[r])

(* The last collective of a run is the gather of the logits to rank 0.     *)
SendsLogits(r) ==
  /\ r # 0
  /\ launched[r][done[r] + 1][2] = AllReduces + 1

(* The next collective of r's stream ends: once every rank's stream has    *)
(* come to it, while a worker's part of the gather is done when sent.      *)
CompleteCollective(r) ==
  /\ ~Synchronized(r)
  /\ \/ SendsLogits(r)
     \/ \A q \in Ranks : done[q] >= done[r] /\ Len(launched[q]) > done[r]
  /\ done' = [done EXCEPT ![r] = @ + 1]
  /\ UNCHANGED <<pc, calls, step, shmVars, workerVars, launched>>

-----------------------------------------------------------------------------
(* run: the model's collectives, on every rank.                            *)

LaunchCollective(r) ==
  /\ pc[r] = "run"
  /\ step[r] <= AllReduces
  /\ step' = [step EXCEPT ![r] = @ + 1]
  /\ Launch(r, step[r] + 1)
  /\ UNCHANGED <<pc, calls, shmVars, workerVars, done>>

(* Slip: rank 0 does not wait for the sampled tokens.                      *)
RunReturnsEarly ==
  /\ pc[0] = "run" /\ step[0] > AllReduces
  /\ Goto(0, IF Current(0) = 0 THEN "create" ELSE "idle")
  /\ UNCHANGED <<calls, step, shmVars, workerVars, streamVars>>

(* Rank 0 waits for the sampled tokens (tolist).                           *)
RunReturns ==
  /\ pc[0] = "run" /\ step[0] > AllReduces
  /\ Synchronized(0)
  /\ Goto(0, IF Current(0) = 0 THEN "create" ELSE "idle")
  /\ UNCHANGED <<calls, step, shmVars, workerVars, streamVars>>

(* A worker does not wait for anything.                                    *)
WorkerRunReturns(w) ==
  /\ pc[w] = "run" /\ step[w] > AllReduces
  /\ Goto(w, IF Current(w) = 0 THEN "barrier" ELSE "wait")
  /\ UNCHANGED <<calls, step, shmVars, workerVars, streamVars>>

-----------------------------------------------------------------------------
(* The barrier and the shared memory, at the start and in exit.            *)

CreateSharedMemory ==
  /\ pc[0] = "create"
  /\ named' = TRUE
  /\ mapped' = mapped \cup {0}
  /\ Goto(0, "barrier")
  /\ UNCHANGED <<calls, step, shmLen, shmData, workerVars, streamVars>>

EnterBarrier(r) ==
  /\ pc[r] = "barrier"
  /\ Launch(r, IF Exiting(r) THEN 1 ELSE AllReduces + 2)
  /\ Goto(r, "meet")
  /\ UNCHANGED <<calls, step, shmVars, workerVars, done>>

(* dist.barrier returns; what follows it.                                  *)
LeaveBarrier(r) ==
  /\ pc[r] = "meet"
  /\ Synchronized(r)
  /\ Goto(r, IF Exiting(r) THEN (IF r = 0 THEN "unlink" ELSE "ended")
             ELSE (IF r = 0 THEN "idle" ELSE "open"))
  /\ UNCHANGED <<calls, step, shmVars, workerVars, streamVars>>

OpenSharedMemory(w) ==
  /\ pc[w] = "open"
  /\ mapped' = mapped \cup {w}
  /\ Goto(w, "wait")
  /\ UNCHANGED <<calls, step, named, shmLen, shmData, workerVars, streamVars>>

(* Slip: rank 0 removes the shared memory before the barrier.              *)
CloseAndUnlink(r) ==
  /\ pc[r] = "close"
  /\ mapped' = mapped \ {r}
  /\ named' = (r # 0 /\ named)
  /\ Goto(r, "barrier")
  /\ UNCHANGED <<calls, step, shmLen, shmData, workerVars, streamVars>>

CloseSharedMemory(r) ==
  /\ pc[r] = "close"
  /\ mapped' = mapped \ {r}
  /\ Goto(r, "barrier")
  /\ UNCHANGED <<calls, step, named, shmLen, shmData, workerVars, streamVars>>

Unlink ==
  /\ pc[0] = "unlink"
  /\ named' = FALSE
  /\ Goto(0, "join")
  /\ UNCHANGED <<calls, step, mapped, shmLen, shmData, workerVars, streamVars>>

(* LLMEngine.exit waits for the processes.                                 *)
Join ==
  /\ pc[0] = "join"
  /\ \A w \in Workers : pc[w] = "ended"
  /\ Goto(0, "ended")
  /\ UNCHANGED <<calls, step, shmVars, workerVars, streamVars>>

-----------------------------------------------------------------------------
(* Rank 0's call and write_shm.                                            *)

(* LLMEngine.step calls "run"; LLMEngine.exit, at the end of the program,  *)
(* calls "exit" and deletes the model runner.                              *)
Call(m) ==
  /\ pc[0] = "idle"
  /\ Len(calls) < MaxCalls
  /\ calls' = Append(calls, m)
  /\ Goto(0, "writeLength")
  /\ UNCHANGED <<step, shmVars, workerVars, streamVars>>

WriteLength ==
  /\ pc[0] = "writeLength"
  /\ shmLen' = Current(0)
  /\ Goto(0, "writeData")
  /\ UNCHANGED <<calls, step, named, mapped, shmData, workerVars, streamVars>>

WriteData ==
  /\ pc[0] = "writeData"
  /\ shmData' = Current(0)
  /\ step' = [step EXCEPT ![0] = 0]
  /\ Goto(0, "signal")
  /\ UNCHANGED <<calls, named, mapped, shmLen, workerVars, streamVars>>

(* Slip: the event of the last worker is not set.                          *)
SetEventOfOthers ==
  /\ pc[0] = "signal"
  /\ LET w == step[0] + 1
     IN  IF w < TPSize - 1
         THEN /\ event' = [event EXCEPT ![w] = TRUE]
              /\ step' = [step EXCEPT ![0] = w]
              /\ UNCHANGED pc
         ELSE /\ step' = [step EXCEPT ![0] = 0]
              /\ Goto(0, IF Exiting(0) THEN "close" ELSE "run")
              /\ UNCHANGED event
  /\ UNCHANGED <<calls, shmVars, lenRead, got, streamVars>>

(* One event after the other; after the last, the method itself.           *)
SetEvent ==
  /\ pc[0] = "signal"
  /\ LET w == step[0] + 1
     IN  /\ event' = [event EXCEPT ![w] = TRUE]
         /\ IF w < TPSize - 1
            THEN step' = [step EXCEPT ![0] = w] /\ UNCHANGED pc
            ELSE /\ step' = [step EXCEPT ![0] = 0]
                 /\ Goto(0, IF Exiting(0) THEN "close" ELSE "run")
  /\ UNCHANGED <<calls, shmVars, lenRead, got, streamVars>>

-----------------------------------------------------------------------------
(* A worker's loop and read_shm.                                           *)

(* Slip: the event is not waited for.                                      *)
ReadLengthAtOnce(w) ==
  /\ pc[w] = "wait"
  /\ lenRead' = [lenRead EXCEPT ![w] = shmLen]
  /\ Goto(w, "readData")
  /\ UNCHANGED <<calls, step, shmVars, event, got, streamVars>>

ReadLength(w) ==
  /\ pc[w] = "wait"
  /\ event[w]
  /\ lenRead' = [lenRead EXCEPT ![w] = shmLen]
  /\ Goto(w, "readData")
  /\ UNCHANGED <<calls, step, shmVars, event, got, streamVars>>

(* A length and bytes of two calls are no message: 0.                      *)
ReadData(w) ==
  /\ pc[w] = "readData"
  /\ got' = [got EXCEPT ![w] =
               Append(@, IF lenRead[w] = shmData THEN shmData ELSE 0)]
  /\ Goto(w, "clear")
  /\ UNCHANGED <<calls, step, shmVars, event, lenRead, streamVars>>

(* Slip: the event stays set.                                              *)
NeverClearEvent(w) ==
  /\ pc[w] = "clear"
  /\ step' = [step EXCEPT ![w] = 0]
  /\ Goto(w, IF Exiting(w) THEN "close" ELSE "run")
  /\ UNCHANGED <<calls, shmVars, workerVars, streamVars>>

(* event.clear, then the method.                                           *)
ClearEvent(w) ==
  /\ pc[w] = "clear"
  /\ event' = [event EXCEPT ![w] = FALSE]
  /\ step' = [step EXCEPT ![w] = 0]
  /\ Goto(w, IF Exiting(w) THEN "close" ELSE "run")
  /\ UNCHANGED <<calls, shmVars, lenRead, got, streamVars>>

-----------------------------------------------------------------------------
TPInit ==
  /\ pc = [r \in Ranks |-> "run"]
  /\ calls = <<>>
  /\ step = [r \in Ranks |-> 0]
  /\ named = FALSE
  /\ mapped = {}
  /\ shmLen = 0
  /\ shmData = 0
  /\ event = [w \in Workers |-> FALSE]
  /\ lenRead = [w \in Workers |-> 0]
  /\ got = [w \in Workers |-> <<>>]
  /\ launched = [r \in Ranks |-> <<>>]
  /\ done = [r \in Ranks |-> 0]

(* Steps of rank 0's process other than starting a call.                   *)
RankZero ==
  \/ LaunchCollective(0) \/ RunReturns
  \/ CreateSharedMemory \/ EnterBarrier(0) \/ LeaveBarrier(0)
  \/ WriteLength \/ WriteData \/ SetEvent
  \/ CloseSharedMemory(0) \/ Unlink \/ Join

Worker(w) ==
  \/ LaunchCollective(w) \/ WorkerRunReturns(w)
  \/ EnterBarrier(w) \/ LeaveBarrier(w)
  \/ OpenSharedMemory(w)
  \/ ReadLength(w) \/ ReadData(w) \/ ClearEvent(w)
  \/ CloseSharedMemory(w)

TPNext ==
  \/ \E m \in {"run", "exit"} : Call(m)
  \/ RankZero
  \/ \E w \in Workers : Worker(w)
  \/ \E r \in Ranks : CompleteCollective(r)

TPSpec == TPInit /\ [][TPNext]_tpVars

(* Every process and every GPU keeps running; nobody need call anything.   *)
TPFairSpec ==
  /\ TPSpec
  /\ WF_tpVars(RankZero)
  /\ \A w \in Workers : WF_tpVars(Worker(w))
  /\ \A r \in Ranks : WF_tpVars(CompleteCollective(r))

-----------------------------------------------------------------------------
(* Properties.                                                             *)

Places ==
  {"run", "create", "barrier", "meet", "idle", "open", "wait", "writeLength",
   "writeData", "signal", "readData", "clear", "close", "unlink", "join",
   "ended"}

(* Every variable has its type; no stream is ahead of its process.         *)
TPTypeOK ==
  /\ pc \in [Ranks -> Places]
  /\ calls \in Seq({"run", "exit"})
  /\ step \in [Ranks -> Nat]
  /\ named \in BOOLEAN
  /\ mapped \in SUBSET Ranks
  /\ shmLen \in Nat
  /\ shmData \in Nat
  /\ event \in [Workers -> BOOLEAN]
  /\ lenRead \in [Workers -> Nat]
  /\ got \in [Workers -> Seq(1 .. Len(calls))]
  /\ launched \in [Ranks -> Seq(Nat \X Nat)]
  /\ done \in [Ranks -> Nat]
  /\ \A r \in Ranks : done[r] <= Len(launched[r])

(* NCCL pairs collectives by their order alone: the k-th of every rank is  *)
(* the same collective of the same call, though no rank waits for another  *)
(* to launch and a worker may be a call behind.                            *)
CollectivesMatch ==
  \A q, r \in Ranks : \A k \in DOMAIN launched[q] \cap DOMAIN launched[r] :
    launched[q][k] = launched[r][k]

(* The shared memory is there whenever it is used: no worker opens it      *)
(* before rank 0 made it or after rank 0 removed it, nobody reads or       *)
(* writes it unopened, and it does not outlive the processes.              *)
SharedMemoryLive ==
  /\ \A r \in Ranks :
       pc[r] \in {"writeLength", "writeData", "wait", "readData"} => r \in mapped
  /\ \A w \in Workers : pc[w] = "open" => named
  /\ pc[0] = "ended" => ~named /\ mapped = {}

(* The calls that have returned.                                           *)
Answered ==
  IF calls = <<>> \/ pc[0] \in {"idle", "ended"} THEN Len(calls)
  ELSE Len(calls) - 1

(* The buffer and the events are a synchronous broadcast: no call is lost, *)
(* read twice, torn or overtaken, and every call is read and answered.     *)
Broadcast == INSTANCE RemoteCall
  WITH Receivers <- Workers, received <- got, answered <- Answered

BroadcastSpec == Broadcast!CallSpec

(* After exit all the processes end: no rank waits for ever for another,   *)
(* in a collective, in the barrier, for its event or in join.              *)
ProcessesEnd ==
  (\E i \in DOMAIN calls : calls[i] = "exit") ~>
    \A r \in Ranks : pc[r] = "ended"
=============================================================================
