-------------------------- MODULE SchedulerProofs --------------------------
(***************************************************************************)
(* The safety properties of Scheduler, for any number of requests, any     *)
(* prompts, any cache and any limits on a batch, mixed or not.             *)
(*                                                                         *)
(* The scheduler and the block manager are proved together: each step      *)
(* needs the other's invariant (a preemption releases a table because the  *)
(* victim holds one; an admission leaves room for every token because the  *)
(* cache's accounts are right), so the inductive invariant is the          *)
(* conjunction JInv of IInv and SInv.                                      *)
(*                                                                         *)
(* Assumed beyond the modules' own assumptions: DigestSound (see           *)
(* BlockManagerProofs), and for NoStall that every request fits the cache  *)
(* alone, without which it is false (see MCOversized).                     *)
(***************************************************************************)
EXTENDS Scheduler, BlockManagerProofs

(* The deques hold what the statuses say.  While decodes are taken from    *)
(* running, the ones in the batch are in neither deque.                    *)
Waits == {s \in Seqs : status[s] = "WAITING"}
Runs == {s \in Seqs : status[s] = "RUNNING"}

Queues ==
  /\ IsInjective(waiting) /\ IsInjective(running) /\ IsInjective(batch)
  /\ Range(waiting) = Waits
  /\ phase = "decode" => /\ Range(running) \cap Range(batch) = {}
                         /\ Range(running) \cup Range(batch) = Runs
  /\ phase # "decode" => Range(running) = Runs

(* The table of s has blocks for every token of s.                         *)
Roomy(s) == table[s] # <<>> /\ num_blocks(s) <= Len(table[s])

(* A request outside the batch, as the next step expects it.               *)
Rests(s) ==
  /\ status[s] = "RUNNING" => numCached[s] + 1 = Len(tok[s]) /\ table[s] # <<>>
  /\ status[s] = "WAITING" /\ table[s] # <<>> =>
       numCached[s] < Len(tok[s]) /\ num_blocks(s) <= Len(table[s])

(* A request in the batch: it runs when its last token is scheduled, and   *)
(* waits when more of its prompt is to come, which is how postprocess      *)
(* tells the two apart.                                                    *)
InBatch(s) ==
  /\ Roomy(s)
  /\ numScheduled[s] > 0
  /\ \/ /\ status[s] = "RUNNING"
        /\ numCached[s] + numScheduled[s] = Len(tok[s])
     \/ /\ status[s] = "WAITING" /\ prefillTokens > 0
        /\ numCached[s] + numScheduled[s] < Len(tok[s])

RequestOK(s) ==
  /\ status[s] \in {"WAITING", "RUNNING"} => Unfinished(s)
  /\ table[s] # <<>> => status[s] \in {"WAITING", "RUNNING"}
  /\ s \in Range(batch) => InBatch(s)
  /\ s \notin Range(batch) => Rests(s)

(* The batch and the counters of its tokens agree.                         *)
Counters ==
  /\ phase \in {"idle", "failed"} => batch = <<>>
  /\ phase = "decode" => prefillTokens = 0
  /\ phase \in {"decode", "prefill"} /\ batch = <<>> =>
       decodeTokens = 0 /\ prefillTokens = 0
  /\ phase = "prefill" /\ ~Mixed /\ batch # <<>> => prefillTokens > 0
  /\ BatchBudget

(* The requests the loop over waiting still visits are not in the batch:   *)
(* the ones it puts back are behind them.                                  *)
Ahead ==
  phase = "prefill" =>
    /\ todo <= Len(waiting)
    /\ \A i \in 1 .. todo : waiting[i] \notin Range(batch)

SInv ==
  SchedTypeOK /\ Queues /\ (\A s \in Seqs : RequestOK(s)) /\ Counters /\ Ahead

JInv == IInv /\ SInv

-----------------------------------------------------------------------------
(* One request.                                                            *)

(* What a request's own invariant depends on.                              *)
Untouched(s) ==
  /\ tok'[s] = tok[s] /\ numPrompt'[s] = numPrompt[s]
  /\ table'[s] = table[s] /\ numCached'[s] = numCached[s]
  /\ status'[s] = status[s] /\ numScheduled'[s] = numScheduled[s]

(* A step that leaves a request alone keeps its invariant.                 *)
LEMMA UntouchedKeeps ==
  ASSUME NEW s \in Seqs, RequestOK(s), Untouched(s),
         s \in Range(batch') <=> s \in Range(batch),
         s \in Range(batch) /\ prefillTokens > 0 => prefillTokens' > 0
  PROVE  RequestOK(s)'
<1>1. /\ Unfinished(s)' <=> Unfinished(s)
      /\ Roomy(s)' <=> Roomy(s)
      /\ Rests(s)' <=> Rests(s)
  BY DEF Untouched, Unfinished, Roomy, Rests, num_completion_tokens, num_blocks
<1>2. s \in Range(batch) /\ InBatch(s) => InBatch(s)'
  BY <1>1 DEF InBatch, Untouched
<1> QED
  BY <1>1, <1>2 DEF RequestOK, Untouched

(* The sizes of a request are numbers.                                     *)
LEMMA RequestSizes ==
  ASSUME TypeOK, SchedTypeOK, NEW s \in Seqs
  PROVE  /\ tok[s] \in Seq(Tokens) /\ Len(tok[s]) \in Nat
         /\ table[s] \in Seq(Blocks) /\ Len(table[s]) \in Nat
         /\ numCached[s] \in Nat /\ numPrompt[s] \in Nat
         /\ numScheduled[s] \in Nat
         /\ num_blocks(s) \in Nat /\ Len(tok[s]) <= num_blocks(s) * BlockSize
<1>1. /\ tok[s] \in Seq(Tokens) /\ table[s] \in Seq(Blocks)
      /\ numCached[s] \in Nat /\ numPrompt[s] \in Nat /\ numScheduled[s] \in Nat
  BY DEF TypeOK, SchedTypeOK
<1>2. Len(tok[s]) \in Nat /\ Len(table[s]) \in Nat
  BY <1>1, LenProperties
<1> QED
  BY <1>1, <1>2, BlocksForBounds DEF num_blocks

(* A request with blocks for all its tokens has room for any of them.      *)
LEMMA RoomyHasRoom ==
  ASSUME TypeOK, SchedTypeOK, NEW s \in Seqs, Roomy(s), NEW n \in Nat,
         numCached[s] + n <= Len(tok[s])
  PROVE  HasRoom(s, n)
<1> DEFINE k == num_blocks(s)
           t == Len(table[s])
<1>1. k \in Nat /\ t \in Nat /\ BlockSize \in Nat
  BY RequestSizes, BlockSizeAssumption
<1>2. Len(tok[s]) \in Nat /\ numCached[s] \in Nat /\ Len(tok[s]) <= k * BlockSize
  BY RequestSizes
<1>3. k <= t
  BY DEF Roomy
<1> HIDE DEF k
<1>4. k * BlockSize <= BlockSize * t
  <2> HIDE DEF t
  <2>1. CASE k = t
    BY <1>1, <2>1
  <2>2. CASE k < t
    <3>1. k * BlockSize + BlockSize <= t * BlockSize
      BY <1>1, <2>2, MulStep
    <3> QED
      BY <1>1, <3>1
  <2> QED
    BY <1>1, <1>3, <2>1, <2>2
<1>5. k * BlockSize \in Nat /\ BlockSize * t \in Nat
  BY <1>1
<1>6. numCached[s] + n <= BlockSize * t
  BY <1>2, <1>4, <1>5
<1> QED
  BY <1>6 DEF HasRoom

-----------------------------------------------------------------------------
(* Requests arrive, a step begins.                                         *)

(* A new request waits.                                                    *)
LEMMA AddRequestStep ==
  ASSUME IInv, SInv, NEW s \in Seqs, NEW p \in Prompts, AddRequest(s, p)
  PROVE  SInv' /\ [Next]_vars
<1>1. TypeOK /\ CachedBounds /\ BlocksAfterCreation
  BY DEF IInv
<1>2. SchedTypeOK /\ Queues /\ Counters /\ RequestOK(s)
  BY DEF SInv
<1>3. /\ phase = "idle" /\ tok[s] = <<>> /\ phase' = "idle"
      /\ tok' = [tok EXCEPT ![s] = p]
      /\ numPrompt' = [numPrompt EXCEPT ![s] = Len(p)]
      /\ status' = [status EXCEPT ![s] = "WAITING"]
      /\ waiting' = Append(waiting, s)
      /\ UNCHANGED <<table, numCached, running, isPrefill, numScheduled, batch,
                     todo, decodeTokens, prefillTokens>>
  BY DEF AddRequest, NewSequence, batchVars
<1>4. table[s] = <<>> /\ batch = <<>> /\ status[s] \notin {"WAITING", "RUNNING"}
  BY <1>1, <1>2, <1>3
     DEF BlocksAfterCreation, Counters, RequestOK, Unfinished
<1>5. p \in Seq(Tokens) /\ p # <<>> /\ Len(p) \in Nat
  BY PromptsAssumption, LenProperties
<1>6. tok \in [Seqs -> Seq(Tokens)] /\ numPrompt \in [Seqs -> Nat]
      /\ status \in [Seqs -> {"NONE", "WAITING", "RUNNING", "FINISHED"}]
  BY <1>1, <1>2 DEF TypeOK, SchedTypeOK
<1>7. /\ tok'[s] = p /\ numPrompt'[s] = Len(p) /\ status'[s] = "WAITING"
      /\ \A x \in Seqs : x # s => Untouched(x)
  BY <1>3, <1>6 DEF Untouched
<1>8. waiting \in Seq(Seqs) /\ s \notin Range(waiting)
  BY <1>2, <1>4 DEF SchedTypeOK, Queues, Waits
<1>9. /\ waiting' \in Seq(Seqs) /\ IsInjective(waiting')
      /\ Range(waiting') = Range(waiting) \cup {s}
  BY <1>2, <1>3, <1>8, AppendQueue DEF Queues
<1>10. SchedTypeOK'
  BY <1>2, <1>3, <1>6, <1>9 DEF SchedTypeOK
<1>11. Queues'
  <2>1. Waits' = Waits \cup {s} /\ Runs' = Runs
    BY <1>4, <1>7 DEF Waits, Runs, Untouched
  <2> QED
    BY <1>2, <1>3, <1>9, <2>1 DEF Queues
<1>12. ASSUME NEW x \in Seqs PROVE RequestOK(x)'
  <2>1. CASE x # s
    <3>1. RequestOK(x)
      BY DEF SInv
    <3> QED
      BY <1>3, <1>7, <2>1, <3>1, UntouchedKeeps
  <2>2. CASE x = s
    <3>1. Unfinished(s)'
      BY <1>5, <1>7, MaxTokensAssumption DEF Unfinished, num_completion_tokens
    <3>2. s \notin Range(batch') /\ table'[s] = <<>>
      BY <1>3, <1>4 DEF Range
    <3> QED
      BY <1>7, <2>2, <3>1, <3>2 DEF RequestOK, Rests
  <2> QED
    BY <2>1, <2>2
<1>13. Counters' /\ Ahead'
  BY <1>2, <1>3 DEF Counters, Ahead, BatchBudget
<1>14. Next
  BY <1>3 DEF AddRequest, Next, Create
<1> QED
  BY <1>10, <1>11, <1>12, <1>13, <1>14 DEF SInv

(* A step begins with an empty batch.                                      *)
LEMMA StartStepStep ==
  ASSUME SInv, StartStep
  PROVE  SInv' /\ UNCHANGED vars
<1>1. SchedTypeOK /\ Queues /\ Counters
  BY DEF SInv
<1>2. /\ phase = "idle" /\ phase' \in {"decode", "prefill"}
      /\ batch' = <<>> /\ todo' = Len(waiting)
      /\ decodeTokens' = 0 /\ prefillTokens' = 0
      /\ UNCHANGED vars /\ UNCHANGED <<waiting, running, status, isPrefill>>
      /\ numScheduled' = numScheduled
  BY DEF StartStep, queueVars
<1>3. UNCHANGED <<refCount, chain, hashToBlock, free, used, tok, numPrompt, table,
                  numCached>>
  BY <1>2 DEF vars
<1>4. batch = <<>>
  BY <1>1, <1>2 DEF Counters
<1>5. SchedTypeOK'
  BY <1>1, <1>2, <1>4, LenProperties DEF SchedTypeOK
<1>6. Queues'
  <2>1. Range(batch') = {} /\ Waits' = Waits /\ Runs' = Runs
    BY <1>2 DEF Range, Waits, Runs
  <2> QED
    BY <1>1, <1>2, <1>4, <2>1 DEF Queues
<1>7. ASSUME NEW x \in Seqs PROVE RequestOK(x)'
  <2>1. Untouched(x) /\ RequestOK(x)
    BY <1>2, <1>3 DEF Untouched, SInv
  <2>2. Range(batch) = {} /\ Range(batch') = {}
    BY <1>2, <1>4 DEF Range
  <2> QED
    BY <2>1, <2>2, UntouchedKeeps
<1>8. Counters'
  <2>1. Len(<<>>) = 0 /\ 0 <= MaxNumSeqs
    BY MaxNumSeqsAssumption
  <2> QED
    BY <1>2, <2>1 DEF Counters, BatchBudget
<1>9. Ahead'
  <2>1. Range(batch') = {} /\ Len(waiting) \in Nat
    BY <1>1, <1>2, LenProperties DEF Range, SchedTypeOK
  <2> QED
    BY <1>2, <2>1 DEF Ahead
<1> QED
  BY <1>2, <1>5, <1>6, <1>7, <1>8, <1>9 DEF SInv

-----------------------------------------------------------------------------
(* _schedule_decode                                                        *)

(* The victim of a preemption holds blocks, gives them up and waits.       *)
LEMMA PreemptLastStep ==
  ASSUME IInv, SInv, PreemptLast
  PROVE  SInv' /\ [Next]_vars
<1>0. PICK s : s = Last(running)
  OBVIOUS
<1>1. TypeOK
  BY DEF IInv
<1>2. SchedTypeOK /\ Queues /\ Counters
  BY DEF SInv
<1>3. /\ phase = "decode" /\ running # <<>>
      /\ Deallocate(s)
      /\ UNCHANGED <<chain, hashToBlock, tok, numPrompt>>
      /\ status' = [status EXCEPT ![s] = "WAITING"]
      /\ isPrefill' = [isPrefill EXCEPT ![s] = TRUE]
      /\ waiting' = <<s>> \o waiting
      /\ running' = Front(running)
      /\ UNCHANGED <<phase, numScheduled, batch, todo, decodeTokens,
                     prefillTokens>>
  BY <1>0 DEF PreemptLast, DecodeMayTakeMore, Preempt, batchVars
<1>4. /\ table' = [table EXCEPT ![s] = <<>>]
      /\ numCached' = [numCached EXCEPT ![s] = 0]
  BY <1>3 DEF Deallocate
<1>5. running \in Seq(Seqs) /\ waiting \in Seq(Seqs)
  BY <1>2 DEF SchedTypeOK
<1>6. /\ s \in Seqs /\ s \in Range(running)
      /\ running' \in Seq(Seqs) /\ IsInjective(running')
      /\ Range(running') = Range(running) \ {s}
  BY <1>0, <1>2, <1>3, <1>5, FrontQueue DEF Queues
<1>7. status[s] = "RUNNING" /\ s \notin Range(batch)
  BY <1>2, <1>3, <1>6 DEF Queues, Runs
<1>8. table[s] # <<>>
  BY <1>6, <1>7 DEF SInv, RequestOK, Rests
<1>9. Next
  BY <1>3, <1>6, <1>8 DEF Next, Release
<1>10. /\ table \in [Seqs -> Seq(Blocks)] /\ numCached \in [Seqs -> Nat]
       /\ status \in [Seqs -> {"NONE", "WAITING", "RUNNING", "FINISHED"}]
       /\ isPrefill \in [Seqs -> BOOLEAN]
  BY <1>1, <1>2 DEF TypeOK, SchedTypeOK
<1>11. /\ table'[s] = <<>> /\ numCached'[s] = 0 /\ status'[s] = "WAITING"
       /\ tok'[s] = tok[s] /\ numPrompt'[s] = numPrompt[s]
       /\ \A x \in Seqs : x # s => Untouched(x)
  BY <1>3, <1>4, <1>6, <1>10 DEF Untouched
<1>12. s \notin Range(waiting)
  BY <1>2, <1>7 DEF Queues, Waits
<1>13. /\ waiting' \in Seq(Seqs) /\ IsInjective(waiting')
       /\ Range(waiting') = Range(waiting) \cup {s}
  BY <1>2, <1>3, <1>5, <1>6, <1>12, PushQueue DEF Queues
<1>14. SchedTypeOK'
  BY <1>2, <1>3, <1>6, <1>10, <1>13 DEF SchedTypeOK
<1>15. Queues'
  <2>1. Waits' = Waits \cup {s} /\ Runs' = Runs \ {s}
    BY <1>6, <1>11 DEF Waits, Runs, Untouched
  <2>2. /\ Range(running') \cap Range(batch) = {}
        /\ Range(running') \cup Range(batch) = Runs'
    BY <1>2, <1>3, <1>6, <1>7, <2>1 DEF Queues
  <2> QED
    BY <1>2, <1>3, <1>6, <1>13, <2>1, <2>2 DEF Queues
<1>16. ASSUME NEW x \in Seqs PROVE RequestOK(x)'
  <2>0. RequestOK(x)
    BY DEF SInv
  <2>1. CASE x # s
    BY <1>3, <1>11, <2>0, <2>1, UntouchedKeeps
  <2>2. CASE x = s
    <3>1. Unfinished(s)'
      BY <1>7, <1>11, <2>0, <2>2 DEF RequestOK, Unfinished, num_completion_tokens
    <3> QED
      BY <1>3, <1>7, <1>11, <2>2, <3>1 DEF RequestOK, Rests
  <2> QED
    BY <2>1, <2>2
<1>17. Counters' /\ Ahead'
  BY <1>2, <1>3 DEF Counters, Ahead, BatchBudget
<1> QED
  BY <1>9, <1>14, <1>15, <1>16, <1>17 DEF SInv

(* A decode has, or gets, a block for the token it is about to write.      *)
LEMMA MayAppendRoom ==
  ASSUME IInv, SInv, NEW s \in Seqs, status[s] = "RUNNING", s \notin Range(batch),
         CanAppend(s), MayAppend(s)
  PROVE  /\ Grow(s) \/ UNCHANGED vars
         /\ UNCHANGED <<tok, numPrompt, numCached>>
         /\ \A x \in Seqs : x # s => table'[x] = table[x]
         /\ Roomy(s)'
<1>1. TypeOK /\ CachedBounds /\ Accounting /\ SchedTypeOK
  BY DEF IInv, SInv
<1>2. numCached[s] + 1 = Len(tok[s]) /\ table[s] # <<>>
  BY DEF SInv, RequestOK, Rests
<1>3. /\ Len(tok[s]) \in Nat /\ Len(table[s]) \in Nat /\ numCached[s] \in Nat
      /\ num_blocks(s) \in Nat /\ table[s] \in Seq(Blocks)
  BY <1>1, RequestSizes
<1>4. CASE num_blocks(s) > Len(table[s])
  <2>1. free # <<>>
    BY <1>4 DEF CanAppend
  <2>2. Grow(s)
    BY <1>2, <1>4 DEF Grow
  <2>3. /\ table' = [table EXCEPT ![s] = Append(table[s], Head(free))]
        /\ UNCHANGED <<tok, numPrompt, numCached>>
    BY <1>1, <1>4, <2>1, GrowTook
  <2>4. table \in [Seqs -> Seq(Blocks)] /\ Head(free) \in Blocks
    BY <1>1, <2>1, HeadTailProperties DEF TypeOK
  <2>5. /\ table'[s] = Append(table[s], Head(free))
        /\ \A x \in Seqs : x # s => table'[x] = table[x]
    BY <2>3, <2>4
  <2>6. table'[s] # <<>> /\ Len(table'[s]) = Len(table[s]) + 1
    BY <1>3, <2>4, <2>5, AppendProperties
  <2>7. num_blocks(s) <= Len(table[s]) + 1
    <3> DEFINE t == Len(table[s])
    <3>1. numCached[s] <= BlockSize * t
      BY <1>1 DEF CachedBounds
    <3>2. num_blocks(s) * BlockSize < Len(tok[s]) + BlockSize
      BY <1>3, BlocksForBounds DEF num_blocks
    <3>3. t \in Nat /\ BlockSize \in Nat /\ BlockSize * t \in Nat /\ BlockSize > 0
      BY <1>3, BlockSizeAssumption
    <3>4. num_blocks(s) * BlockSize < BlockSize * t + 1 + BlockSize
      <4> HIDE DEF t
      <4>1. num_blocks(s) * BlockSize \in Nat
        BY <1>3, <3>3
      <4> QED
        BY <1>2, <1>3, <3>1, <3>2, <3>3, <4>1
    <3> SUFFICES ASSUME t + 1 < num_blocks(s) PROVE FALSE
      BY <1>3
    <3> HIDE DEF t
    <3>5. (t + 1) * BlockSize + BlockSize <= num_blocks(s) * BlockSize
      BY <1>3, <3>3, MulStep
    <3>6. (t + 1) * BlockSize = BlockSize * t + BlockSize
      BY <3>3
    <3>7. num_blocks(s) * BlockSize \in Nat
      BY <1>3, <3>3
    <3> QED
      BY <3>3, <3>4, <3>5, <3>6, <3>7
  <2>8. num_blocks(s)' = num_blocks(s)
    BY <2>3 DEF num_blocks
  <2> QED
    BY <2>2, <2>3, <2>5, <2>6, <2>7, <2>8 DEF Roomy
<1>5. CASE ~(num_blocks(s) > Len(table[s]))
  <2>1. UNCHANGED vars
    BY <1>5 DEF MayAppend
  <2>2. UNCHANGED <<tok, numPrompt, numCached, table>>
    BY <2>1 DEF vars
  <2> QED
    BY <1>2, <1>3, <1>5, <2>1, <2>2 DEF Roomy, num_blocks
<1> QED
  BY <1>4, <1>5

(* A decode joins the batch.                                               *)
LEMMA ScheduleDecodeStep ==
  ASSUME IInv, SInv, ScheduleDecode
  PROVE  SInv' /\ [Next]_vars
<1>0. PICK s : s = Head(running)
  OBVIOUS
<1>1. TypeOK /\ SchedTypeOK /\ Queues /\ Counters
  BY DEF IInv, SInv
<1>2. /\ phase = "decode" /\ running # <<>> /\ Len(batch) < MaxNumSeqs
      /\ CanAppend(s) /\ MayAppend(s)
      /\ numScheduled' = [numScheduled EXCEPT ![s] = 1]
      /\ isPrefill' = [isPrefill EXCEPT ![s] = FALSE]
      /\ batch' = Append(batch, s)
      /\ running' = Tail(running)
      /\ decodeTokens' = decodeTokens + 1
      /\ UNCHANGED <<waiting, status, phase, todo, prefillTokens>>
  BY <1>0 DEF ScheduleDecode, DecodeMayTakeMore
<1>3. running \in Seq(Seqs) /\ batch \in Seq(Seqs)
  BY <1>1 DEF SchedTypeOK
<1>4. /\ s \in Seqs /\ s \in Range(running)
      /\ running' \in Seq(Seqs) /\ IsInjective(running')
      /\ Range(running') = Range(running) \ {s}
  BY <1>0, <1>1, <1>2, <1>3, TailQueue DEF Queues
<1>5. status[s] = "RUNNING" /\ s \notin Range(batch)
  BY <1>1, <1>2, <1>4 DEF Queues, Runs
<1>6. /\ Grow(s) \/ UNCHANGED vars
      /\ UNCHANGED <<tok, numPrompt, numCached>>
      /\ \A x \in Seqs : x # s => table'[x] = table[x]
      /\ Roomy(s)'
  BY <1>2, <1>4, <1>5, MayAppendRoom
<1>7. [Next]_vars
  BY <1>4, <1>6 DEF Next
<1>8. /\ batch' \in Seq(Seqs) /\ IsInjective(batch')
      /\ Range(batch') = Range(batch) \cup {s} /\ Len(batch') = Len(batch) + 1
  BY <1>1, <1>2, <1>3, <1>4, <1>5, AppendQueue DEF Queues
<1>9. /\ numScheduled \in [Seqs -> Nat] /\ isPrefill \in [Seqs -> BOOLEAN]
      /\ decodeTokens \in Nat /\ Len(batch) \in Nat
  BY <1>1, <1>3, LenProperties DEF SchedTypeOK
<1>10. /\ numScheduled'[s] = 1
       /\ \A x \in Seqs : x # s => Untouched(x)
  BY <1>2, <1>4, <1>6, <1>9 DEF Untouched
<1>11. SchedTypeOK'
  BY <1>1, <1>2, <1>4, <1>8, <1>9 DEF SchedTypeOK
<1>12. Queues'
  <2>1. Waits' = Waits /\ Runs' = Runs
    BY <1>2 DEF Waits, Runs
  <2>2. /\ Range(running') \cap Range(batch') = {}
        /\ Range(running') \cup Range(batch') = Runs
    BY <1>1, <1>2, <1>4, <1>5, <1>8 DEF Queues
  <2> QED
    BY <1>1, <1>2, <1>4, <1>8, <2>1, <2>2 DEF Queues
<1>13. ASSUME NEW x \in Seqs PROVE RequestOK(x)'
  <2>0. RequestOK(x)
    BY DEF SInv
  <2>1. CASE x # s
    <3>1. x \in Range(batch') <=> x \in Range(batch)
      BY <1>8, <2>1
    <3> QED
      BY <1>2, <1>10, <2>0, <2>1, <3>1, UntouchedKeeps
  <2>2. CASE x = s
    <3>1. numCached[s] + 1 = Len(tok[s]) /\ Unfinished(s)
      BY <1>5, <2>0, <2>2 DEF RequestOK, Rests
    <3>2. Unfinished(s)'
      BY <1>6, <3>1 DEF Unfinished, num_completion_tokens
    <3>3. InBatch(s)'
      BY <1>2, <1>5, <1>6, <1>10, <3>1 DEF InBatch
    <3>4. status'[s] = "RUNNING" /\ s \in Range(batch')
      BY <1>2, <1>5, <1>8
    <3> QED
      BY <2>2, <3>2, <3>3, <3>4 DEF RequestOK
  <2> QED
    BY <2>1, <2>2
<1>14. Counters' /\ Ahead'
  <2>1. batch' # <<>> /\ Len(batch') <= MaxNumSeqs /\ prefillTokens' = 0
    <3>1. batch' # <<>>
      BY <1>2, <1>3, <1>4, AppendProperties
    <3> QED
      BY <1>1, <1>2, <1>8, <1>9, <3>1, MaxNumSeqsAssumption DEF Counters
  <2> QED
    BY <1>2, <2>1 DEF Counters, Ahead, BatchBudget
<1> QED
  BY <1>7, <1>11, <1>12, <1>13, <1>14 DEF SInv

(* The decodes go back to the running queue, in front of nobody.           *)
LEMMA DecodeDoneStep ==
  ASSUME SInv, DecodeDone
  PROVE  SInv' /\ UNCHANGED vars
<1>1. SchedTypeOK /\ Queues /\ Counters
  BY DEF SInv
<1>2. /\ phase = "decode" /\ phase' = IF Mixed THEN "prefill" ELSE "dispatch"
      /\ running' = running \o batch /\ todo' = Len(waiting)
      /\ UNCHANGED vars
      /\ UNCHANGED <<waiting, status, isPrefill, numScheduled, batch,
                     decodeTokens, prefillTokens>>
  BY DEF DecodeDone
<1>3. UNCHANGED <<tok, numPrompt, table, numCached>>
  BY <1>2 DEF vars
<1>4. running \in Seq(Seqs) /\ batch \in Seq(Seqs) /\ waiting \in Seq(Seqs)
  BY <1>1 DEF SchedTypeOK
<1>5. /\ running' \in Seq(Seqs) /\ IsInjective(running')
      /\ Range(running') = Range(running) \cup Range(batch)
  <2>1. /\ running \o batch \in Seq(Seqs)
        /\ Range(running \o batch) = Range(running) \cup Range(batch)
    BY <1>4, ConcatRange
  <2>2. IsInjective(running \o batch)
    BY <1>1, <1>2, <1>4, ConcatInjective DEF Queues
  <2> QED
    BY <1>2, <2>1, <2>2
<1>6. Len(waiting) \in Nat
  BY <1>4, LenProperties
<1>7. SchedTypeOK'
  BY <1>1, <1>2, <1>5, <1>6 DEF SchedTypeOK
<1>8. Queues'
  <2>1. Waits' = Waits /\ Runs' = Runs /\ phase' # "decode"
    BY <1>2 DEF Waits, Runs
  <2> QED
    BY <1>1, <1>2, <1>5, <2>1 DEF Queues
<1>9. ASSUME NEW x \in Seqs PROVE RequestOK(x)'
  <2>1. Untouched(x) /\ RequestOK(x)
    BY <1>2, <1>3 DEF Untouched, SInv
  <2> QED
    BY <1>2, <2>1, UntouchedKeeps
<1>10. Counters'
  BY <1>1, <1>2 DEF Counters, BatchBudget
<1>11. Ahead'
  <2>1. \A i \in 1 .. Len(waiting) : waiting[i] \notin Range(batch)
    <3>1. \A i \in 1 .. Len(waiting) : waiting[i] \in Range(waiting)
      BY <1>4, LenProperties DEF Range
    <3> QED
      BY <1>1, <1>2, <3>1 DEF Queues, Waits, Runs
  <2> QED
    BY <1>2, <1>6, <2>1 DEF Ahead
<1> QED
  BY <1>2, <1>7, <1>8, <1>9, <1>10, <1>11 DEF SInv

-----------------------------------------------------------------------------
(* _schedule_prefill                                                       *)

(* The request _schedule_prefill looks at.                                 *)
LEMMA NextWaiting ==
  ASSUME SInv, PrefillMayTakeMore, NEW s, s = Head(waiting)
  PROVE  /\ waiting # <<>> /\ waiting \in Seq(Seqs)
         /\ s \in Seqs /\ s \in Range(waiting) /\ s = waiting[1]
         /\ status[s] = "WAITING" /\ s \notin Range(batch)
         /\ Len(waiting) \in Nat \ {0} /\ todo \in 1 .. Len(waiting)
         /\ Tail(waiting) \in Seq(Seqs) /\ IsInjective(Tail(waiting))
         /\ Range(Tail(waiting)) = Range(waiting) \ {s}
         /\ Len(Tail(waiting)) = Len(waiting) - 1
         /\ \A i \in 1 .. Len(waiting) - 1 : Tail(waiting)[i] = waiting[i + 1]
         /\ \A i \in 1 .. Len(waiting) - 1 : waiting[i + 1] # s
<1>1. SchedTypeOK /\ Queues /\ Ahead /\ phase = "prefill" /\ todo > 0
  BY DEF SInv, PrefillMayTakeMore
<1>2. waiting \in Seq(Seqs) /\ todo \in Nat
  BY <1>1 DEF SchedTypeOK
<1>3. Len(waiting) \in Nat
  BY <1>2, LenProperties
<1>4. todo \in 1 .. Len(waiting) /\ waiting # <<>>
  <2>1. todo <= Len(waiting)
    BY <1>1 DEF Ahead
  <2>2. todo \in 1 .. Len(waiting) /\ Len(waiting) # 0
    BY <1>1, <1>2, <1>3, <2>1
  <2> QED
    BY <1>2, <2>2, NonemptyQueue
<1>5. /\ s \in Seqs /\ s \in Range(waiting) /\ s = waiting[1]
      /\ Len(waiting) \in Nat \ {0}
      /\ Tail(waiting) \in Seq(Seqs) /\ IsInjective(Tail(waiting))
      /\ Range(Tail(waiting)) = Range(waiting) \ {s}
      /\ Len(Tail(waiting)) = Len(waiting) - 1
      /\ \A i \in 1 .. Len(waiting) - 1 : Tail(waiting)[i] = waiting[i + 1]
  BY <1>1, <1>2, <1>4, TailQueue DEF Queues
<1>6. s \notin Range(batch)
  <2>1. 1 \in 1 .. todo
    BY <1>3, <1>4
  <2> QED
    BY <1>1, <1>5, <2>1 DEF Ahead
<1>7. status[s] = "WAITING"
  BY <1>1, <1>5 DEF Queues, Waits
<1>8. \A i \in 1 .. Len(waiting) - 1 : waiting[i + 1] # s
  <2> SUFFICES ASSUME NEW i \in 1 .. Len(waiting) - 1, waiting[i + 1] = waiting[1]
               PROVE  FALSE
    BY <1>5
  <2>1. DOMAIN waiting = 1 .. Len(waiting)
    BY <1>2, LenProperties
  <2>2. i + 1 \in DOMAIN waiting /\ 1 \in DOMAIN waiting /\ i + 1 # 1
    BY <1>5, <2>1
  <2> QED
    BY <1>1, <2>2 DEF Queues, IsInjective
<1> QED
  BY <1>2, <1>4, <1>5, <1>6, <1>7, <1>8

(* What is put back at the end of the waiting queue is behind the requests *)
(* the loop still visits.                                                  *)
LEMMA RotatedWaiting ==
  ASSUME SInv, PrefillMayTakeMore, NEW s, s = Head(waiting)
  PROVE  /\ Append(Tail(waiting), s) \in Seq(Seqs)
         /\ IsInjective(Append(Tail(waiting), s))
         /\ Range(Append(Tail(waiting), s)) = Range(waiting)
         /\ Len(Append(Tail(waiting), s)) = Len(waiting)
         /\ \A i \in 1 .. Len(waiting) - 1 :
              Append(Tail(waiting), s)[i] = waiting[i + 1]
         /\ Append(Tail(waiting), s)[Len(waiting)] = s
<1> DEFINE q == Tail(waiting)
<1>1. /\ s \in Seqs /\ s \in Range(waiting)
      /\ Len(waiting) \in Nat \ {0}
      /\ q \in Seq(Seqs) /\ IsInjective(q)
      /\ Range(q) = Range(waiting) \ {s}
      /\ Len(q) = Len(waiting) - 1
      /\ \A i \in 1 .. Len(waiting) - 1 : q[i] = waiting[i + 1]
  BY NextWaiting
<1> HIDE DEF q
<1>2. /\ Append(q, s) \in Seq(Seqs) /\ IsInjective(Append(q, s))
      /\ Range(Append(q, s)) = Range(waiting)
      /\ Len(Append(q, s)) = Len(waiting)
  <2>1. s \notin Range(q) /\ Range(q) \cup {s} = Range(waiting)
    BY <1>1
  <2>2. /\ Append(q, s) \in Seq(Seqs)
        /\ Range(Append(q, s)) = Range(q) \cup {s}
        /\ Len(Append(q, s)) = Len(q) + 1
        /\ IsInjective(Append(q, s))
    BY <1>1, <2>1, AppendQueue
  <2>3. Len(Append(q, s)) = Len(waiting)
    BY <1>1, <2>2
  <2> QED
    BY <2>1, <2>2, <2>3
<1>3. /\ \A i \in 1 .. Len(waiting) - 1 : Append(q, s)[i] = waiting[i + 1]
      /\ Append(q, s)[Len(waiting)] = s
  BY <1>1, AppendProperties
<1> QED
  BY <1>2, <1>3 DEF q

(* No blocks: the request goes to the end of the queue, and nothing else   *)
(* changes but the order of the free blocks.                               *)
LEMMA PrefillRejectStep ==
  ASSUME SInv, PrefillReject
  PROVE  SInv' /\ [Next]_vars
<1>0. PICK s : s = Head(waiting)
  OBVIOUS
<1>1. SchedTypeOK /\ Queues /\ Counters /\ Ahead /\ PrefillMayTakeMore
  BY DEF SInv, PrefillReject
<1>2. /\ phase = "prefill" /\ table[s] = <<>>
      /\ \E c \in 0 .. num_blocks(s) - 1 :
           CachedBlocks(s, c) /\ ~CanAllocate(s, c) /\ RejectedLookup(s, c)
      /\ waiting' = Append(Tail(waiting), s) /\ todo' = todo - 1
      /\ UNCHANGED <<running, status, isPrefill, phase, numScheduled, batch,
                     decodeTokens, prefillTokens>>
  BY <1>0, <1>1 DEF PrefillReject, PrefillMayTakeMore
<1>3. UNCHANGED <<tok, numPrompt, table, numCached>>
  BY <1>2 DEF RejectedLookup, seqVars
<1>4. /\ s \in Seqs /\ status[s] = "WAITING"
      /\ Len(waiting) \in Nat \ {0} /\ todo \in 1 .. Len(waiting)
  BY <1>0, <1>1, NextWaiting
<1>5. /\ waiting' \in Seq(Seqs) /\ IsInjective(waiting')
      /\ Range(waiting') = Range(waiting) /\ Len(waiting') = Len(waiting)
      /\ \A i \in 1 .. Len(waiting) - 1 : waiting'[i] = waiting[i + 1]
  BY <1>0, <1>1, <1>2, RotatedWaiting
<1>6. Next
  <2>1. Unfinished(s)
    BY <1>4 DEF SInv, RequestOK
  <2> QED
    BY <1>2, <1>4, <2>1 DEF Next, RejectAdmission
<1>7. SchedTypeOK'
  BY <1>1, <1>2, <1>4, <1>5 DEF SchedTypeOK
<1>8. Queues'
  <2>1. Waits' = Waits /\ Runs' = Runs
    BY <1>2 DEF Waits, Runs
  <2> QED
    BY <1>1, <1>2, <1>5, <2>1 DEF Queues
<1>9. ASSUME NEW x \in Seqs PROVE RequestOK(x)'
  <2>1. Untouched(x) /\ RequestOK(x)
    BY <1>2, <1>3 DEF Untouched, SInv
  <2> QED
    BY <1>2, <2>1, UntouchedKeeps
<1>10. Counters'
  BY <1>1, <1>2 DEF Counters, BatchBudget
<1>11. Ahead'
  <2>1. ASSUME NEW i \in 1 .. todo - 1 PROVE waiting'[i] \notin Range(batch)
    <3>1. i \in 1 .. Len(waiting) - 1 /\ i + 1 \in 1 .. todo
      BY <1>4
    <3> QED
      BY <1>1, <1>2, <1>5, <3>1 DEF Ahead
  <2>2. todo - 1 <= Len(waiting)
    BY <1>4
  <2> QED
    BY <1>2, <1>5, <2>1, <2>2 DEF Ahead
<1> QED
  BY <1>6, <1>7, <1>8, <1>9, <1>10, <1>11 DEF SInv

(* A chunk is not empty and stays within the sequence and the budget.      *)
LEMMA ChunkFits ==
  ASSUME TypeOK, SInv, PrefillMayTakeMore, NEW s \in Seqs,
         NEW done \in Nat, done < Len(tok[s])
  PROVE  /\ ChunkSize(s, done) \in Nat \ {0}
         /\ done + ChunkSize(s, done) <= Len(tok[s])
         /\ decodeTokens + prefillTokens + ChunkSize(s, done) <= MaxBatchedTokens
<1>1. /\ decodeTokens \in Nat /\ prefillTokens \in Nat /\ Len(tok[s]) \in Nat
      /\ remaining > 0
  BY RequestSizes DEF SInv, SchedTypeOK, PrefillMayTakeMore
<1>2. remaining = MaxBatchedTokens - decodeTokens - prefillTokens
  BY DEF remaining
<1>3. remaining \in Int /\ MaxChunk \in Nat \ {0} /\ Len(tok[s]) - done \in Int
  BY <1>1, <1>2, MaxBatchedTokensAssumption, MaxChunkAssumption
<1>4. /\ ChunkSize(s, done) \in {Len(tok[s]) - done, remaining, MaxChunk}
      /\ ChunkSize(s, done) <= Len(tok[s]) - done
      /\ ChunkSize(s, done) <= remaining
  <2> DEFINE a == Len(tok[s]) - done
  <2>1. ChunkSize(s, done) = Min({a, remaining, MaxChunk})
    BY DEF ChunkSize
  <2>2. a \in Int /\ remaining \in Int /\ MaxChunk \in Int
    BY <1>3
  <2> HIDE DEF a
  <2>3. /\ Min({a, remaining, MaxChunk}) \in {a, remaining, MaxChunk}
        /\ Min({a, remaining, MaxChunk}) <= a
        /\ Min({a, remaining, MaxChunk}) <= remaining
    BY <2>2, LeastOfThree
  <2> QED
    BY <2>1, <2>3 DEF a
<1> QED
  BY <1>1, <1>2, <1>3, <1>4, MaxBatchedTokensAssumption

(* A chunk joins the batch, its request with blocks for all its tokens.    *)
LEMMA ChunkStep ==
  ASSUME TypeOK, SInv, PrefillMayTakeMore, NEW s, s = Head(waiting),
         NEW done \in Nat, done < Len(tok[s]), ScheduleChunk(s, done),
         UNCHANGED <<tok, numPrompt>>, numCached'[s] = done,
         table'[s] # <<>>, num_blocks(s) <= Len(table'[s]),
         \A x \in Seqs : x # s => /\ table'[x] = table[x]
                                  /\ numCached'[x] = numCached[x]
  PROVE  SInv'
<1> DEFINE chunk == ChunkSize(s, done)
<1>1. SchedTypeOK /\ Queues /\ Counters /\ Ahead /\ phase = "prefill"
  BY DEF SInv, PrefillMayTakeMore
<1>2. /\ numScheduled' = [numScheduled EXCEPT ![s] = chunk]
      /\ prefillTokens' = prefillTokens + chunk
      /\ batch' = Append(batch, s)
      /\ todo' = todo - 1
      /\ UNCHANGED <<isPrefill, phase, decodeTokens>>
  BY DEF ScheduleChunk
<1>3. \/ /\ done + chunk = Len(tok[s])
         /\ status' = [status EXCEPT ![s] = "RUNNING"]
         /\ running' = Append(running, s)
         /\ waiting' = Tail(waiting)
      \/ /\ done + chunk # Len(tok[s])
         /\ waiting' = Append(Tail(waiting), s)
         /\ UNCHANGED <<status, running>>
  BY DEF ScheduleChunk
<1>4. /\ s \in Seqs /\ s \in Range(waiting) /\ status[s] = "WAITING"
      /\ s \notin Range(batch)
      /\ Len(waiting) \in Nat \ {0} /\ todo \in 1 .. Len(waiting)
      /\ Tail(waiting) \in Seq(Seqs) /\ IsInjective(Tail(waiting))
      /\ Range(Tail(waiting)) = Range(waiting) \ {s}
      /\ Len(Tail(waiting)) = Len(waiting) - 1
      /\ \A i \in 1 .. Len(waiting) - 1 : Tail(waiting)[i] = waiting[i + 1]
      /\ \A i \in 1 .. Len(waiting) - 1 : waiting[i + 1] # s
  BY NextWaiting
<1>5. /\ chunk \in Nat \ {0} /\ done + chunk <= Len(tok[s])
      /\ decodeTokens + prefillTokens + chunk <= MaxBatchedTokens
  BY <1>4, ChunkFits
<1> HIDE DEF chunk
<1>6. /\ batch \in Seq(Seqs) /\ running \in Seq(Seqs)
      /\ numScheduled \in [Seqs -> Nat]
      /\ status \in [Seqs -> {"NONE", "WAITING", "RUNNING", "FINISHED"}]
      /\ prefillTokens \in Nat /\ decodeTokens \in Nat
      /\ Len(tok[s]) \in Nat /\ Len(batch) \in Nat
  BY <1>1, <1>4, RequestSizes, LenProperties DEF SchedTypeOK
<1>7. /\ batch' \in Seq(Seqs) /\ IsInjective(batch') /\ batch' # <<>>
      /\ Range(batch') = Range(batch) \cup {s} /\ Len(batch') = Len(batch) + 1
  <2>1. IsInjective(batch) /\ batch \in Seq(Seqs) /\ s \in Seqs
        /\ s \notin Range(batch)
    BY <1>1, <1>4, <1>6 DEF Queues
  <2>2. Append(batch, s) # <<>>
    BY <2>1, AppendProperties
  <2>3. /\ Append(batch, s) \in Seq(Seqs) /\ IsInjective(Append(batch, s))
        /\ Range(Append(batch, s)) = Range(batch) \cup {s}
        /\ Len(Append(batch, s)) = Len(batch) + 1
    BY <2>1, AppendQueue
  <2>4. batch' = Append(batch, s)
    BY <1>2
  <2> QED
    BY ONLY <2>2, <2>3, <2>4
<1>8. /\ waiting' \in Seq(Seqs) /\ IsInjective(waiting')
      /\ \A i \in 1 .. Len(waiting) - 1 : waiting'[i] = waiting[i + 1]
      /\ Len(waiting') \in {Len(waiting) - 1, Len(waiting)}
  <2>1. CASE waiting' = Tail(waiting)
    BY <1>4, <2>1
  <2>2. CASE waiting' = Append(Tail(waiting), s)
    BY <2>2, RotatedWaiting
  <2> QED
    BY <1>3, <2>1, <2>2
<1>9. /\ numScheduled'[s] = chunk
      /\ \A x \in Seqs : x # s => Untouched(x)
  BY <1>2, <1>3, <1>4, <1>6 DEF Untouched
<1>10. s \notin Range(running)
  BY <1>1, <1>4 DEF Queues, Runs
<1>11. SchedTypeOK'
  <2>1. running' \in Seq(Seqs)
    <3>1. Append(running, s) \in Seq(Seqs)
      BY <1>4, <1>6, AppendProperties
    <3> QED
      BY <1>3, <1>6, <3>1
  <2>2. status' \in [Seqs -> {"NONE", "WAITING", "RUNNING", "FINISHED"}]
    BY <1>3, <1>6
  <2>3. /\ numScheduled' \in [Seqs -> Nat] /\ todo' \in Nat
        /\ prefillTokens' \in Nat
    BY <1>2, <1>4, <1>5, <1>6
  <2> QED
    BY <1>1, <1>2, <1>7, <1>8, <2>1, <2>2, <2>3 DEF SchedTypeOK
<1>12. Queues'
  <2>1. CASE status' = status
    <3>1. Waits' = Waits /\ Runs' = Runs
      BY <2>1 DEF Waits, Runs
    <3>2. running' = running /\ Range(waiting') = Range(waiting)
      <4>1. status # [status EXCEPT ![s] = "RUNNING"]
        BY <1>4, <1>6
      <4>2. running' = running /\ waiting' = Append(Tail(waiting), s)
        BY <1>3, <2>1, <4>1
      <4> QED
        BY <4>2, RotatedWaiting
    <3> QED
      BY <1>1, <1>2, <1>7, <1>8, <3>1, <3>2 DEF Queues
  <2>2. CASE status' = [status EXCEPT ![s] = "RUNNING"]
    <3>1. Waits' = Waits \ {s} /\ Runs' = Runs \cup {s}
      BY <1>4, <1>6, <2>2 DEF Waits, Runs
    <3>2. running' = Append(running, s) /\ waiting' = Tail(waiting)
      <4>1. status # [status EXCEPT ![s] = "RUNNING"]
        BY <1>4, <1>6
      <4> QED
        BY <1>3, <2>2, <4>1
    <3>3. IsInjective(running') /\ Range(running') = Range(running) \cup {s}
      BY <1>1, <1>4, <1>6, <1>10, <3>2, AppendQueue DEF Queues
    <3> QED
      BY <1>1, <1>2, <1>4, <1>7, <1>8, <3>1, <3>2, <3>3 DEF Queues
  <2> QED
    BY <1>3, <2>1, <2>2
<1>13. ASSUME NEW x \in Seqs PROVE RequestOK(x)'
  <2>0. RequestOK(x)
    BY DEF SInv
  <2>1. CASE x # s
    <3>1. x \in Range(batch') <=> x \in Range(batch)
      BY <1>7, <2>1
    <3>2. prefillTokens' > 0
      BY <1>2, <1>5, <1>6
    <3> QED
      BY <1>9, <2>0, <2>1, <3>1, <3>2, UntouchedKeeps
  <2>2. CASE x = s
    <3>1. Unfinished(s)'
      BY <1>4, <2>0, <2>2 DEF RequestOK, Unfinished, num_completion_tokens
    <3>2. Roomy(s)' /\ Len(tok'[s]) = Len(tok[s])
      BY DEF Roomy, num_blocks
    <3>3. prefillTokens' > 0 /\ numScheduled'[s] > 0
      BY <1>2, <1>5, <1>6, <1>9
    <3>4. \/ status'[s] = "RUNNING" /\ done + chunk = Len(tok[s])
          \/ status'[s] = "WAITING" /\ done + chunk < Len(tok[s])
      <4>1. CASE done + chunk = Len(tok[s])
        BY <1>3, <1>4, <1>6, <4>1
      <4>2. CASE done + chunk # Len(tok[s])
        <5>0. chunk \in Nat /\ Len(tok[s]) \in Nat /\ done + chunk <= Len(tok[s])
          BY <1>5, <1>6
        <5>1. done + chunk < Len(tok[s])
          BY <5>0, <4>2
        <5>2. status' = status
          BY <1>3, <4>2
        <5> QED
          BY <1>4, <5>1, <5>2
      <4> QED
        BY <4>1, <4>2
    <3>5. InBatch(s)'
      BY <1>9, <3>2, <3>3, <3>4 DEF InBatch
    <3>6. s \in Range(batch') /\ status'[s] \in {"WAITING", "RUNNING"}
      BY <1>7, <3>4
    <3> QED
      BY <2>2, <3>1, <3>5, <3>6 DEF RequestOK
  <2> QED
    BY <2>1, <2>2
<1>14. Counters'
  <2>1. Len(batch) < MaxNumSeqs
    BY DEF PrefillMayTakeMore
  <2>2. Len(batch') <= MaxNumSeqs
    BY <1>6, <1>7, <2>1, MaxNumSeqsAssumption
  <2>3. prefillTokens' > 0 /\ decodeTokens' + prefillTokens' <= MaxBatchedTokens
    BY <1>2, <1>5, <1>6, MaxBatchedTokensAssumption
  <2>4. phase' = "prefill"
    BY <1>1, <1>2
  <2> QED
    BY <1>7, <2>2, <2>3, <2>4 DEF Counters, BatchBudget
<1>15. Ahead'
  <2>1. ASSUME NEW i \in 1 .. todo - 1 PROVE waiting'[i] \notin Range(batch')
    <3>1. i \in 1 .. Len(waiting) - 1 /\ i + 1 \in 1 .. todo
      BY <1>4
    <3>2. waiting[i + 1] \notin Range(batch)
      BY <1>1, <3>1 DEF Ahead
    <3> QED
      BY <1>4, <1>7, <1>8, <3>1, <3>2
  <2>2. todo - 1 <= Len(waiting')
    <3>1. todo - 1 <= Len(waiting) - 1 /\ todo - 1 <= Len(waiting)
      BY <1>4
    <3> QED
      BY <1>8, <3>1
  <2> QED
    BY <1>2, <2>1, <2>2 DEF Ahead
<1> QED
  BY <1>11, <1>12, <1>13, <1>14, <1>15 DEF SInv

(* A request admitted with c cached blocks has blocks for all its tokens.  *)
LEMMA PrefillAdmitStep ==
  ASSUME DigestSound, IInv, SInv, PrefillAdmit
  PROVE  SInv' /\ [Next]_vars
<1>0. PICK s : s = Head(waiting)
  OBVIOUS
<1>1. TypeOK /\ Accounting /\ MapSound /\ ChainsWhole
  BY DEF IInv, Contents
<1>2. PrefillMayTakeMore /\ table[s] = <<>>
  BY <1>0 DEF PrefillAdmit
<1>3. PICK c \in 0 .. num_blocks(s) - 1 :
        /\ CachedBlocks(s, c)
        /\ CanAllocate(s, c)
        /\ Allocate(s, c)
        /\ ScheduleChunk(s, c * BlockSize)
  BY <1>0 DEF PrefillAdmit
<1>4. s \in Seqs /\ status[s] = "WAITING"
  BY <1>0, <1>2, NextWaiting
<1>5. Unfinished(s)
  BY <1>4 DEF SInv, RequestOK
<1>6. PICK hits, fresh :
        /\ Took(s, hits, fresh)
        /\ Len(hits) = c /\ Len(fresh) = allocation_target(s) - c
        /\ table' = [table EXCEPT ![s] = hits \o fresh]
        /\ numCached' = [numCached EXCEPT ![s] = c * BlockSize]
        /\ UNCHANGED <<tok, numPrompt>>
  BY <1>1, <1>2, <1>3, <1>4, <1>5, AllocateTook
<1>7. c * BlockSize \in Nat /\ c * BlockSize < Len(tok[s]) /\ c \in Nat
  BY <1>1, <1>4, HitsFit
<1>8. table \in [Seqs -> Seq(Blocks)] /\ numCached \in [Seqs -> Nat]
  BY <1>1 DEF TypeOK
<1>9. /\ table'[s] = hits \o fresh /\ numCached'[s] = c * BlockSize
      /\ \A x \in Seqs : x # s => /\ table'[x] = table[x]
                                  /\ numCached'[x] = numCached[x]
  BY <1>4, <1>6, <1>8
<1>10. num_blocks(s) <= Len(table'[s]) /\ table'[s] # <<>>
  <2>1. hits \in Seq(Blocks) /\ fresh \in Seq(Blocks)
    BY <1>6 DEF Took
  <2>2. Len(hits \o fresh) = c + (allocation_target(s) - c)
    BY <1>6, <2>1, ConcatProperties
  <2>3. /\ allocation_target(s) \in Nat /\ num_blocks(s) \in Nat
        /\ allocation_target(s) >= num_blocks(s)
    BY <1>1, <1>4, <1>5, TargetProperties
  <2>4. Len(hits \o fresh) = allocation_target(s) /\ num_blocks(s) > 0
    BY <1>7, <2>2, <2>3
  <2>5. Len(hits \o fresh) # 0
    BY <2>3, <2>4
  <2>6. hits \o fresh # <<>>
    BY <2>5
  <2> QED
    BY <1>9, <2>3, <2>4, <2>6
<1>11. SInv'
  BY <1>0, <1>1, <1>2, <1>3, <1>6, <1>7, <1>9, <1>10, ChunkStep
<1>12. Next
  BY <1>2, <1>3, <1>4, <1>5 DEF Next, Admit
<1> QED
  BY <1>11, <1>12

(* A request in the middle of its prompt has its blocks already.           *)
LEMMA PrefillContinueStep ==
  ASSUME IInv, SInv, PrefillContinue
  PROVE  SInv' /\ UNCHANGED vars
<1>0. PICK s : s = Head(waiting)
  OBVIOUS
<1>1. TypeOK /\ SchedTypeOK
  BY DEF IInv, SInv
<1>2. /\ PrefillMayTakeMore /\ table[s] # <<>>
      /\ ScheduleChunk(s, numCached[s])
      /\ UNCHANGED vars
  BY <1>0 DEF PrefillContinue
<1>3. s \in Seqs /\ status[s] = "WAITING" /\ s \notin Range(batch)
  BY <1>0, <1>2, NextWaiting
<1>4. numCached[s] < Len(tok[s]) /\ num_blocks(s) <= Len(table[s])
  BY <1>2, <1>3 DEF SInv, RequestOK, Rests
<1>5. UNCHANGED <<tok, numPrompt, table, numCached>>
  BY <1>2 DEF vars
<1>6. numCached[s] \in Nat
  BY <1>1, <1>3, RequestSizes
<1> QED
  BY <1>0, <1>1, <1>2, <1>4, <1>5, <1>6, ChunkStep

(* The end of the loop over the waiting queue.                             *)
LEMMA PrefillDoneStep ==
  ASSUME SInv, PrefillDone
  PROVE  SInv' /\ UNCHANGED vars
<1>1. SchedTypeOK /\ Queues /\ Counters
  BY DEF SInv
<1>2. /\ phase = "prefill"
      /\ phase' = IF Mixed \/ prefillTokens > 0 THEN "dispatch" ELSE "decode"
      /\ UNCHANGED vars
      /\ UNCHANGED <<waiting, running, status, isPrefill, numScheduled,
                     batch, todo, decodeTokens, prefillTokens>>
  BY DEF PrefillDone, queueVars, batchVars
<1>3. UNCHANGED <<tok, numPrompt, table, numCached>>
  BY <1>2 DEF vars
<1>4. SchedTypeOK'
  BY <1>1, <1>2 DEF SchedTypeOK
<1>5. phase' = "decode" => batch = <<>> /\ prefillTokens = 0
  BY <1>1, <1>2 DEF Counters, SchedTypeOK
<1>6. Queues'
  <2>1. Waits' = Waits /\ Runs' = Runs
    BY <1>2 DEF Waits, Runs
  <2>2. phase' = "decode" => Range(batch) = {}
    BY <1>5 DEF Range
  <2> QED
    BY <1>1, <1>2, <2>1, <2>2 DEF Queues
<1>7. ASSUME NEW x \in Seqs PROVE RequestOK(x)'
  <2>1. Untouched(x) /\ RequestOK(x)
    BY <1>2, <1>3 DEF Untouched, SInv
  <2> QED
    BY <1>2, <2>1, UntouchedKeeps
<1>8. Counters' /\ Ahead'
  BY <1>1, <1>2, <1>5 DEF Counters, Ahead, BatchBudget
<1> QED
  BY <1>2, <1>4, <1>6, <1>7, <1>8 DEF SInv

-----------------------------------------------------------------------------
(* The model runs, postprocess                                             *)

(* The batch is handed to the model, or found empty.                       *)
LEMMA DispatchStep ==
  ASSUME SInv, Dispatch
  PROVE  SInv' /\ UNCHANGED vars
<1>1. SchedTypeOK /\ Queues /\ Counters
  BY DEF SInv
<1>2. /\ phase = "dispatch"
      /\ phase' = IF batch # <<>> THEN "postprocess" ELSE "failed"
      /\ UNCHANGED vars
      /\ UNCHANGED <<waiting, running, status, isPrefill, numScheduled,
                     batch, todo, decodeTokens, prefillTokens>>
  BY DEF Dispatch, queueVars, batchVars
<1>3. UNCHANGED <<tok, numPrompt, table, numCached>>
  BY <1>2 DEF vars
<1>4. SchedTypeOK'
  BY <1>1, <1>2 DEF SchedTypeOK
<1>5. Queues'
  <2>1. Waits' = Waits /\ Runs' = Runs
    BY <1>2 DEF Waits, Runs
  <2> QED
    BY <1>1, <1>2, <2>1 DEF Queues
<1>6. ASSUME NEW x \in Seqs PROVE RequestOK(x)'
  <2>1. Untouched(x) /\ RequestOK(x)
    BY <1>2, <1>3 DEF Untouched, SInv
  <2> QED
    BY <1>2, <2>1, UntouchedKeeps
<1>7. Counters' /\ Ahead'
  BY <1>1, <1>2 DEF Counters, Ahead, BatchBudget
<1> QED
  BY <1>2, <1>4, <1>5, <1>6, <1>7 DEF SInv

(* The end of postprocess.                                                 *)
LEMMA EndStepStep ==
  ASSUME SInv, EndStep
  PROVE  SInv' /\ UNCHANGED vars
<1>1. SchedTypeOK /\ Queues /\ Counters
  BY DEF SInv
<1>2. /\ phase = "postprocess" /\ batch = <<>> /\ phase' = "idle"
      /\ UNCHANGED vars
      /\ UNCHANGED <<waiting, running, status, isPrefill, numScheduled,
                     batch, todo, decodeTokens, prefillTokens>>
  BY DEF EndStep, queueVars, batchVars
<1>3. UNCHANGED <<tok, numPrompt, table, numCached>>
  BY <1>2 DEF vars
<1>4. SchedTypeOK'
  BY <1>1, <1>2 DEF SchedTypeOK
<1>5. Queues'
  <2>1. Waits' = Waits /\ Runs' = Runs
    BY <1>2 DEF Waits, Runs
  <2> QED
    BY <1>1, <1>2, <2>1 DEF Queues
<1>6. ASSUME NEW x \in Seqs PROVE RequestOK(x)'
  <2>1. Untouched(x) /\ RequestOK(x)
    BY <1>2, <1>3 DEF Untouched, SInv
  <2> QED
    BY <1>2, <2>1, UntouchedKeeps
<1>7. Counters' /\ Ahead'
  BY <1>1, <1>2 DEF Counters, Ahead, BatchBudget
<1> QED
  BY <1>2, <1>4, <1>5, <1>6, <1>7 DEF SInv

(* The sequence postprocess looks at, whose scheduled tokens have room.    *)
LEMMA Computed ==
  ASSUME TypeOK, SInv, phase = "postprocess", batch # <<>>,
         NEW s, s = Head(batch)
  PROVE  /\ s \in Seqs /\ s \in Range(batch) /\ Unfinished(s) /\ Roomy(s)
         /\ Len(tok[s]) \in Nat
         /\ numCached[s] \in Nat
         /\ numScheduled[s] \in 1 .. Len(tok[s])
         /\ HasRoom(s, numScheduled[s])
         /\ \/ /\ status[s] = "RUNNING" /\ ~MorePrompt(s)
               /\ numCached[s] + numScheduled[s] = Len(tok[s])
            \/ /\ status[s] = "WAITING" /\ MorePrompt(s)
               /\ numCached[s] + numScheduled[s] < Len(tok[s])
         /\ Tail(batch) \in Seq(Seqs) /\ IsInjective(Tail(batch))
         /\ Range(Tail(batch)) = Range(batch) \ {s}
         /\ Len(Tail(batch)) = Len(batch) - 1 /\ Len(batch) \in Nat
<1>1. SchedTypeOK /\ Queues /\ batch \in Seq(Seqs)
  BY DEF SInv, SchedTypeOK
<1>2. /\ s \in Seqs /\ s \in Range(batch)
      /\ Tail(batch) \in Seq(Seqs) /\ IsInjective(Tail(batch))
      /\ Range(Tail(batch)) = Range(batch) \ {s}
      /\ Len(Tail(batch)) = Len(batch) - 1 /\ Len(batch) \in Nat
  BY <1>1, TailQueue DEF Queues
<1>3. RequestOK(s) /\ InBatch(s) /\ Roomy(s)
  BY <1>2 DEF SInv, RequestOK, InBatch
<1>4. /\ numCached[s] \in Nat /\ numScheduled[s] \in Nat /\ Len(tok[s]) \in Nat
  BY <1>1, <1>2, RequestSizes
<1>5. \/ /\ status[s] = "RUNNING" /\ ~MorePrompt(s)
         /\ numCached[s] + numScheduled[s] = Len(tok[s])
      \/ /\ status[s] = "WAITING" /\ MorePrompt(s)
         /\ numCached[s] + numScheduled[s] < Len(tok[s])
  BY <1>3, <1>4 DEF InBatch, MorePrompt, is_prefill
<1>6. numScheduled[s] > 0
  BY <1>3 DEF InBatch
<1>7. numCached[s] + numScheduled[s] <= Len(tok[s])
  BY <1>4, <1>5
<1>8. numScheduled[s] \in 1 .. Len(tok[s])
  BY <1>4, <1>6, <1>7
<1>9. HasRoom(s, numScheduled[s])
  BY <1>1, <1>2, <1>3, <1>4, <1>7, RoomyHasRoom
<1>10. Unfinished(s)
  BY <1>3, <1>5 DEF RequestOK
<1> QED
  BY <1>2, <1>3, <1>4, <1>5, <1>8, <1>9, <1>10

(* What postprocess does to the scheduler's variables for one sequence.    *)
LEMMA PostprocessedKeeps ==
  ASSUME TypeOK, SInv, phase = "postprocess", batch # <<>>,
         NEW s, s = Head(batch), Postprocessed(s),
         UNCHANGED numPrompt,
         \A x \in Seqs : x # s =>
           /\ tok'[x] = tok[x] /\ table'[x] = table[x]
           /\ numCached'[x] = numCached[x] /\ status'[x] = status[x],
         status' \in [Seqs -> {"NONE", "WAITING", "RUNNING", "FINISHED"}],
         running' \in Seq(Seqs), IsInjective(running'),
         Range(running') = Runs', Waits' = Waits,
         status'[s] \in {"WAITING", "RUNNING"} => Unfinished(s)',
         table'[s] # <<>> => status'[s] \in {"WAITING", "RUNNING"},
         Rests(s)'
  PROVE  SInv'
<1>1. SchedTypeOK /\ Queues /\ Counters
  BY DEF SInv
<1>2. /\ batch' = Tail(batch)
      /\ numScheduled' = [numScheduled EXCEPT ![s] = 0]
      /\ UNCHANGED <<waiting, isPrefill, phase, todo, decodeTokens,
                     prefillTokens>>
  BY DEF Postprocessed
<1>3. /\ s \in Seqs /\ s \in Range(batch)
      /\ batch' \in Seq(Seqs) /\ IsInjective(batch')
      /\ Range(batch') = Range(batch) \ {s}
      /\ Len(batch') = Len(batch) - 1 /\ Len(batch) \in Nat
  BY <1>2, Computed
<1>4. numScheduled \in [Seqs -> Nat]
  BY <1>1 DEF SchedTypeOK
<1>5. \A x \in Seqs : x # s => Untouched(x)
  BY <1>2, <1>3, <1>4 DEF Untouched
<1>6. SchedTypeOK'
  BY <1>1, <1>2, <1>3, <1>4 DEF SchedTypeOK
<1>7. Queues'
  BY <1>1, <1>2, <1>3 DEF Queues
<1>8. ASSUME NEW x \in Seqs PROVE RequestOK(x)'
  <2>0. RequestOK(x)
    BY DEF SInv
  <2>1. CASE x # s
    <3>1. x \in Range(batch') <=> x \in Range(batch)
      BY <1>3, <2>1
    <3> QED
      BY <1>2, <1>5, <2>0, <2>1, <3>1, UntouchedKeeps
  <2>2. CASE x = s
    BY <1>3, <2>2 DEF RequestOK
  <2> QED
    BY <2>1, <2>2
<1>9. Counters' /\ Ahead'
  <2>1. Len(batch') <= MaxNumSeqs
    BY <1>1, <1>3, MaxNumSeqsAssumption DEF Counters, BatchBudget
  <2> QED
    BY <1>1, <1>2, <2>1 DEF Counters, Ahead, BatchBudget
<1> QED
  BY <1>6, <1>7, <1>8, <1>9 DEF SInv

(* A chunk in the middle of a prompt: the request goes on waiting.         *)
LEMMA PostprocessChunkStep ==
  ASSUME IInv, SInv, PostprocessChunk
  PROVE  SInv' /\ [Next]_vars
<1>0. PICK s : s = Head(batch)
  OBVIOUS
<1>1. TypeOK /\ SchedTypeOK /\ Queues
  BY DEF IInv, SInv
<1>2. /\ phase = "postprocess" /\ batch # <<>> /\ MorePrompt(s)
      /\ ComputeChunk(s, numScheduled[s]) /\ Postprocessed(s)
      /\ UNCHANGED <<running, status>>
  BY <1>0 DEF PostprocessChunk
<1>3. /\ s \in Seqs /\ Unfinished(s) /\ Roomy(s) /\ numCached[s] \in Nat
      /\ numScheduled[s] \in 1 .. Len(tok[s])
      /\ HasRoom(s, numScheduled[s])
      /\ status[s] = "WAITING"
      /\ numCached[s] + numScheduled[s] < Len(tok[s])
  BY <1>0, <1>1, <1>2, Computed
<1>4. ComputePart(s, numScheduled[s])
  BY <1>2, <1>3 DEF ComputePart
<1>5. Next
  BY <1>3, <1>4 DEF Next
<1>6. /\ numCached' = [numCached EXCEPT ![s] = numCached[s] + numScheduled[s]]
      /\ UNCHANGED <<tok, numPrompt, table>>
  BY <1>2 DEF ComputeChunk
<1>7. numCached'[s] = numCached[s] + numScheduled[s]
      /\ \A x \in Seqs : x # s => numCached'[x] = numCached[x]
  BY <1>1, <1>3, <1>6 DEF TypeOK
<1>8. Rests(s)' /\ Unfinished(s)' /\ status'[s] = "WAITING"
  <2>1. Unfinished(s)' /\ Roomy(s)'
    BY <1>3, <1>6 DEF Unfinished, num_completion_tokens, Roomy, num_blocks
  <2> QED
    BY <1>2, <1>3, <1>6, <1>7, <2>1 DEF Rests, Roomy
<1>9. Waits' = Waits /\ Runs' = Runs
  BY <1>2 DEF Waits, Runs
<1>10. /\ running' \in Seq(Seqs) /\ IsInjective(running')
       /\ Range(running') = Runs'
       /\ status' \in [Seqs -> {"NONE", "WAITING", "RUNNING", "FINISHED"}]
  BY <1>1, <1>2, <1>9 DEF Queues, SchedTypeOK
<1>11. \A x \in Seqs : x # s =>
         /\ tok'[x] = tok[x] /\ table'[x] = table[x]
         /\ numCached'[x] = numCached[x] /\ status'[x] = status[x]
  BY <1>2, <1>6, <1>7
<1> QED
  BY <1>0, <1>1, <1>2, <1>5, <1>6, <1>8, <1>9, <1>10, <1>11, PostprocessedKeeps

(* One token more: the request is ready for its next decode.               *)
LEMMA PostprocessTokenStep ==
  ASSUME IInv, SInv, NEW t \in Tokens, PostprocessToken(t)
  PROVE  SInv' /\ [Next]_vars
<1>0. PICK s : s = Head(batch)
  OBVIOUS
<1>1. TypeOK /\ SchedTypeOK /\ Queues
  BY DEF IInv, SInv
<1>2. /\ phase = "postprocess" /\ batch # <<>> /\ ~MorePrompt(s)
      /\ ~Finishes(s, t)
      /\ ComputeToken(s, numScheduled[s], t) /\ Postprocessed(s)
      /\ UNCHANGED <<running, status>>
  BY <1>0 DEF PostprocessToken
<1>3. /\ s \in Seqs /\ Unfinished(s) /\ Roomy(s) /\ numCached[s] \in Nat
      /\ Len(tok[s]) \in Nat
      /\ numScheduled[s] \in 1 .. Len(tok[s])
      /\ HasRoom(s, numScheduled[s])
      /\ status[s] = "RUNNING"
      /\ numCached[s] + numScheduled[s] = Len(tok[s])
  BY <1>0, <1>1, <1>2, Computed
<1>4. tok[s] \in Seq(Tokens) /\ numPrompt[s] \in Nat
  BY <1>1, <1>3, RequestSizes
<1>5. num_completion_tokens(s) + 1 < MaxTokens
  BY <1>2, <1>3, <1>4, MaxTokensAssumption
     DEF Finishes, Unfinished, num_completion_tokens
<1>6. ComputeAll(s, numScheduled[s], t)
  BY <1>2, <1>3, <1>5 DEF ComputeAll
<1>7. Next
  BY <1>3, <1>6 DEF Next
<1>8. /\ numCached' = [numCached EXCEPT ![s] = numCached[s] + numScheduled[s]]
      /\ tok' = [tok EXCEPT ![s] = Append(tok[s], t)]
      /\ UNCHANGED <<numPrompt, table>>
  BY <1>2 DEF ComputeToken
<1>9. /\ numCached'[s] = Len(tok[s])
      /\ tok'[s] = Append(tok[s], t)
      /\ \A x \in Seqs : x # s => numCached'[x] = numCached[x] /\ tok'[x] = tok[x]
  BY <1>1, <1>3, <1>8 DEF TypeOK
<1>10. Len(tok'[s]) = Len(tok[s]) + 1 /\ tok'[s] # <<>>
  BY <1>4, <1>9, AppendProperties
<1>11. Rests(s)' /\ Unfinished(s)' /\ status'[s] = "RUNNING"
  <2>1. Unfinished(s)'
    BY <1>3, <1>4, <1>5, <1>8, <1>10, MaxTokensAssumption
       DEF Unfinished, num_completion_tokens
  <2>2. Rests(s)'
    BY <1>2, <1>3, <1>8, <1>9, <1>10 DEF Rests, Roomy
  <2> QED
    BY <1>2, <1>3, <2>1, <2>2
<1>12. Waits' = Waits /\ Runs' = Runs
  BY <1>2 DEF Waits, Runs
<1>13. /\ running' \in Seq(Seqs) /\ IsInjective(running')
       /\ Range(running') = Runs'
       /\ status' \in [Seqs -> {"NONE", "WAITING", "RUNNING", "FINISHED"}]
  BY <1>1, <1>2, <1>12 DEF Queues, SchedTypeOK
<1>14. \A x \in Seqs : x # s =>
         /\ tok'[x] = tok[x] /\ table'[x] = table[x]
         /\ numCached'[x] = numCached[x] /\ status'[x] = status[x]
  BY <1>2, <1>8, <1>9
<1> QED
  BY <1>0, <1>1, <1>2, <1>7, <1>8, <1>11, <1>12, <1>13, <1>14, PostprocessedKeeps

(* The last token: the request leaves its queue and gives up its blocks.   *)
LEMMA PostprocessLastStep ==
  ASSUME IInv, SInv, NEW t \in Tokens, PostprocessLast(t)
  PROVE  SInv' /\ [Next]_vars
<1>0. PICK s : s = Head(batch)
  OBVIOUS
<1>1. TypeOK /\ SchedTypeOK /\ Queues
  BY DEF IInv, SInv
<1>2. /\ phase = "postprocess" /\ batch # <<>> /\ ~MorePrompt(s)
      /\ ComputeLast(s, numScheduled[s], t) /\ Postprocessed(s)
      /\ status' = [status EXCEPT ![s] = "FINISHED"]
      /\ running' = Without(running, {s})
  BY <1>0 DEF PostprocessLast
<1>3. /\ s \in Seqs /\ Unfinished(s)
      /\ numScheduled[s] \in 1 .. Len(tok[s])
      /\ HasRoom(s, numScheduled[s])
      /\ status[s] = "RUNNING"
      /\ numCached[s] + numScheduled[s] = Len(tok[s])
  BY <1>0, <1>1, <1>2, Computed
<1>4. ComputeFinal(s, numScheduled[s], t)
  BY <1>2, <1>3 DEF ComputeFinal
<1>5. Next
  BY <1>3, <1>4 DEF Next
<1>6. /\ tok' = [tok EXCEPT ![s] = Append(tok[s], t)]
      /\ table' = [table EXCEPT ![s] = <<>>]
      /\ numCached' = [numCached EXCEPT ![s] = 0]
      /\ UNCHANGED numPrompt
  BY <1>2 DEF ComputeLast, Deallocate
<1>7. /\ table'[s] = <<>> /\ status'[s] = "FINISHED"
      /\ status' \in [Seqs -> {"NONE", "WAITING", "RUNNING", "FINISHED"}]
      /\ \A x \in Seqs : x # s =>
           /\ tok'[x] = tok[x] /\ table'[x] = table[x]
           /\ numCached'[x] = numCached[x] /\ status'[x] = status[x]
  BY <1>1, <1>2, <1>3, <1>6 DEF TypeOK, SchedTypeOK
<1>8. Rests(s)'
  BY <1>7 DEF Rests
<1>9. Waits' = Waits /\ Runs' = Runs \ {s}
  BY <1>3, <1>7 DEF Waits, Runs
<1>10. running' \in Seq(Seqs) /\ IsInjective(running') /\ Range(running') = Runs'
  <2>1. running \in Seq(Seqs) /\ IsInjective(running) /\ Range(running) = Runs
    BY <1>1, <1>2 DEF SchedTypeOK, Queues
  <2> QED
    BY <1>2, <1>9, <2>1, WithoutProperties
<1> QED
  BY <1>0, <1>1, <1>2, <1>5, <1>6, <1>7, <1>8, <1>9, <1>10, PostprocessedKeeps

-----------------------------------------------------------------------------
(* The invariant.                                                          *)

(* Before the first request.                                               *)
LEMMA InitSInv ==
  ASSUME SchedInit
  PROVE  SInv
<1>1. /\ waiting = <<>> /\ running = <<>> /\ batch = <<>>
      /\ status = [s \in Seqs |-> "NONE"]
      /\ isPrefill = [s \in Seqs |-> TRUE]
      /\ numScheduled = [s \in Seqs |-> 0]
      /\ phase = "idle" /\ todo = 0 /\ decodeTokens = 0 /\ prefillTokens = 0
      /\ table = [s \in Seqs |-> <<>>]
  BY DEF SchedInit, Init
<1>2. /\ <<>> \in Seq(Seqs) /\ Len(<<>>) = 0
      /\ IsInjective(<<>>) /\ Range(<<>>) = {}
  BY DEF IsInjective, Range
<1>3. SchedTypeOK
  BY <1>1, <1>2 DEF SchedTypeOK
<1>4. Queues
  <2>1. Waits = {} /\ Runs = {}
    BY <1>1 DEF Waits, Runs
  <2> QED
    BY <1>1, <1>2, <2>1 DEF Queues
<1>5. \A s \in Seqs : RequestOK(s)
  BY <1>1, <1>2 DEF RequestOK, Rests
<1>6. Counters /\ Ahead
  BY <1>1, <1>2, MaxNumSeqsAssumption DEF Counters, Ahead, BatchBudget
<1> QED
  BY <1>3, <1>4, <1>5, <1>6 DEF SInv

(* A stuttering step.                                                      *)
LEMMA StutterSInv ==
  ASSUME SInv, UNCHANGED schedVars
  PROVE  SInv' /\ UNCHANGED vars
<1>1. /\ UNCHANGED vars
      /\ UNCHANGED <<waiting, running, status, isPrefill, numScheduled, phase,
                     batch, todo, decodeTokens, prefillTokens>>
  BY DEF schedVars
<1>2. UNCHANGED <<tok, numPrompt, table, numCached>>
  BY <1>1 DEF vars
<1>3. SchedTypeOK'
  BY <1>1 DEF SInv, SchedTypeOK
<1>4. Queues'
  <2>1. Waits' = Waits /\ Runs' = Runs
    BY <1>1 DEF Waits, Runs
  <2> QED
    BY <1>1, <2>1 DEF SInv, Queues
<1>5. ASSUME NEW x \in Seqs PROVE RequestOK(x)'
  <2>1. Untouched(x) /\ RequestOK(x)
    BY <1>1, <1>2 DEF Untouched, SInv
  <2> QED
    BY <1>1, <2>1, UntouchedKeeps
<1>6. Counters' /\ Ahead'
  BY <1>1 DEF SInv, Counters, Ahead, BatchBudget
<1> QED
  BY <1>1, <1>3, <1>4, <1>5, <1>6 DEF SInv

(* Every step of the scheduler keeps its invariant, and is a step the      *)
(* block manager allows its client.                                        *)
LEMMA SchedNextSInv ==
  ASSUME DigestSound, IInv, SInv, [SchedNext]_schedVars
  PROVE  SInv' /\ [Next]_vars
<1>1. CASE UNCHANGED schedVars
  BY <1>1, StutterSInv
<1>2. ASSUME NEW s \in Seqs, NEW p \in Prompts, AddRequest(s, p)
      PROVE  SInv' /\ [Next]_vars
  BY <1>2, AddRequestStep
<1>3. CASE StartStep
  BY <1>3, StartStepStep
<1>4. CASE PreemptLast
  BY <1>4, PreemptLastStep
<1>5. CASE ScheduleDecode
  BY <1>5, ScheduleDecodeStep
<1>6. CASE DecodeDone
  BY <1>6, DecodeDoneStep
<1>7. CASE PrefillReject
  BY <1>7, PrefillRejectStep
<1>8. CASE PrefillAdmit
  BY <1>8, PrefillAdmitStep
<1>9. CASE PrefillContinue
  BY <1>9, PrefillContinueStep
<1>10. CASE PrefillDone
  BY <1>10, PrefillDoneStep
<1>11. CASE Dispatch
  BY <1>11, DispatchStep
<1>12. CASE PostprocessChunk
  BY <1>12, PostprocessChunkStep
<1>13. ASSUME NEW t \in Tokens, PostprocessToken(t)
       PROVE  SInv' /\ [Next]_vars
  BY <1>13, PostprocessTokenStep
<1>14. ASSUME NEW t \in Tokens, PostprocessLast(t)
       PROVE  SInv' /\ [Next]_vars
  BY <1>14, PostprocessLastStep
<1>15. CASE EndStep
  BY <1>15, EndStepStep
<1> QED
  BY <1>1, <1>2, <1>3, <1>4, <1>5, <1>6, <1>7, <1>8, <1>9, <1>10, <1>11, <1>12,
     <1>13, <1>14, <1>15 DEF SchedNext, Step

(* Both invariants hold before the first request.                          *)
LEMMA InitJInv == SchedInit => JInv
BY InitIInv, InitSInv DEF SchedInit, JInv

(* Neither module's steps break the other's invariant.                     *)
LEMMA NextJInv ==
  ASSUME DigestSound
  PROVE  JInv /\ [SchedNext]_schedVars => JInv' /\ [Next]_vars
<1> SUFFICES ASSUME IInv, SInv, [SchedNext]_schedVars
             PROVE  IInv' /\ SInv' /\ [Next]_vars
  BY DEF JInv
<1>1. SInv' /\ [Next]_vars
  BY SchedNextSInv
<1>2. IInv'
  BY <1>1, NextIInv
<1> QED
  BY <1>1, <1>2

(* The invariant of the scheduler over the block manager.                  *)
LEMMA SchedInvariance == ASSUME DigestSound PROVE SchedSpec => []JInv
BY InitJInv, NextJInv, PTL DEF SchedSpec

(* The scheduler implements the client the block manager was proved for:   *)
(* it allocates only for a request without blocks, appends only to a       *)
(* table, computes only tokens that have blocks and releases only what it  *)
(* holds. What was proved of BlockManager's specification is thereby true  *)
(* of the scheduler.                                                       *)
THEOREM SchedulerKeepsProtocol == ASSUME DigestSound PROVE SchedSpec => Spec
<1>1. SchedInit => Init
  BY DEF SchedInit
<1> QED
  BY <1>1, NextJInv, SchedInvariance, PTL DEF SchedSpec, Spec

(* The scheduler's variables keep their types (SchedTypeOK).               *)
THEOREM SchedTypeCorrect == ASSUME DigestSound PROVE SchedSpec => []SchedTypeOK
<1>1. JInv => SchedTypeOK
  BY DEF JInv, SInv
<1> QED
  BY <1>1, SchedInvariance, PTL

-----------------------------------------------------------------------------
(* What follows from it.                                                   *)

(* What Queues says of the deque and the batch apart is what QueuesExact   *)
(* says of the two together.                                               *)
LEMMA QueuesExactFromInv ==
  ASSUME JInv
  PROVE  QueuesExact
<1>1. SchedTypeOK /\ Queues
  BY DEF JInv, SInv
<1>2. running \in Seq(Seqs) /\ batch \in Seq(Seqs)
  BY <1>1 DEF SchedTypeOK
<1>3. CASE phase = "decode"
  <2>1. allRunning = running \o batch
    BY <1>3 DEF allRunning
  <2>2. /\ IsInjective(running) /\ IsInjective(batch)
        /\ Range(running) \cap Range(batch) = {}
        /\ Range(running) \cup Range(batch) = Runs
    BY <1>1, <1>3 DEF Queues
  <2>3. IsInjective(running \o batch)
    BY <1>2, <2>2, ConcatInjective
  <2>4. Range(running \o batch) = Range(running) \cup Range(batch)
    BY <1>2, ConcatRange
  <2>5. Range(running \o batch) = Runs
    BY <2>2, <2>4
  <2> QED
    BY <1>1, <2>1, <2>3, <2>5 DEF QueuesExact, Queues, Waits, Runs
<1>4. CASE phase # "decode"
  <2>1. allRunning = running
    BY <1>4 DEF allRunning
  <2> QED
    BY <1>1, <1>4, <2>1 DEF QueuesExact, Queues, Waits, Runs
<1> QED
  BY <1>3, <1>4

(* The requests' own invariant gives what is said of the batch.            *)
LEMMA BatchFromInv ==
  ASSUME JInv
  PROVE  /\ ScheduledHaveRoom /\ BetweenBatches /\ OnlyQueuedHoldBlocks
         /\ BatchBudget
<1>1. TypeOK /\ SchedTypeOK /\ Queues /\ Counters /\ \A s \in Seqs : RequestOK(s)
  BY DEF JInv, IInv, SInv
<1>2. Range(batch) \subseteq Seqs
  BY <1>1, RangeOfSeq DEF SchedTypeOK
<1>3. ASSUME NEW s \in Range(batch)
      PROVE  numScheduled[s] > 0 /\ HasRoom(s, numScheduled[s]) /\ table[s] # <<>>
  <2>1. s \in Seqs /\ InBatch(s)
    BY <1>1, <1>2 DEF RequestOK
  <2>2. /\ numCached[s] \in Nat /\ numScheduled[s] \in Nat /\ Len(tok[s]) \in Nat
    BY <1>1, <2>1, RequestSizes
  <2>3. Roomy(s) /\ numCached[s] + numScheduled[s] <= Len(tok[s])
    BY <2>1, <2>2 DEF InBatch
  <2>4. HasRoom(s, numScheduled[s])
    BY <1>1, <2>1, <2>2, <2>3, RoomyHasRoom
  <2> QED
    BY <2>1, <2>4 DEF InBatch, Roomy
<1>4. ScheduledHaveRoom
  BY <1>1, <1>3 DEF ScheduledHaveRoom, Queues
<1>5. BetweenBatches /\ OnlyQueuedHoldBlocks
  BY <1>1 DEF RequestOK, Rests, BetweenBatches, OnlyQueuedHoldBlocks
<1> QED
  BY <1>1, <1>4, <1>5 DEF Counters

(* Every unfinished request is in exactly one deque, once, the one its     *)
(* status says (QueuesExact): nothing is lost or duplicated by preemption, *)
(* rejection, rotation or finishing.                                       *)
THEOREM QueuesExactHolds == ASSUME DigestSound PROVE SchedSpec => []QueuesExact
<1>1. JInv => QueuesExact
  BY QueuesExactFromInv
<1> QED
  BY <1>1, SchedInvariance, PTL

(* A scheduled sequence keeps blocks for every token the model writes      *)
(* until it is postprocessed (ScheduledHaveRoom).                          *)
THEOREM ScheduledHaveRoomHolds ==
  ASSUME DigestSound PROVE SchedSpec => []ScheduledHaveRoom
<1>1. JInv => ScheduledHaveRoom
  BY BatchFromInv
<1> QED
  BY <1>1, SchedInvariance, PTL

(* A running sequence outside a batch has exactly one token left to        *)
(* compute, a waiting one with blocks is inside its prompt                 *)
(* (BetweenBatches).                                                       *)
THEOREM BetweenBatchesHolds ==
  ASSUME DigestSound PROVE SchedSpec => []BetweenBatches
<1>1. JInv => BetweenBatches
  BY BatchFromInv
<1> QED
  BY <1>1, SchedInvariance, PTL

(* A request that left the queues left no blocks behind                    *)
(* (OnlyQueuedHoldBlocks).                                                 *)
THEOREM OnlyQueuedHold ==
  ASSUME DigestSound PROVE SchedSpec => []OnlyQueuedHoldBlocks
<1>1. JInv => OnlyQueuedHoldBlocks
  BY BatchFromInv
<1> QED
  BY <1>1, SchedInvariance, PTL

(* A batch keeps to max_num_seqs, and one with a prefill to                *)
(* max_num_batched_tokens, decodes included (BatchBudget).                 *)
THEOREM BatchBudgetHolds ==
  ASSUME DigestSound PROVE SchedSpec => []BatchBudget
<1>1. JInv => BatchBudget
  BY BatchFromInv
<1> QED
  BY <1>1, SchedInvariance, PTL

(* Under the scheduler too the cached blocks of a sequence were computed   *)
(* for its own tokens (CachedPrefixCorrect).                               *)
THEOREM SchedCachedPrefix ==
  ASSUME DigestSound PROVE SchedSpec => []CachedPrefixCorrect
BY SchedulerKeepsProtocol, CachedPrefixHolds, PTL

(* The only step that takes a running request back is PreemptLast, and it  *)
(* needs a table that is too short.                                        *)
LEMMA ReserveStep ==
  ASSUME TypeOK, SInv, Reserve, ReserveCovers, [SchedNext]_schedVars
  PROVE  NoPreemption
<1> SUFFICES ASSUME NEW s \in Seqs, status[s] = "RUNNING", status'[s] = "WAITING"
             PROVE  FALSE
  BY DEF NoPreemption
<1>1. SchedTypeOK /\ Queues
  BY DEF SInv
<1>2. status \in [Seqs -> {"NONE", "WAITING", "RUNNING", "FINISHED"}]
  BY <1>1 DEF SchedTypeOK
<1>3. status' # status
  OBVIOUS
<1>4. ASSUME NEW x \in Seqs, NEW p \in Prompts, AddRequest(x, p) PROVE FALSE
  <2>1. x = s
    BY <1>2, <1>4 DEF AddRequest
  <2>2. tok[s] = <<>>
    BY <1>4, <2>1 DEF AddRequest
  <2> QED
    BY <2>2 DEF SInv, RequestOK, Unfinished
<1>5. CASE PreemptLast
  <2>1. phase = "decode" /\ running # <<>> /\ ~CanAppend(Head(running))
    BY <1>5 DEF PreemptLast, DecodeMayTakeMore
  <2>2. running \in Seq(Seqs)
    BY <1>1 DEF SchedTypeOK
  <2>3. PICK h \in Seqs : h = Head(running) /\ h \in Range(running)
    BY <2>1, <2>2, TailQueue
  <2>4. status[h] = "RUNNING" /\ h \notin Range(batch)
    BY <1>1, <2>1, <2>3 DEF Queues, Runs
  <2>5. table[h] # <<>>
    BY <2>3, <2>4 DEF SInv, RequestOK, Rests
  <2>6. num_blocks(h) <= Len(table[h])
    BY <2>3, <2>5 DEF ReserveCovers
  <2>7. num_blocks(h) > Len(table[h])
    BY <2>1, <2>3 DEF CanAppend
  <2>8. num_blocks(h) \in Nat /\ Len(table[h]) \in Nat
    BY <1>1, <2>3, RequestSizes
  <2> QED
    BY <2>6, <2>7, <2>8
<1>6. CASE Step /\ ~PreemptLast
  <2>1. ASSUME NEW x, NEW d, ScheduleChunk(x, d) PROVE FALSE
    BY <1>2, <1>3, <2>1 DEF ScheduleChunk
  <2>2. ~PrefillAdmit /\ ~PrefillContinue
    BY <2>1 DEF PrefillAdmit, PrefillContinue
  <2>3. ASSUME NEW t \in Tokens, PostprocessLast(t) PROVE FALSE
    BY <1>2, <2>3 DEF PostprocessLast
  <2>4. ASSUME NEW t \in Tokens, PostprocessToken(t) PROVE FALSE
    BY <1>3, <2>4 DEF PostprocessToken
  <2>5. ~StartStep /\ ~ScheduleDecode /\ ~DecodeDone /\ ~PrefillReject
    BY <1>3 DEF StartStep, ScheduleDecode, DecodeDone, PrefillReject, queueVars
  <2>6. ~PrefillDone /\ ~Dispatch /\ ~PostprocessChunk /\ ~EndStep
    BY <1>3 DEF PrefillDone, Dispatch, PostprocessChunk, EndStep, queueVars
  <2> QED
    BY <1>6, <2>2, <2>3, <2>4, <2>5, <2>6 DEF Step
<1>7. CASE UNCHANGED schedVars
  BY <1>3, <1>7 DEF schedVars
<1> QED
  BY <1>4, <1>5, <1>6, <1>7 DEF SchedNext

(* With reserve_decode_kv no running sequence is ever preempted            *)
(* (ReserveNeverPreempts).                                                 *)
THEOREM ReserveHoldsRunning ==
  ASSUME DigestSound, Reserve
  PROVE  SchedSpec => ReserveNeverPreempts
<1>1. JInv /\ ReserveCovers /\ [SchedNext]_schedVars => NoPreemption
  BY ReserveStep DEF JInv, IInv
<1>2. SchedSpec => []ReserveCovers
  BY SchedulerKeepsProtocol, ReserveHolds, PTL
<1>3. JInv /\ ReserveCovers /\ [SchedNext]_schedVars => [NoPreemption]_schedVars
  BY <1>1
<1> QED
  BY <1>2, <1>3, SchedInvariance, PTL DEF SchedSpec, ReserveNeverPreempts

-----------------------------------------------------------------------------
(* No stall.                                                               *)

(* The most blocks a request asks for: with reserve_decode_kv all of them  *)
(* at once, otherwise none for the last token, which is never computed.    *)
MostBlocks(p) ==
  IF Reserve THEN BlocksFor(Len(p) + MaxTokens)
  ELSE BlocksFor(Len(p) + MaxTokens - 1)

(* Every request fits the cache alone.                                     *)
PromptsFit == \A p \in Prompts : MostBlocks(p) <= NumBlocks

PromptSizes ==
  \A s \in Seqs : tok[s] # <<>> => \E p \in Prompts : numPrompt[s] = Len(p)

(* The waiting requests the loop has already put back hold no blocks.      *)
NothingRejectedHolds ==
  \A i \in 1 .. Len(waiting) : i > todo => table[waiting[i]] = <<>>

(* Why a step always finds something to do.  While the batch is empty: a   *)
(* mixed step that found no decode has nothing running, and the request    *)
(* that holds blocks, if any does, is among those the loop still visits; a *)
(* step without mixing that could not prefill has something running and    *)
(* nobody waiting holds blocks.                                            *)
Progress ==
  /\ phase = "decode" /\ Mixed => waiting # <<>> \/ running # <<>> \/ batch # <<>>
  /\ phase = "prefill" /\ batch = <<>> =>
       /\ NothingRejectedHolds
       /\ running = <<>> => todo > 0
       /\ Mixed => running = <<>>
  /\ phase = "decode" /\ ~Mixed /\ batch = <<>> =>
       running # <<>> /\ \A s \in Waits : table[s] = <<>>
  /\ phase = "dispatch" => batch # <<>>
  /\ phase # "failed"

(* A request's prompt is one of the prompts.                               *)
LEMMA PromptSizesStep ==
  ASSUME TypeOK, PromptSizes, [Next]_vars
  PROVE  PromptSizes'
<1>1. CASE UNCHANGED <<tok, numPrompt>>
  BY <1>1 DEF PromptSizes
<1>2. ASSUME NEW s \in Seqs, NEW p \in Prompts, Create(s, p) PROVE PromptSizes'
  <2>1. /\ tok' = [tok EXCEPT ![s] = p]
        /\ numPrompt' = [numPrompt EXCEPT ![s] = Len(p)]
    BY <1>2 DEF Create, NewSequence
  <2>2. /\ numPrompt'[s] = Len(p)
        /\ \A x \in Seqs : x # s => /\ tok'[x] = tok[x]
                                    /\ numPrompt'[x] = numPrompt[x]
    BY <2>1 DEF TypeOK
  <2> QED
    BY <2>2 DEF PromptSizes
<1>3. ASSUME NEW s \in Seqs, NEW t \in Tokens, tok[s] # <<>>,
             tok' = [tok EXCEPT ![s] = Append(tok[s], t)], numPrompt' = numPrompt
      PROVE  PromptSizes'
  <2>1. \A x \in Seqs : tok'[x] # <<>> => tok[x] # <<>>
    BY <1>3 DEF TypeOK
  <2> QED
    BY <1>3, <2>1 DEF PromptSizes
<1>4. ASSUME NEW s \in Seqs, Admit(s) PROVE PromptSizes'
  BY <1>1, <1>4 DEF Admit, Allocate
<1>5. ASSUME NEW s \in Seqs, RejectAdmission(s) PROVE PromptSizes'
  BY <1>1, <1>5 DEF RejectAdmission, RejectedLookup, seqVars
<1>6. ASSUME NEW s \in Seqs, Grow(s) PROVE PromptSizes'
  <2>1. MayAppend(s)
    BY <1>6 DEF Grow
  <2> QED
    BY <1>1, <2>1 DEF MayAppend, vars
<1>7. ASSUME NEW s \in Seqs, NEW n, ComputePart(s, n) PROVE PromptSizes'
  BY <1>1, <1>7 DEF ComputePart, ComputeChunk
<1>8. ASSUME NEW s \in Seqs, NEW n, NEW t \in Tokens, ComputeAll(s, n, t)
      PROVE  PromptSizes'
  BY <1>3, <1>8 DEF ComputeAll, ComputeToken, Unfinished
<1>9. ASSUME NEW s \in Seqs, NEW n, NEW t \in Tokens, ComputeFinal(s, n, t)
      PROVE  PromptSizes'
  BY <1>3, <1>9 DEF ComputeFinal, ComputeLast, Unfinished
<1>10. ASSUME NEW s \in Seqs, Release(s) PROVE PromptSizes'
  BY <1>1, <1>10 DEF Release
<1>11. CASE UNCHANGED vars
  BY <1>1, <1>11 DEF vars
<1> QED
  BY <1>2, <1>4, <1>5, <1>6, <1>7, <1>8, <1>9, <1>10, <1>11 DEF Next

(* No unfinished request ever needs more blocks than there are.            *)
LEMMA NeedsFit ==
  ASSUME PromptsFit, TypeOK, PromptSizes, NEW s \in Seqs, Unfinished(s)
  PROVE  /\ num_blocks(s) \in Nat /\ num_blocks(s) <= NumBlocks
         /\ allocation_target(s) \in Nat /\ allocation_target(s) <= NumBlocks
<1>1. PICK p \in Prompts : numPrompt[s] = Len(p)
  BY DEF PromptSizes, Unfinished
<1>2. MostBlocks(p) <= NumBlocks
  BY DEF PromptsFit
<1>3. numPrompt[s] \in Nat /\ Len(tok[s]) \in Nat /\ MaxTokens \in Nat \ {0}
  BY MaxTokensAssumption, LenProperties DEF TypeOK
<1>4. Len(tok[s]) < numPrompt[s] + MaxTokens
  BY <1>3 DEF Unfinished, num_completion_tokens
<1>5. /\ allocation_target(s) \in Nat /\ num_blocks(s) \in Nat
      /\ allocation_target(s) >= num_blocks(s)
  BY TargetProperties
<1>6. allocation_target(s) <= MostBlocks(p)
  <2>1. CASE Reserve
    <3>1. allocation_target(s) = BlocksFor(Len(p) + MaxTokens)
      BY <1>1, <2>1 DEF allocation_target, max_num_blocks
    <3>2. MostBlocks(p) = BlocksFor(Len(p) + MaxTokens)
      BY <2>1 DEF MostBlocks
    <3> QED
      BY <1>5, <3>1, <3>2
  <2>2. CASE ~Reserve
    <3>1. allocation_target(s) = BlocksFor(Len(tok[s]))
      BY <2>2 DEF allocation_target, num_blocks
    <3>2. MostBlocks(p) = BlocksFor(Len(p) + MaxTokens - 1)
      BY <2>2 DEF MostBlocks
    <3>3. /\ Len(p) + MaxTokens - 1 \in Nat
          /\ Len(tok[s]) <= Len(p) + MaxTokens - 1
      BY <1>1, <1>3, <1>4
    <3> QED
      BY <1>3, <3>1, <3>2, <3>3, BlocksForMonotone
  <2> QED
    BY <2>1, <2>2
<1>7. MostBlocks(p) \in Nat
  <2>1. Len(p) + MaxTokens \in Nat /\ Len(p) + MaxTokens - 1 \in Nat
    BY <1>1, <1>3
  <2> QED
    BY <2>1, BlocksForBounds DEF MostBlocks
<1> QED
  BY <1>2, <1>5, <1>6, <1>7, NumBlocksAssumption

(* There are NumBlocks blocks.                                             *)
LEMMA BlocksCounted == IsFiniteSet(Blocks) /\ Cardinality(Blocks) = NumBlocks
<1>1. CASE NumBlocks = 0
  <2>1. Blocks = {}
    BY <1>1 DEF Blocks
  <2> QED
    BY <1>1, <2>1, FS_EmptySet
<1>2. CASE NumBlocks # 0
  <2>1. /\ NumBlocks - 1 \in Int /\ 0 <= NumBlocks - 1
        /\ (NumBlocks - 1) - 0 + 1 = NumBlocks
    BY <1>2, NumBlocksAssumption
  <2> QED
    BY <2>1, FS_Interval DEF Blocks
<1> QED
  BY <1>1, <1>2

(* A request that is alone in the cache always gets its next block.        *)
LEMMA LoneHolderGrows ==
  ASSUME PromptsFit, IInv, PromptSizes, NEW s \in Seqs, Unfinished(s),
         \A x \in Seqs : x # s => table[x] = <<>>
  PROVE  CanAppend(s)
<1>1. TypeOK /\ FreeExact /\ RefExact
  BY DEF IInv, Accounting
<1> SUFFICES ASSUME num_blocks(s) > Len(table[s]), free = <<>>
             PROVE  FALSE
  BY DEF CanAppend
<1>2. Blocks \subseteq used
  <2>1. Range(free) = {}
    BY DEF Range
  <2> QED
    BY <1>1, <2>1 DEF FreeExact
<1>3. Blocks \subseteq Range(table[s])
  <2> SUFFICES ASSUME NEW b \in Blocks PROVE b \in Range(table[s])
    OBVIOUS
  <2>1. Holders(b) # {}
    BY <1>1, <1>2, HoldersCounted
  <2>2. PICK x \in Seqs : b \in Range(table[x])
    BY <2>1 DEF Holders
  <2>3. table[x] # <<>>
    BY <2>2 DEF Range
  <2> QED
    BY <2>2, <2>3
<1>4. table[s] \in Seq(Blocks)
  BY <1>1 DEF TypeOK
<1>5. /\ IsFiniteSet(Range(table[s]))
      /\ Cardinality(Range(table[s])) <= Len(table[s])
  BY <1>4, InjectiveRange
<1>6. /\ NumBlocks <= Cardinality(Range(table[s]))
      /\ Cardinality(Range(table[s])) \in Nat
  BY <1>3, <1>5, BlocksCounted, FS_Subset, FS_CardinalityType
<1>7. num_blocks(s) \in Nat /\ num_blocks(s) <= NumBlocks
  BY <1>1, NeedsFit
<1>8. Len(table[s]) \in Nat
  BY <1>4, LenProperties
<1> QED
  BY <1>5, <1>6, <1>7, <1>8, NumBlocksAssumption

(* An empty cache admits any request.                                      *)
LEMMA EmptyCacheAdmits ==
  ASSUME PromptsFit, IInv, PromptSizes, NEW s \in Seqs, Unfinished(s),
         \A x \in Seqs : table[x] = <<>>, NEW c
  PROVE  CanAllocate(s, c)
<1>1. TypeOK /\ FreeExact /\ RefExact
  BY DEF IInv, Accounting
<1>2. used = {}
  <2>1. ASSUME NEW b \in used PROVE FALSE
    <3>1. b \in Blocks
      BY <1>1 DEF TypeOK
    <3>2. Holders(b) # {}
      BY <1>1, <3>1, HoldersCounted
    <3> QED
      BY <3>2 DEF Holders, Range
  <2> QED
    BY <2>1
<1>3. free \in Seq(Blocks) /\ IsInjective(free) /\ Range(free) = Blocks
  BY <1>1, <1>2 DEF FreeExact, TypeOK
<1>4. Len(free) = NumBlocks
  BY <1>3, InjectiveRange, BlocksCounted
<1>5. num_new_blocks(s, c) = allocation_target(s)
  <2>1. {i \in 1 .. c : HitBlocks(s, c)[i] \in used} = {}
    BY <1>2
  <2>2. allocation_target(s) \in Nat
    BY <1>1, NeedsFit
  <2> DEFINE h == {i \in 1 .. c : HitBlocks(s, c)[i] \in used}
  <2>3. num_new_blocks(s, c) = allocation_target(s) - Cardinality(h)
    BY Zenon DEF num_new_blocks
  <2>4. Cardinality(h) = 0
    BY <2>1, FS_EmptySet
  <2> HIDE DEF h
  <2> QED
    BY <2>2, <2>3, <2>4
<1>6. allocation_target(s) \in Nat /\ allocation_target(s) <= NumBlocks
  BY <1>1, NeedsFit
<1> QED
  BY <1>4, <1>5, <1>6, NumBlocksAssumption DEF CanAllocate

(* A preemption leaves something to run: alone in the cache the sequence   *)
(* would not have lacked a block.                                          *)
LEMMA PreemptProgress ==
  ASSUME PromptsFit, IInv, SInv, PromptSizes, Progress, PreemptLast
  PROVE  Progress'
<1>0. PICK s : s = Last(running)
  OBVIOUS
<1>1. TypeOK /\ SchedTypeOK /\ Queues
  BY DEF IInv, SInv
<1>2. /\ phase = "decode" /\ phase' = "decode" /\ running # <<>>
      /\ ~CanAppend(Head(running))
      /\ table' = [table EXCEPT ![s] = <<>>]
      /\ status' = [status EXCEPT ![s] = "WAITING"]
      /\ waiting' = <<s>> \o waiting /\ running' = Front(running)
      /\ batch' = batch
  BY <1>0 DEF PreemptLast, DecodeMayTakeMore, Preempt, Deallocate, batchVars
<1>3. running \in Seq(Seqs) /\ waiting \in Seq(Seqs)
  BY <1>1 DEF SchedTypeOK
<1>4. /\ s \in Seqs /\ s \in Range(running)
      /\ running' = <<>> => Len(running) = 1 /\ running[1] = s
  BY <1>0, <1>2, <1>3, FrontQueue
<1>5. waiting' # <<>>
  BY <1>2, <1>3, <1>4, PushQueue
<1>6. ASSUME ~Mixed, batch = <<>>
      PROVE  running' # <<>> /\ \A x \in Waits' : table'[x] = <<>>
  <2>1. \A x \in Waits : table[x] = <<>>
    BY <1>2, <1>6 DEF Progress
  <2>2. \A x \in Waits' : table'[x] = <<>>
    BY <1>1, <1>2, <1>4, <2>1 DEF Waits, TypeOK, SchedTypeOK
  <2>3. ASSUME running' = <<>> PROVE FALSE
    <3>1. Len(running) = 1 /\ running[1] = s /\ DOMAIN running = 1 .. Len(running)
      BY <1>3, <1>4, <2>3, LenProperties
    <3>2. Range(running) = {s} /\ Head(running) = s
      BY <1>2, <1>3, <3>1, TailQueue DEF Range
    <3>3. Range(batch) = {}
      BY <1>6 DEF Range
    <3>4. Runs = {s}
      BY <1>1, <1>2, <3>2, <3>3 DEF Queues
    <3>5. \A x \in Seqs : table[x] # <<>> => x \in Waits \cup Runs
      BY DEF SInv, RequestOK, Waits, Runs
    <3>6. \A x \in Seqs : x # s => table[x] = <<>>
      BY <2>1, <3>4, <3>5
    <3>7. Unfinished(s)
      BY <1>4, <3>4 DEF SInv, RequestOK, Runs
    <3>8. CanAppend(s)
      BY <1>4, <3>6, <3>7, LoneHolderGrows
    <3> QED
      BY <1>2, <3>2, <3>8
  <2> QED
    BY <2>2, <2>3
<1> QED
  BY <1>2, <1>5, <1>6 DEF Progress

(* The end of the decodes: something was scheduled, or somebody waits.     *)
LEMMA DecodeDoneProgress ==
  ASSUME SInv, Progress, DecodeDone
  PROVE  Progress'
<1>1. SchedTypeOK /\ Queues
  BY DEF SInv
<1>2. /\ phase = "decode" /\ phase' = IF Mixed THEN "prefill" ELSE "dispatch"
      /\ ~(Len(batch) < MaxNumSeqs /\ running # <<>>)
      /\ running' = running \o batch /\ todo' = Len(waiting)
      /\ waiting' = waiting /\ batch' = batch
  BY DEF DecodeDone, DecodeMayTakeMore
<1>3. batch = <<>> => running = <<>>
  BY <1>2, MaxNumSeqsAssumption
<1>4. waiting \in Seq(Seqs) /\ Len(waiting) \in Nat
  BY <1>1, LenProperties DEF SchedTypeOK
<1>5. CASE Mixed
  <2>1. batch = <<>> => running' = <<>> /\ waiting # <<>>
    BY <1>2, <1>3, <1>5 DEF Progress
  <2>2. batch = <<>> => todo' > 0
    BY <1>2, <1>4, <2>1, NonemptyQueue
  <2>3. NothingRejectedHolds'
    BY <1>2, <1>4 DEF NothingRejectedHolds
  <2> QED
    BY <1>2, <1>5, <2>1, <2>2, <2>3 DEF Progress
<1>6. CASE ~Mixed
  <2>1. batch # <<>>
    BY <1>2, <1>3, <1>6 DEF Progress
  <2> QED
    BY <1>2, <1>6, <2>1 DEF Progress
<1> QED
  BY <1>5, <1>6

(* A rejection: if it was the last one of the loop nobody holds a block,   *)
(* and an empty cache rejects nothing.                                     *)
LEMMA RejectProgress ==
  ASSUME PromptsFit, IInv, SInv, PromptSizes, Progress, PrefillReject
  PROVE  Progress'
<1>0. PICK s : s = Head(waiting)
  OBVIOUS
<1>1. SchedTypeOK /\ Queues /\ PrefillMayTakeMore
  BY DEF SInv, PrefillReject
<1>2. /\ phase = "prefill" /\ phase' = "prefill" /\ table[s] = <<>>
      /\ \E c \in 0 .. num_blocks(s) - 1 :
           CachedBlocks(s, c) /\ ~CanAllocate(s, c) /\ RejectedLookup(s, c)
      /\ waiting' = Append(Tail(waiting), s) /\ todo' = todo - 1
      /\ running' = running /\ batch' = batch
  BY <1>0, <1>1 DEF PrefillReject, PrefillMayTakeMore
<1>3. table' = table
  BY <1>2 DEF RejectedLookup, seqVars
<1>4. /\ s \in Seqs /\ status[s] = "WAITING" /\ s = waiting[1]
      /\ waiting \in Seq(Seqs)
      /\ Len(waiting) \in Nat \ {0} /\ todo \in 1 .. Len(waiting)
  BY <1>0, <1>1, NextWaiting
<1>5. /\ Len(waiting') = Len(waiting)
      /\ \A i \in 1 .. Len(waiting) - 1 : waiting'[i] = waiting[i + 1]
      /\ waiting'[Len(waiting)] = s
  BY <1>0, <1>1, <1>2, RotatedWaiting
<1>6. ASSUME batch = <<>>
      PROVE  NothingRejectedHolds'
  <2>1. \A i \in 1 .. Len(waiting) : i > todo => table[waiting[i]] = <<>>
    BY <1>2, <1>6 DEF Progress, NothingRejectedHolds
  <2> SUFFICES ASSUME NEW i \in 1 .. Len(waiting), i > todo - 1
               PROVE  table[waiting'[i]] = <<>>
    BY <1>2, <1>3, <1>5 DEF NothingRejectedHolds
  <2>2. CASE i = Len(waiting)
    BY <1>2, <1>5, <2>2
  <2>3. CASE i # Len(waiting)
    <3>1. /\ i \in 1 .. Len(waiting) - 1 /\ i + 1 \in 1 .. Len(waiting)
          /\ i + 1 > todo
      BY <1>4, <2>3
    <3> QED
      BY <1>5, <2>1, <3>1
  <2> QED
    BY <2>2, <2>3
<1>7. ASSUME batch = <<>>, running = <<>>
      PROVE  todo' > 0
  <2> SUFFICES ASSUME todo = 1 PROVE FALSE
    BY <1>2, <1>4
  <2>1. ASSUME NEW x \in Waits PROVE table[x] = <<>>
    <3>1. PICK i \in 1 .. Len(waiting) : x = waiting[i]
      BY <1>1, <1>4, LenProperties DEF Queues, Range
    <3>2. CASE i = 1
      BY <1>2, <1>4, <3>1, <3>2
    <3>3. CASE i # 1
      <4>1. i > todo
        BY <3>3
      <4> QED
        BY <1>2, <1>7, <3>1, <4>1 DEF Progress, NothingRejectedHolds
    <3> QED
      BY <3>2, <3>3
  <2>2. Runs = {}
    BY <1>1, <1>2, <1>7 DEF Queues, Range
  <2>3. \A x \in Seqs : table[x] # <<>> => x \in Waits \cup Runs
    BY DEF SInv, RequestOK, Waits, Runs
  <2>4. \A x \in Seqs : table[x] = <<>>
    BY <2>1, <2>2, <2>3
  <2>5. Unfinished(s)
    BY <1>4 DEF SInv, RequestOK
  <2>6. \A c : CanAllocate(s, c)
    BY <1>4, <2>4, <2>5, EmptyCacheAdmits
  <2> QED
    BY <1>2, <2>6
<1>8. batch = <<>> /\ Mixed => running = <<>>
  BY <1>2 DEF Progress
<1> QED
  BY <1>2, <1>6, <1>7, <1>8 DEF Progress

(* The end of the prefills.                                                *)
LEMMA PrefillDoneProgress ==
  ASSUME SInv, Progress, PrefillDone
  PROVE  Progress'
<1>1. SchedTypeOK /\ Queues /\ Counters
  BY DEF SInv
<1>2. /\ phase = "prefill"
      /\ ~(todo > 0 /\ Len(batch) < MaxNumSeqs /\ remaining > 0)
      /\ phase' = IF Mixed \/ prefillTokens > 0 THEN "dispatch" ELSE "decode"
      /\ UNCHANGED vars
      /\ UNCHANGED <<waiting, running, status, batch, todo>>
  BY DEF PrefillDone, PrefillMayTakeMore, queueVars, batchVars
<1>3. table' = table
  BY <1>2 DEF vars
<1>4. ASSUME batch = <<>> PROVE ~(todo > 0) /\ prefillTokens = 0
  <2>1. decodeTokens = 0 /\ prefillTokens = 0
    BY <1>1, <1>2, <1>4 DEF Counters
  <2>2. remaining > 0
    BY <2>1, MaxBatchedTokensAssumption DEF remaining
  <2>3. Len(batch) < MaxNumSeqs
    BY <1>4, MaxNumSeqsAssumption
  <2> QED
    BY <1>2, <2>1, <2>2, <2>3
<1>5. batch = <<>> => running # <<>> /\ ~Mixed
  BY <1>2, <1>4 DEF Progress
<1>6. ASSUME batch = <<>> PROVE \A x \in Waits : table[x] = <<>>
  <2> SUFFICES ASSUME NEW x \in Waits PROVE table[x] = <<>>
    OBVIOUS
  <2>1. waiting \in Seq(Seqs) /\ todo \in Nat
    BY <1>1 DEF SchedTypeOK
  <2>2. PICK i \in 1 .. Len(waiting) : x = waiting[i]
    BY <1>1, <2>1, LenProperties DEF Queues, Range
  <2>3. i > todo
    BY <1>4, <1>6, <2>1, LenProperties
  <2> QED
    BY <1>2, <1>6, <2>2, <2>3 DEF Progress, NothingRejectedHolds
<1>7. phase' = "dispatch" => batch # <<>>
  BY <1>2, <1>4, <1>5
<1>8. Waits' = Waits
  BY <1>2 DEF Waits
<1> QED
  BY <1>2, <1>3, <1>5, <1>6, <1>7, <1>8 DEF Progress

(* Every step keeps Progress.                                              *)
LEMMA StepProgress ==
  ASSUME PromptsFit, IInv, SInv, PromptSizes, Progress, [SchedNext]_schedVars
  PROVE  Progress'
<1>1. SchedTypeOK /\ Queues
  BY DEF SInv
<1>2. ASSUME phase' \in {"idle", "postprocess"} PROVE Progress'
  BY <1>2 DEF Progress
<1>3. CASE UNCHANGED schedVars
  <2>1. UNCHANGED <<table, waiting, running, status, phase, batch, todo>>
    BY <1>3 DEF schedVars, vars
  <2>2. Waits' = Waits /\ (NothingRejectedHolds' <=> NothingRejectedHolds)
    BY <2>1 DEF Waits, NothingRejectedHolds
  <2> QED
    BY <2>1, <2>2 DEF Progress
<1>4. ASSUME NEW s \in Seqs, NEW p \in Prompts, AddRequest(s, p) PROVE Progress'
  BY <1>2, <1>4 DEF AddRequest
<1>5. CASE StartStep
  <2>1. /\ phase' = IF Mixed THEN "decode" ELSE "prefill"
        /\ waiting # <<>> \/ running # <<>>
        /\ batch' = <<>> /\ todo' = Len(waiting)
        /\ UNCHANGED <<waiting, running>>
    BY <1>5 DEF StartStep, queueVars
  <2>2. Len(waiting) \in Nat /\ (waiting # <<>> => Len(waiting) > 0)
    BY <1>1, LenProperties, NonemptyQueue DEF SchedTypeOK
  <2>3. NothingRejectedHolds'
    BY <2>1, <2>2 DEF NothingRejectedHolds
  <2> QED
    BY <2>1, <2>2, <2>3 DEF Progress
<1>6. CASE ScheduleDecode
  <2>1. phase = "decode" /\ phase' = "decode" /\ batch' # <<>>
    <3>1. /\ running # <<>> /\ batch' = Append(batch, Head(running))
          /\ phase = "decode" /\ phase' = "decode"
      BY <1>6 DEF ScheduleDecode, DecodeMayTakeMore
    <3>2. running \in Seq(Seqs) /\ batch \in Seq(Seqs)
      BY <1>1 DEF SchedTypeOK
    <3> QED
      BY <3>1, <3>2, TailQueue, AppendProperties
  <2> QED
    BY <2>1 DEF Progress
<1>7. ASSUME NEW s \in Seqs, NEW d, phase = "prefill", ScheduleChunk(s, d)
      PROVE  Progress'
  <2>1. phase' = "prefill" /\ batch' = Append(batch, s)
    BY <1>7 DEF ScheduleChunk
  <2>2. batch \in Seq(Seqs)
    BY <1>1 DEF SchedTypeOK
  <2>3. Append(batch, s) # <<>>
    BY <2>2, AppendProperties
  <2> QED
    BY <2>1, <2>3 DEF Progress
<1>8. CASE PrefillAdmit \/ PrefillContinue
  <2>1. PrefillMayTakeMore /\ phase = "prefill"
    BY <1>8 DEF PrefillAdmit, PrefillContinue, PrefillMayTakeMore
  <2>2. Head(waiting) \in Seqs
    BY <2>1, NextWaiting
  <2>3. \E d : ScheduleChunk(Head(waiting), d)
    BY <1>8 DEF PrefillAdmit, PrefillContinue
  <2> QED
    BY <1>7, <2>1, <2>2, <2>3
<1>9. CASE Dispatch
  <2>1. phase' = "postprocess"
    BY <1>9 DEF Dispatch, Progress
  <2> QED
    BY <1>2, <2>1
<1>10. CASE PostprocessChunk
  BY <1>2, <1>10 DEF PostprocessChunk, Postprocessed
<1>11. ASSUME NEW t \in Tokens, PostprocessToken(t) PROVE Progress'
  BY <1>2, <1>11 DEF PostprocessToken, Postprocessed
<1>12. ASSUME NEW t \in Tokens, PostprocessLast(t) PROVE Progress'
  BY <1>2, <1>12 DEF PostprocessLast, Postprocessed
<1>13. CASE EndStep
  BY <1>2, <1>13 DEF EndStep
<1> QED
  BY <1>3, <1>4, <1>5, <1>6, <1>8, <1>9, <1>10, <1>11, <1>12, <1>13,
     PreemptProgress, DecodeDoneProgress, RejectProgress, PrefillDoneProgress
     DEF SchedNext, Step

(* schedule() never comes back empty-handed while requests are left        *)
(* (NoStall), if each of them fits the cache alone.                        *)
THEOREM NoStallHolds ==
  ASSUME DigestSound, PromptsFit
  PROVE  SchedSpec => []NoStall
<1> DEFINE Moves == JInv /\ PromptSizes /\ Progress
<1>1. SchedInit => Moves
  <2>1. SchedInit => Progress
    BY DEF SchedInit, Progress
  <2>2. SchedInit => PromptSizes
    BY DEF SchedInit, Init, PromptSizes
  <2> QED
    BY <2>1, <2>2, InitJInv
<1>2. Moves /\ [SchedNext]_schedVars => Moves'
  <2> SUFFICES ASSUME JInv, PromptSizes, Progress, [SchedNext]_schedVars
               PROVE  JInv' /\ PromptSizes' /\ Progress'
    OBVIOUS
  <2>1. IInv /\ SInv /\ TypeOK
    BY DEF JInv, IInv
  <2>2. JInv' /\ [Next]_vars
    BY NextJInv
  <2>3. PromptSizes'
    BY <2>1, <2>2, PromptSizesStep
  <2>4. Progress'
    BY <2>1, StepProgress
  <2> QED
    BY <2>2, <2>3, <2>4
<1>3. Moves => NoStall
  BY DEF Progress, NoStall
<1> QED
  BY <1>1, <1>2, <1>3, PTL DEF SchedSpec
=============================================================================
