------------------------- MODULE TensorParallelProofs -------------------------
(***************************************************************************)
(* Proofs about TensorParallel, for every number of ranks, of collectives  *)
(* in a run and of calls.                                                  *)
(*                                                                         *)
(* The argument.  Every rank launches the collectives of its calls in one  *)
(* order, so that what it has launched is known from the call it is in and *)
(* its place there (Lengths, Numbered).  Rank 0's stream is never ahead of *)
(* what another rank has launched (ZeroIsLast); when rank 0 returns from a *)
(* run it has waited for its stream, so every worker has launched a        *)
(* collective of that run, hence has read the call and cleared its event:  *)
(* the buffer may be written again (Received).                             *)
(***************************************************************************)
EXTENDS TensorParallel, TLAPS

(* Where rank 0 and where a worker can be.                                 *)
ZeroPlaces ==
  {"run", "create", "barrier", "meet", "idle", "writeLength", "writeData",
   "signal", "close", "unlink", "join", "ended"}
WorkerPlaces ==
  {"run", "barrier", "meet", "open", "wait", "readData", "clear", "close", "ended"}

(* The number of the call a rank is in.                                    *)
Nth(r) == IF r = 0 THEN Len(calls) ELSE Len(got[r])

Leaves(r) == Nth(r) > 0 /\ calls[Nth(r)] = "exit"

(* The collectives of call i, and of the calls before it.                  *)
CallLength(i) == IF i = 0 THEN AllReduces + 2 ELSE AllReduces + 1
Start(i) == IF i = 0 THEN 0 ELSE i * (AllReduces + 1) + 1

(* Those a rank has launched for the call it is in.                        *)
InCall(r) ==
  CASE pc[r] = "run" -> step[r]
    [] pc[r] \in {"writeLength", "writeData", "signal", "clear", "close"} -> 0
    [] pc[r] \in {"create"} -> AllReduces + 1
    [] pc[r] = "barrier" -> (IF Nth(r) = 0 THEN AllReduces + 1 ELSE 0)
    [] pc[r] = "meet" -> (IF Nth(r) = 0 THEN AllReduces + 2 ELSE 1)
    [] pc[r] \in {"unlink", "join", "ended"} -> 1
    [] OTHER -> CallLength(Nth(r))

-----------------------------------------------------------------------------
(* The inductive invariant.                                                *)

(* Nothing is called after exit.                                           *)
ExitIsLast == \A i \in 1 .. Len(calls) - 1 : calls[i] = "run"

ZeroPlaced ==
  /\ pc[0] \in ZeroPlaces
  /\ pc[0] = "create" => Len(calls) = 0
  /\ pc[0] \in {"writeLength", "writeData", "signal"} => Len(calls) > 0
  /\ pc[0] \in {"close", "unlink", "join", "ended"} => Leaves(0)
  /\ pc[0] \in {"run", "idle"} => ~Leaves(0)
  /\ pc[0] \in {"barrier", "meet"} => Len(calls) = 0 \/ Leaves(0)
  /\ pc[0] = "run" => step[0] <= AllReduces + 1
  /\ pc[0] = "signal" => step[0] < TPSize - 1

WorkerPlaced(w) ==
  /\ pc[w] \in WorkerPlaces
  /\ pc[w] = "open" => Len(got[w]) = 0
  /\ pc[w] = "clear" => Len(got[w]) > 0
  /\ pc[w] \in {"close", "ended"} => Leaves(w)
  /\ pc[w] \in {"run", "open", "wait", "readData"} => ~Leaves(w)
  /\ pc[w] \in {"barrier", "meet"} => Len(got[w]) = 0 \/ Leaves(w)
  /\ pc[w] = "run" => step[w] <= AllReduces + 1

(* A worker that has all the calls; one that lacks the last one and is not *)
(* told yet; one that is told; one that has read it and not cleared.       *)
UpToDate(w) ==
  ~event[w] /\ Len(got[w]) = Len(calls) /\ pc[w] \notin {"readData", "clear"}
Untold(w) ==
  ~event[w] /\ Len(got[w]) + 1 = Len(calls) /\ pc[w] \notin {"readData", "clear"}
Told(w) ==
  /\ event[w] /\ Len(got[w]) + 1 = Len(calls) /\ pc[w] # "clear"
  /\ pc[w] = "readData" => lenRead[w] = Len(calls)
HasRead(w) ==
  event[w] /\ Len(got[w]) = Len(calls) /\ pc[w] = "clear"

Reached(w) == Told(w) \/ HasRead(w) \/ UpToDate(w)

Written == shmLen = Len(calls) /\ shmData = Len(calls)

InOrder(w) == \A i \in 1 .. Len(got[w]) : got[w][i] = i

Received(w) ==
  /\ InOrder(w)
  /\ Len(calls) = 0 \/ pc[0] = "idle" => UpToDate(w)
  /\ pc[0] \in {"writeLength", "writeData"} => Untold(w)
  /\ pc[0] = "signal" /\ w > step[0] => Untold(w)
  /\ pc[0] = "signal" /\ w <= step[0] => Reached(w)
  /\ Len(calls) > 0 /\ pc[0] \notin {"idle", "writeLength", "writeData", "signal"}
       => Reached(w)

BufferWritten ==
  /\ pc[0] = "writeData" => shmLen = Len(calls)
  /\ Len(calls) > 0 /\ pc[0] \notin {"writeLength", "writeData"} => Written

Lengths == \A r \in Ranks : Len(launched[r]) = Start(Nth(r)) + InCall(r)

(* The k-th collective is number j of call i exactly when k says so.       *)
Numbered ==
  \A r \in Ranks : \A k \in 1 .. Len(launched[r]) :
    /\ launched[r][k][2] \in 1 .. CallLength(launched[r][k][1])
    /\ k = Start(launched[r][k][1]) + launched[r][k][2]

ZeroIsLast == \A q \in Ranks : done[0] <= Len(launched[q])

(* A worker past the first barrier knows all ranks have come to it.        *)
FirstBarrier ==
  /\ \A w \in Workers : \A q \in Ranks :
       done[w] >= Start(1) => Len(launched[q]) >= Start(1)
  /\ \A w \in Workers : pc[w] = "open" => Len(launched[0]) >= Start(1)
  /\ pc[0] \in {"unlink", "join", "ended"} => done[0] = Len(launched[0])

Memory ==
  /\ named <=> ~ \/ pc[0] = "run" /\ Len(calls) = 0
                 \/ pc[0] \in {"create", "join", "ended"}
  /\ 0 \in mapped <=> ~ \/ pc[0] = "run" /\ Len(calls) = 0
                        \/ pc[0] \in {"create", "unlink", "join", "ended"}
                        \/ pc[0] \in {"barrier", "meet"} /\ Len(calls) > 0
  /\ \A w \in Workers :
       /\ pc[w] = "run" => (w \in mapped <=> Len(got[w]) > 0)
       /\ pc[w] \in {"wait", "readData", "clear"} => w \in mapped
       /\ pc[w] = "ended" => w \notin mapped
       /\ pc[w] \in {"barrier", "meet"} => w \notin mapped
  /\ pc[0] = "ended" => \A w \in Workers : pc[w] = "ended"

TPInv ==
  /\ TPTypeOK
  /\ ExitIsLast
  /\ ZeroPlaced
  /\ \A w \in Workers : WorkerPlaced(w)
  /\ \A w \in Workers : Received(w)
  /\ BufferWritten
  /\ Lengths
  /\ Numbered
  /\ ZeroIsLast
  /\ FirstBarrier
  /\ Memory

-----------------------------------------------------------------------------
(* Facts about the constants and the numbering.                            *)

USE TPSizeAssumption, AllReducesAssumption

(* Numbers of collectives are numbers.                                     *)
LEMMA StartNat == ASSUME NEW i \in Nat PROVE Start(i) \in Nat
  <1>1. i * (AllReduces + 1) \in Nat
    OBVIOUS
  <1>. QED
    BY <1>1 DEF Start

LEMMA StartZero == Start(0) = 0 /\ Start(1) = AllReduces + 2
  BY DEF Start

(* A call starts where the one before it ends.                             *)
LEMMA StartNext ==
  ASSUME NEW i \in Nat
  PROVE  Start(i + 1) = Start(i) + CallLength(i)
  <1>1. CASE i = 0
    BY <1>1 DEF Start, CallLength
  <1>2. CASE i # 0
    <2>1. (i + 1) * (AllReduces + 1) = i * (AllReduces + 1) + AllReduces + 1
      OBVIOUS
    <2>. QED
      BY <1>2, <2>1 DEF Start, CallLength
  <1>. QED
    BY <1>1, <1>2

LEMMA StartOrdered ==
  ASSUME NEW i \in Nat, NEW j \in Nat, i < j
  PROVE  Start(i + 1) <= Start(j)
  <1>1. PICK d \in Nat : j = i + 1 + d
    <2>1. j - (i + 1) \in Nat
      OBVIOUS
    <2>. QED
      BY <2>1
  <1>2. d * (AllReduces + 1) \in Nat
    OBVIOUS
  <1>3. j * (AllReduces + 1) = (i + 1) * (AllReduces + 1) + d * (AllReduces + 1)
    BY <1>1
  <1>. QED
    BY <1>1, <1>2, <1>3 DEF Start

(* So that a number belongs to one call.                                   *)
LEMMA StartUnique ==
  ASSUME NEW i \in Nat, NEW j \in 1 .. CallLength(i),
         NEW m \in Nat, NEW n \in 1 .. CallLength(m),
         Start(i) + j = Start(m) + n
  PROVE  i = m /\ j = n
  <1>1. Start(i) \in Nat /\ Start(m) \in Nat
    BY StartNat
  <1>2. CallLength(i) \in Nat /\ CallLength(m) \in Nat
    BY DEF CallLength
  <1>3. ~(i < m)
    <2>1. SUFFICES ASSUME i < m PROVE FALSE
      OBVIOUS
    <2>2. Start(i) + CallLength(i) <= Start(m)
      BY <2>1, StartOrdered, StartNext
    <2>. QED
      BY <1>1, <1>2, <2>2
  <1>4. ~(m < i)
    <2>1. SUFFICES ASSUME m < i PROVE FALSE
      OBVIOUS
    <2>2. Start(m) + CallLength(m) <= Start(i)
      BY <2>1, StartOrdered, StartNext
    <2>. QED
      BY <1>1, <1>2, <2>2
  <1>5. i = m
    BY <1>3, <1>4
  <1>. QED
    BY <1>1, <1>2, <1>5

-----------------------------------------------------------------------------
(* What the invariant says of a rank.                                      *)

LEMMA NthNat ==
  ASSUME TPTypeOK, NEW r \in Ranks
  PROVE  Nth(r) \in Nat
  <1>1. CASE r = 0
    BY <1>1 DEF TPTypeOK, Nth
  <1>2. CASE r # 0
    <2>1. got[r] \in Seq(1 .. Len(calls))
      BY <1>2 DEF TPTypeOK, Ranks, Workers
    <2>. QED
      BY <1>2, <2>1 DEF Nth
  <1>. QED
    BY <1>1, <1>2

LEMMA CurrentIsNth ==
  ASSUME TPTypeOK, \A w \in Workers : InOrder(w), NEW r \in Ranks
  PROVE  /\ Current(r) = Nth(r)
         /\ Exiting(r) <=> Leaves(r)
  <1>1. CASE r = 0
    BY <1>1 DEF TPTypeOK, Current, Nth, Exiting, Leaves
  <1>2. CASE r # 0
    <2>1. r \in Workers
      BY <1>2 DEF Ranks, Workers
    <2>2. got[r] \in Seq(1 .. Len(calls))
      BY <2>1 DEF TPTypeOK
    <2>3. InOrder(r)
      BY <2>1
    <2>4. Current(r) = Nth(r)
      BY <1>2, <2>2, <2>3 DEF Current, Nth, InOrder
    <2>. QED
      BY <2>4 DEF Exiting, Leaves
  <1>. QED
    BY <1>1, <1>2

LEMMA InCallNat ==
  ASSUME TPTypeOK, NEW r \in Ranks
  PROVE  InCall(r) \in Nat
  <1>1. step[r] \in Nat /\ AllReduces + 1 \in Nat /\ AllReduces + 2 \in Nat
    BY DEF TPTypeOK
  <1>. QED
    BY <1>1 DEF InCall, CallLength

-----------------------------------------------------------------------------
(* What is launched only grows.                                            *)

(* r launches the next collective of the call it is in.                    *)
LaunchesNext(r) ==
  /\ launched' = [launched EXCEPT ![r] = Append(@, <<Nth(r), InCall(r) + 1>>)]
  /\ InCall(r) < CallLength(Nth(r))

LEMMA LaunchLengths ==
  ASSUME TPTypeOK, NEW r \in Ranks, LaunchesNext(r)
  PROVE  /\ launched' \in [Ranks -> Seq(Nat \X Nat)]
         /\ Len(launched'[r]) = Len(launched[r]) + 1
         /\ \A q \in Ranks \ {r} : launched'[q] = launched[q]
  <1>1. launched \in [Ranks -> Seq(Nat \X Nat)]
    BY DEF TPTypeOK
  <1>2. <<Nth(r), InCall(r) + 1>> \in Nat \X Nat
    BY NthNat, InCallNat
  <1>3. launched[r] \in Seq(Nat \X Nat)
    BY <1>1
  <1>4. Append(launched[r], <<Nth(r), InCall(r) + 1>>) \in Seq(Nat \X Nat)
    BY <1>2, <1>3
  <1>5. Len(Append(launched[r], <<Nth(r), InCall(r) + 1>>)) = Len(launched[r]) + 1
    BY <1>2, <1>3
  <1>6. \A q \in Ranks : Len(launched[q]) \in Nat
    BY <1>1
  <1>. QED
    BY <1>1, <1>4, <1>5, <1>6 DEF LaunchesNext

LEMMA LaunchNumbered ==
  ASSUME TPTypeOK, Lengths, Numbered, NEW r \in Ranks, LaunchesNext(r)
  PROVE  Numbered'
  <1>1. launched \in [Ranks -> Seq(Nat \X Nat)]
    BY DEF TPTypeOK
  <1>2. SUFFICES ASSUME NEW q \in Ranks, NEW k \in 1 .. Len(launched'[q])
                 PROVE  /\ launched'[q][k][2] \in 1 .. CallLength(launched'[q][k][1])
                        /\ k = Start(launched'[q][k][1]) + launched'[q][k][2]
    BY DEF Numbered, CallLength, Start
  <1>3. CASE q # r
    <2>1. launched'[q] = launched[q]
      BY <1>1, <1>3 DEF LaunchesNext
    <2>. QED
      BY <2>1 DEF Numbered
  <1>4. CASE q = r /\ k \in 1 .. Len(launched[r])
    <2>1. launched'[q] = Append(launched[r], <<Nth(r), InCall(r) + 1>>)
      BY <1>1, <1>4 DEF LaunchesNext
    <2>2. launched[r] \in Seq(Nat \X Nat)
      BY <1>1
    <2>3. launched'[q][k] = launched[r][k]
      BY <1>4, <2>1, <2>2
    <2>. QED
      BY <1>4, <2>3 DEF Numbered
  <1>5. CASE q = r /\ k \notin 1 .. Len(launched[r])
    <2>1. launched'[q] = Append(launched[r], <<Nth(r), InCall(r) + 1>>)
      BY <1>1, <1>5 DEF LaunchesNext
    <2>2. launched[r] \in Seq(Nat \X Nat)
      BY <1>1
    <2>3. k = Len(launched[r]) + 1
      BY <1>5, <2>1, <2>2
    <2>4. launched'[q][k] = <<Nth(r), InCall(r) + 1>>
      BY <2>1, <2>2, <2>3
    <2>5. Nth(r) \in Nat /\ InCall(r) \in Nat /\ Start(Nth(r)) \in Nat
      BY NthNat, InCallNat, StartNat
    <2>6. Len(launched[r]) = Start(Nth(r)) + InCall(r)
      BY DEF Lengths
    <2>7. InCall(r) + 1 \in 1 .. CallLength(Nth(r))
      BY <2>5 DEF LaunchesNext, CallLength
    <2>8. k = Start(Nth(r)) + (InCall(r) + 1)
      BY <2>3, <2>5, <2>6
    <2>. QED
      BY <2>4, <2>7, <2>8
  <1>. QED
    BY <1>3, <1>4, <1>5

(* Then no stream is behind the others.                                    *)
LEMMA LaunchOrder ==
  ASSUME TPInv, NEW r \in Ranks, LaunchesNext(r), UNCHANGED done
  PROVE  /\ ZeroIsLast'
         /\ \A w \in Workers : \A q \in Ranks :
              (done[w] >= Start(1) => Len(launched[q]) >= Start(1))'
         /\ \A q \in Ranks : done'[q] <= Len(launched'[q])
  <1>1. /\ Len(launched'[r]) = Len(launched[r]) + 1
        /\ \A q \in Ranks \ {r} : launched'[q] = launched[q]
    BY LaunchLengths DEF TPInv
  <1>2. /\ launched \in [Ranks -> Seq(Nat \X Nat)]
        /\ done \in [Ranks -> Nat]
        /\ \A q \in Ranks : done[q] <= Len(launched[q])
    BY DEF TPInv, TPTypeOK
  <1>3. \A q \in Ranks : Len(launched[q]) \in Nat /\ Len(launched'[q]) >= Len(launched[q])
    <2>1. TAKE q \in Ranks
    <2>2. launched[q] \in Seq(Nat \X Nat)
      BY <1>2
    <2>3. Len(launched[q]) \in Nat
      BY <2>2
    <2>. QED
      BY <1>1, <2>3
  <1>4. Start(1) = AllReduces + 2 /\ Start(1)' = Start(1)
    BY StartZero DEF Start
  <1>5. 0 \in Ranks /\ Workers \subseteq Ranks
    BY DEF Ranks, Workers
  <1>6. ZeroIsLast'
    BY <1>1, <1>2, <1>3, <1>5 DEF TPInv, ZeroIsLast
  <1>7. \A w \in Workers : \A q \in Ranks :
          (done[w] >= Start(1) => Len(launched[q]) >= Start(1))'
    <2>1. TAKE w \in Workers
    <2>2. TAKE q \in Ranks
    <2>3. done[w] >= Start(1) => Len(launched[q]) >= Start(1)
      BY DEF TPInv, FirstBarrier
    <2>4. Len(launched[q]) \in Nat /\ Len(launched'[q]) >= Len(launched[q])
      BY <1>3
    <2>5. Len(launched'[q]) \in Nat
      BY <1>1, <1>3, <2>4
    <2>. QED
      BY <1>4, <2>3, <2>4, <2>5
  <1>. QED
    BY <1>2, <1>3, <1>6, <1>7

-----------------------------------------------------------------------------
(* More of the same.                                                       *)

LEMMA Types ==
  ASSUME TPTypeOK
  PROVE  /\ 0 \in Ranks /\ 0 \notin Workers /\ Workers \subseteq Ranks
         /\ pc \in [Ranks -> Places] /\ step \in [Ranks -> Nat]
         /\ event \in [Workers -> BOOLEAN] /\ lenRead \in [Workers -> Nat]
         /\ got \in [Workers -> Seq(1 .. Len(calls))]
         /\ Len(calls) \in Nat
         /\ \A w \in Workers : Len(got[w]) \in Nat
  <1>1. \A w \in Workers : Len(got[w]) \in Nat
    <2>1. TAKE w \in Workers
    <2>2. got[w] \in Seq(1 .. Len(calls))
      BY DEF TPTypeOK
    <2>. QED
      BY <2>2
  <1>2. Len(calls) \in Nat
    BY DEF TPTypeOK
  <1>3. 0 \in Ranks /\ 0 \notin Workers /\ Workers \subseteq Ranks
    BY DEF Ranks, Workers
  <1>. QED
    BY <1>1, <1>2, <1>3 DEF TPTypeOK

(* A process takes a step that launches and completes nothing.             *)
LEMMA StreamsStay ==
  ASSUME TPInv, UNCHANGED streamVars
  PROVE  /\ Numbered' /\ ZeroIsLast'
         /\ \A w \in Workers : \A q \in Ranks :
              (done[w] >= Start(1) => Len(launched[q]) >= Start(1))'
  BY DEF TPInv, Numbered, CallLength, Start, ZeroIsLast, FirstBarrier, streamVars

(* What a rank does next depends on the number of its call.                *)
LEMMA CurrentZero == Current(0) = Len(calls) /\ (Exiting(0) <=> Leaves(0))
  BY DEF Current, Exiting, Leaves, Nth

LEMMA LaunchedNat ==
  ASSUME TPTypeOK, NEW r \in Ranks
  PROVE  /\ launched[r] \in Seq(Nat \X Nat)
         /\ Len(launched[r]) \in Nat
         /\ done[r] \in Nat /\ done[r] <= Len(launched[r])
  <1>1. launched[r] \in Seq(Nat \X Nat)
    BY DEF TPTypeOK
  <1>2. Len(launched[r]) \in Nat
    BY <1>1
  <1>. QED
    BY <1>1, <1>2 DEF TPTypeOK

LEMMA SeqWider ==
  ASSUME NEW A, NEW B, A \subseteq B, NEW s \in Seq(A)
  PROVE  s \in Seq(B)
  OBVIOUS

LEMMA InCallBound ==
  ASSUME TPInv, NEW r \in Ranks
  PROVE  InCall(r) <= CallLength(Nth(r))
  <1>1. Nth(r) \in Nat
    BY NthNat DEF TPInv
  <1>2. pc[r] = "run" => step[r] <= AllReduces + 1
    BY DEF TPInv, ZeroPlaced, WorkerPlaced, Ranks, Workers
  <1>3. pc[r] = "create" => Nth(r) = 0
    BY DEF TPInv, ZeroPlaced, WorkerPlaced, WorkerPlaces, Ranks, Workers, Nth
  <1>4. step[r] \in Nat
    BY DEF TPInv, TPTypeOK
  <1>. QED
    BY <1>1, <1>2, <1>3, <1>4 DEF InCall, CallLength

(* When rank 0 has sampled, every worker has read the call.                *)
LEMMA AllUpToDate ==
  ASSUME TPInv, pc[0] = "run", step[0] > AllReduces, Synchronized(0)
  PROVE  \A w \in Workers : UpToDate(w)
  <1>. USE Types DEF TPInv
  <1>1. CASE Len(calls) = 0
    BY <1>1 DEF Received
  <1>2. CASE Len(calls) # 0
    <2>1. TAKE w \in Workers
    <2>. DEFINE n == Len(calls)
    <2>2. n \in Nat /\ n > 0 /\ w \in Ranks /\ w # 0
      BY <1>2
    <2>3. step[0] = AllReduces + 1
      BY DEF ZeroPlaced
    <2>4. Len(launched[0]) = Start(n) + AllReduces + 1
      <3>1. Nth(0) = n /\ InCall(0) = AllReduces + 1
        BY <2>3 DEF Nth, InCall
      <3>2. Start(n) \in Nat
        BY <2>2, StartNat
      <3>. QED
        BY <3>1, <3>2 DEF Lengths
    <2>5. Len(launched[w]) >= Start(n) + AllReduces + 1
      BY <2>2, <2>4 DEF Synchronized, ZeroIsLast
    <2>6. Reached(w)
      BY <1>2 DEF Received
    <2>7. ~Told(w)
      <3>1. SUFFICES ASSUME Told(w) PROVE FALSE
        OBVIOUS
      <3>2. Nth(w) = n - 1 /\ n - 1 \in Nat
        BY <2>2, <3>1 DEF Told, Nth
      <3>3. Len(launched[w]) = Start(n - 1) + InCall(w)
        BY <2>2, <3>2 DEF Lengths
      <3>4. InCall(w) <= CallLength(n - 1)
        BY <2>2, <3>2, InCallBound
      <3>5. Start(n) = Start(n - 1) + CallLength(n - 1)
        BY <3>2, StartNext, (n - 1) + 1 = n
      <3>6. Start(n - 1) \in Nat /\ InCall(w) \in Nat /\ CallLength(n - 1) \in Nat
        BY <2>2, <3>2, StartNat, InCallNat DEF CallLength
      <3>. QED
        BY <2>5, <3>3, <3>4, <3>5, <3>6
    <2>8. ~HasRead(w)
      <3>1. SUFFICES ASSUME HasRead(w) PROVE FALSE
        OBVIOUS
      <3>2. Nth(w) = n /\ InCall(w) = 0
        BY <2>2, <3>1 DEF HasRead, Nth, InCall
      <3>3. Len(launched[w]) = Start(n) + 0
        BY <2>2, <3>2 DEF Lengths
      <3>4. Start(n) \in Nat
        BY <2>2, StartNat
      <3>. QED
        BY <2>5, <3>3, <3>4
    <2>. QED
      BY <2>6, <2>7, <2>8 DEF Reached
  <1>. QED
    BY <1>1, <1>2

(* A worker whose event is set and that has not read finds the last call.  *)
LEMMA FindsLast ==
  ASSUME TPInv, NEW w \in Workers, event[w] \/ pc[w] = "readData", pc[w] # "clear"
  PROVE  /\ Told(w) /\ Written /\ Len(calls) > 0
         /\ pc[0] \notin {"idle", "writeLength", "writeData"}
         /\ pc[0] = "signal" => w <= step[0]
  <1>. USE Types DEF TPInv
  <1>1. ~UpToDate(w) /\ ~Untold(w) /\ ~HasRead(w)
    BY DEF UpToDate, Untold, HasRead
  <1>2. Len(calls) > 0 /\ pc[0] \notin {"idle", "writeLength", "writeData"}
    BY <1>1 DEF Received
  <1>3. pc[0] = "signal" => w <= step[0]
    <2>1. w \in Int /\ step[0] \in Int
      BY DEF Workers
    <2>. QED
      BY <1>1, <2>1 DEF Received
  <1>4. Reached(w)
    BY <1>2, <1>3 DEF Received
  <1>. QED
    BY <1>1, <1>2, <1>3, <1>4 DEF Reached, BufferWritten

-----------------------------------------------------------------------------
(* Every action keeps the invariant.                                      *)

LEMMA LaunchCollectivePreserves ==
  ASSUME TPInv, NEW r \in Ranks, LaunchCollective(r)
  PROVE  TPInv'
  <1>. USE Types DEF TPInv
  <1>. LaunchesNext(r)
    <2>1. Current(r) = Nth(r) /\ Nth(r) \in Nat /\ step[r] \in Nat
      BY CurrentIsNth, NthNat DEF Received
    <2>2. InCall(r) = step[r] /\ step[r] < CallLength(Nth(r))
      BY <2>1 DEF LaunchCollective, InCall, CallLength
    <2>. QED
      BY <2>1, <2>2 DEF LaunchCollective, Launch, LaunchesNext
  <1>1. TPTypeOK'
    <2>1. launched' \in [Ranks -> Seq(Nat \X Nat)]
      BY LaunchLengths
    <2>2. \A q \in Ranks : done'[q] <= Len(launched'[q])
      BY LaunchOrder DEF LaunchCollective, streamVars
    <2>3. pc' \in [Ranks -> Places] /\ step' \in [Ranks -> Nat]
      BY DEF TPTypeOK, Places, LaunchCollective, Goto
    <2>4. UNCHANGED <<calls, shmVars, workerVars, done>>
      BY DEF LaunchCollective
    <2>. QED
      BY <2>1, <2>2, <2>3, <2>4 DEF TPTypeOK, shmVars, workerVars
  <1>2. ExitIsLast' /\ ZeroPlaced'
    BY DEF ExitIsLast, ZeroPlaced, ZeroPlaces, WorkerPlaced, WorkerPlaces, Leaves,
       Nth,
           LaunchCollective, Goto, shmVars, workerVars, streamVars, Launch
  <1>3. \A w \in Workers : WorkerPlaced(w)'
    BY CurrentIsNth DEF WorkerPlaced, WorkerPlaces, ZeroPlaced, ZeroPlaces,
       Received, Leaves, Nth,
           LaunchCollective, Goto, shmVars, workerVars, streamVars, Launch
  <1>4. \A w \in Workers : Received(w)'
    BY DEF Received, InOrder, UpToDate, Reached, Untold, Told, HasRead,
       WorkerPlaced, WorkerPlaces, ZeroPlaced, ZeroPlaces,
           Nth,
           LaunchCollective, Goto, shmVars, workerVars, streamVars, Launch
  <1>5. BufferWritten'
    BY DEF BufferWritten, Written, WorkerPlaced, WorkerPlaces, ZeroPlaced,
       ZeroPlaces, Nth,
           LaunchCollective, Goto, shmVars, workerVars, streamVars, Launch
  <1>6. Lengths'
    <2>1. SUFFICES ASSUME NEW q \in Ranks
                   PROVE  Len(launched'[q]) = Start(Nth(q))' + InCall(q)'
      BY DEF Lengths
    <2>2. Nth(q)' = Nth(q) /\ Start(Nth(q))' = Start(Nth(q))
      BY DEF LaunchCollective, workerVars, Nth, Start
    <2>3. Len(launched[q]) = Start(Nth(q)) + InCall(q)
      BY DEF Lengths
    <2>4. Nth(q) \in Nat /\ Start(Nth(q)) \in Nat /\ InCall(q) \in Nat
      BY NthNat, StartNat, InCallNat
    <2>5. CASE q # r
      <3>1. InCall(q)' = InCall(q)
        BY <2>2, <2>5 DEF LaunchCollective, Goto, InCall, CallLength
      <3>. QED
        BY <2>2, <2>3, <2>5, <3>1, LaunchLengths
    <2>6. CASE q = r
      <3>1. InCall(q)' = InCall(q) + 1
        BY <2>2, <2>4, <2>6 DEF LaunchCollective, Goto, InCall, CallLength
      <3>. QED
        BY <2>2, <2>3, <2>4, <2>6, <3>1, LaunchLengths
    <2>. QED
      BY <2>5, <2>6
  <1>7. Numbered' /\ ZeroIsLast'
    BY LaunchNumbered, LaunchOrder DEF LaunchCollective
  <1>8. FirstBarrier'
    <2>1. Len(launched'[0]) >= Len(launched[0]) /\ Len(launched[0]) \in Nat /\ Len(launched'[0]) \in Nat
      <3>1. Len(launched[0]) \in Nat
        BY LaunchedNat
      <3>2. CASE r = 0
        <4>1. Len(launched'[0]) = Len(launched[0]) + 1
          BY <3>2, LaunchLengths
        <4>. QED
          BY <3>1, <4>1
      <3>3. CASE r # 0
        <4>1. launched'[0] = launched[0]
          BY <3>3, LaunchLengths
        <4>. QED
          BY <3>1, <4>1
      <3>. QED
        BY <3>2, <3>3
    <2>2. pc[0] \in {"unlink", "join", "ended"} => launched'[0] = launched[0]
      BY LaunchLengths DEF LaunchCollective
    <2>3. Start(1)' = Start(1) /\ Start(1) \in Nat
      BY StartZero DEF Start
    <2>4. \A w \in Workers : pc'[w] = "open" => Len(launched'[0]) >= Start(1)
      BY <2>1, <2>3 DEF FirstBarrier, LaunchCollective, Goto
    <2>5. \A w \in Workers : \A q \in Ranks :
            (done[w] >= Start(1) => Len(launched[q]) >= Start(1))'
      BY LaunchOrder DEF LaunchCollective
    <2>6. pc'[0] \in {"unlink", "join", "ended"} => done'[0] = Len(launched'[0])
      BY <2>2 DEF FirstBarrier, LaunchCollective, Goto
    <2>. QED
      BY <2>3, <2>4, <2>5, <2>6 DEF FirstBarrier
  <1>9. Memory'
    BY DEF Memory, WorkerPlaced, WorkerPlaces, ZeroPlaced, ZeroPlaces, Leaves,
       Nth,
           LaunchCollective, Goto, shmVars, workerVars, streamVars, Launch
  <1>. QED
    BY <1>1, <1>2, <1>3, <1>4, <1>5, <1>6, <1>7, <1>8, <1>9

LEMMA RunReturnsPreserves ==
  ASSUME TPInv, RunReturns
  PROVE  TPInv'
  <1>. USE Types DEF TPInv
  <1>. \A w \in Workers : UpToDate(w)
    BY AllUpToDate DEF RunReturns
  <1>. pc' = [pc EXCEPT ![0] = IF Len(calls) = 0 THEN "create" ELSE "idle"]
    BY CurrentZero DEF RunReturns, Goto
  <1>1. TPTypeOK'
    BY DEF TPTypeOK, Places,
           RunReturns, Goto, shmVars, workerVars, streamVars
  <1>2. ExitIsLast' /\ ZeroPlaced'
    <2>1. CASE Len(calls) = 0
      BY <2>1 DEF ExitIsLast, ZeroPlaced, ZeroPlaces, Leaves, Nth, RunReturns
    <2>2. CASE Len(calls) # 0
      BY <2>2 DEF ExitIsLast, ZeroPlaced, ZeroPlaces, Leaves, Nth, RunReturns
    <2>. QED
      BY <2>1, <2>2
  <1>3. \A w \in Workers : WorkerPlaced(w)'
    BY CurrentIsNth DEF WorkerPlaced, WorkerPlaces, ZeroPlaced, ZeroPlaces,
       Received, Leaves, Nth,
           RunReturns, Goto, shmVars, workerVars, streamVars
  <1>4. \A w \in Workers : Received(w)'
    <2>1. SUFFICES ASSUME NEW w \in Workers PROVE Received(w)'
      OBVIOUS
    <2>2. UpToDate(w)' /\ InOrder(w)'
      BY DEF UpToDate, InOrder, Received, RunReturns, workerVars
    <2>3. pc'[0] \in {"create", "idle"} /\ (pc'[0] = "create" => Len(calls') = 0)
      BY DEF RunReturns
    <2>. QED
      BY <2>2, <2>3 DEF Received, Reached
  <1>5. BufferWritten'
    BY DEF BufferWritten, Written, WorkerPlaced, WorkerPlaces, ZeroPlaced,
       ZeroPlaces, Nth,
           RunReturns, Goto, shmVars, workerVars, streamVars
  <1>6. Lengths'
    BY CurrentIsNth DEF Lengths, Received, InCall, Nth, CallLength, WorkerPlaced,
       WorkerPlaces, ZeroPlaced, ZeroPlaces,
           RunReturns, Goto, shmVars, workerVars, streamVars
  <1>7. Numbered' /\ ZeroIsLast'
    BY StreamsStay DEF RunReturns, Goto, shmVars, workerVars, streamVars
  <1>8. FirstBarrier'
    BY StreamsStay, StartZero DEF FirstBarrier, WorkerPlaced, WorkerPlaces,
       ZeroPlaced, ZeroPlaces,
           RunReturns, Goto, shmVars, workerVars, streamVars
  <1>9. Memory'
    <2>1. UNCHANGED <<named, mapped, calls, got>> /\ pc[0] = "run"
      BY DEF RunReturns, shmVars, workerVars
    <2>2. \A w \in Workers : pc'[w] = pc[w]
      OBVIOUS
    <2>3. pc'[0] = IF Len(calls) = 0 THEN "create" ELSE "idle"
      OBVIOUS
    <2>4. CASE Len(calls) = 0
      BY <2>1, <2>2, <2>3, <2>4 DEF Memory
    <2>5. CASE Len(calls) # 0
      BY <2>1, <2>2, <2>3, <2>5 DEF Memory
    <2>. QED
      BY <2>4, <2>5
  <1>. QED
    BY <1>1, <1>2, <1>3, <1>4, <1>5, <1>6, <1>7, <1>8, <1>9

LEMMA WorkerRunReturnsPreserves ==
  ASSUME TPInv, NEW u \in Workers, WorkerRunReturns(u)
  PROVE  TPInv'
  <1>. USE Types DEF TPInv
  <1>. pc' = [pc EXCEPT ![u] = IF Len(got[u]) = 0 THEN "barrier" ELSE "wait"]
    <2>1. Current(u) = Len(got[u])
      BY CurrentIsNth DEF Received, Nth
    <2>. QED
      BY <2>1 DEF WorkerRunReturns, Goto
  <1>1. TPTypeOK'
    BY DEF TPTypeOK, Places,
           WorkerRunReturns, Goto, shmVars, workerVars, streamVars
  <1>2. ExitIsLast' /\ ZeroPlaced'
    BY DEF ExitIsLast, ZeroPlaced, ZeroPlaces, WorkerPlaced, WorkerPlaces, Leaves,
       Nth,
           WorkerRunReturns, Goto, shmVars, workerVars, streamVars
  <1>3. \A w \in Workers : WorkerPlaced(w)'
    BY CurrentIsNth DEF WorkerPlaced, WorkerPlaces, ZeroPlaced, ZeroPlaces,
       Received, Leaves, Nth,
           WorkerRunReturns, Goto, shmVars, workerVars, streamVars
  <1>4. \A w \in Workers : Received(w)'
    BY DEF Received, InOrder, UpToDate, Reached, Untold, Told, HasRead,
       WorkerPlaced, WorkerPlaces, ZeroPlaced, ZeroPlaces,
           Nth,
           WorkerRunReturns, Goto, shmVars, workerVars, streamVars
  <1>5. BufferWritten'
    BY DEF BufferWritten, Written, WorkerPlaced, WorkerPlaces, ZeroPlaced,
       ZeroPlaces, Nth,
           WorkerRunReturns, Goto, shmVars, workerVars, streamVars
  <1>6. Lengths'
    BY CurrentIsNth DEF Lengths, Received, InCall, Nth, CallLength, WorkerPlaced,
       WorkerPlaces, ZeroPlaced, ZeroPlaces,
           WorkerRunReturns, Goto, shmVars, workerVars, streamVars
  <1>7. Numbered' /\ ZeroIsLast'
    BY StreamsStay DEF WorkerRunReturns, Goto, shmVars, workerVars, streamVars
  <1>8. FirstBarrier'
    BY StreamsStay, StartZero DEF FirstBarrier, WorkerPlaced, WorkerPlaces,
       ZeroPlaced, ZeroPlaces,
           WorkerRunReturns, Goto, shmVars, workerVars, streamVars
  <1>9. Memory'
    <2>1. UNCHANGED <<named, mapped, calls, got>> /\ pc'[0] = pc[0] /\ pc[u] = "run"
      BY DEF WorkerRunReturns, shmVars, workerVars
    <2>2. \A w \in Workers \ {u} : pc'[w] = pc[w]
      OBVIOUS
    <2>3. pc'[u] = IF Len(got[u]) = 0 THEN "barrier" ELSE "wait"
      OBVIOUS
    <2>4. pc[0] # "ended"
      BY <2>1 DEF Memory
    <2>5. ASSUME NEW w \in Workers
          PROVE  /\ pc'[w] = "run" => (w \in mapped <=> Len(got[w]) > 0)
                 /\ pc'[w] \in {"wait", "readData", "clear"} => w \in mapped
                 /\ pc'[w] = "ended" => w \notin mapped
                 /\ pc'[w] \in {"barrier", "meet"} => w \notin mapped
      BY <2>1, <2>2, <2>3 DEF Memory
    <2>. QED
      BY <2>1, <2>4, <2>5 DEF Memory
  <1>. QED
    BY <1>1, <1>2, <1>3, <1>4, <1>5, <1>6, <1>7, <1>8, <1>9

LEMMA CompleteCollectivePreserves ==
  ASSUME TPInv, NEW r \in Ranks, CompleteCollective(r)
  PROVE  TPInv'
  <1>. USE Types DEF TPInv
  <1>1. TPTypeOK'
    <2>1. done' \in [Ranks -> Nat]
      BY DEF TPTypeOK, CompleteCollective
    <2>2. ASSUME NEW q \in Ranks PROVE done'[q] <= Len(launched[q])
      <3>1. done[q] \in Nat /\ Len(launched[q]) \in Nat /\ done[q] <= Len(launched[q])
        BY LaunchedNat
      <3>2. done'[q] = IF q = r THEN done[r] + 1 ELSE done[q]
        BY DEF TPTypeOK, CompleteCollective
      <3>. QED
        BY <3>1, <3>2 DEF CompleteCollective, Synchronized
    <2>. QED
      BY <2>1, <2>2 DEF TPTypeOK, CompleteCollective, shmVars, workerVars
  <1>2. ExitIsLast' /\ ZeroPlaced'
    BY DEF ExitIsLast, ZeroPlaced, ZeroPlaces, WorkerPlaced, WorkerPlaces, Leaves,
       Nth,
           CompleteCollective, Goto, shmVars, workerVars, streamVars
  <1>3. \A w \in Workers : WorkerPlaced(w)'
    BY CurrentIsNth DEF WorkerPlaced, WorkerPlaces, ZeroPlaced, ZeroPlaces,
       Received, Leaves, Nth,
           CompleteCollective, Goto, shmVars, workerVars, streamVars
  <1>4. \A w \in Workers : Received(w)'
    BY DEF Received, InOrder, UpToDate, Reached, Untold, Told, HasRead,
       WorkerPlaced, WorkerPlaces, ZeroPlaced, ZeroPlaces,
           Nth,
           CompleteCollective, Goto, shmVars, workerVars, streamVars
  <1>5. BufferWritten'
    BY DEF BufferWritten, Written, WorkerPlaced, WorkerPlaces, ZeroPlaced,
       ZeroPlaces, Nth,
           CompleteCollective, Goto, shmVars, workerVars, streamVars
  <1>6. Lengths'
    BY CurrentIsNth DEF Lengths, Received, InCall, Nth, CallLength, WorkerPlaced,
       WorkerPlaces, ZeroPlaced, ZeroPlaces,
           CompleteCollective, Goto, shmVars, workerVars, streamVars
  <1>7. Numbered' /\ ZeroIsLast'
    <2>1. Numbered'
      BY DEF Numbered, CallLength, Start, CompleteCollective
    <2>2. CASE r = 0
      <3>1. \A q \in Ranks : Len(launched[q]) > done[0] /\ Len(launched[q]) \in Nat /\ done[0] \in Nat
        BY <2>2, LaunchedNat DEF CompleteCollective, SendsLogits
      <3>2. done'[0] = done[0] + 1 /\ launched' = launched
        BY <2>2 DEF CompleteCollective, TPTypeOK
      <3>. QED
        BY <2>1, <3>1, <3>2 DEF ZeroIsLast
    <2>3. CASE r # 0
      BY <2>1, <2>3 DEF CompleteCollective, TPTypeOK, ZeroIsLast
    <2>. QED
      BY <2>2, <2>3
  <1>8. FirstBarrier'
    <2>. DEFINE first == AllReduces + 2
    <2>1. Start(1) = first /\ Start(1)' = first /\ first \in Nat
      BY StartZero DEF Start
    <2>2. launched' = launched /\ pc' = pc
      BY DEF CompleteCollective
    <2>3. ASSUME NEW w \in Workers, NEW q \in Ranks, done'[w] >= first
          PROVE  Len(launched[q]) >= first
      <3>1. done[w] \in Nat /\ Len(launched[q]) \in Nat /\ w \in Ranks
        BY LaunchedNat
      <3>2. CASE done[w] >= first
        BY <2>1, <3>2 DEF FirstBarrier
      <3>3. CASE ~(done[w] >= first)
        <4>1. w = r /\ done[r] + 1 = first
          BY <2>3, <3>1, <3>3 DEF CompleteCollective, TPTypeOK
        <4>2. ~SendsLogits(r)
          <5>1. SUFFICES ASSUME SendsLogits(r) PROVE FALSE
            OBVIOUS
          <5>2. done[r] + 1 \in 1 .. Len(launched[r])
            <6>1. done[r] # Len(launched[r])
              BY DEF CompleteCollective, Synchronized
            <6>2. done[r] \in Nat /\ Len(launched[r]) \in Nat /\ done[r] <= Len(launched[r])
              BY LaunchedNat
            <6>. QED
              BY <6>1, <6>2
          <5>3. PICK i, j : launched[r][first] = <<i, j>> /\ i \in Nat /\ j \in Nat
            <6>1. launched[r][done[r] + 1] \in Nat \X Nat
              BY <5>2, LaunchedNat
            <6>. QED
              BY <4>1, <6>1
          <5>4. first = Start(i) + j /\ j = AllReduces + 1
            BY <4>1, <5>1, <5>2, <5>3 DEF Numbered, SendsLogits
          <5>5. CASE i = 0
            BY <5>4, <5>5, StartZero
          <5>6. CASE i # 0
            <6>1. 0 < i
              BY <5>3, <5>6
            <6>2. Start(1) <= Start(i)
              <7>1. Start(0 + 1) <= Start(i)
                BY <5>3, <6>1, StartOrdered
              <7>. QED
                BY <7>1, 0 + 1 = 1
            <6>3. Start(i) \in Nat
              BY <5>3, StartNat
            <6>. QED
              BY <2>1, <5>4, <6>2, <6>3
          <5>. QED
            BY <5>5, <5>6
        <4>3. Len(launched[q]) > done[r]
          BY <4>2 DEF CompleteCollective
        <4>. QED
          BY <3>1, <4>1, <4>3
      <3>. QED
        BY <3>2, <3>3
    <2>4. pc[0] \in {"unlink", "join", "ended"} => done'[0] = Len(launched[0])
      BY DEF FirstBarrier, CompleteCollective, Synchronized, TPTypeOK
    <2>5. \A w \in Workers : pc[w] = "open" => Len(launched[0]) >= first
      BY <2>1 DEF FirstBarrier
    <2>. QED
      BY <2>1, <2>2, <2>3, <2>4, <2>5 DEF FirstBarrier
  <1>9. Memory'
    BY DEF Memory, WorkerPlaced, WorkerPlaces, ZeroPlaced, ZeroPlaces, Leaves,
       Nth,
           CompleteCollective, Goto, shmVars, workerVars, streamVars
  <1>. QED
    BY <1>1, <1>2, <1>3, <1>4, <1>5, <1>6, <1>7, <1>8, <1>9

LEMMA CreateSharedMemoryPreserves ==
  ASSUME TPInv, CreateSharedMemory
  PROVE  TPInv'
  <1>. USE Types DEF TPInv
  <1>1. TPTypeOK'
    BY DEF TPTypeOK, Places,
           CreateSharedMemory, Goto, shmVars, workerVars, streamVars
  <1>2. ExitIsLast' /\ ZeroPlaced'
    BY DEF ExitIsLast, ZeroPlaced, ZeroPlaces, WorkerPlaced, WorkerPlaces, Leaves,
       Nth,
           CreateSharedMemory, Goto, shmVars, workerVars, streamVars
  <1>3. \A w \in Workers : WorkerPlaced(w)'
    BY CurrentIsNth DEF WorkerPlaced, WorkerPlaces, ZeroPlaced, ZeroPlaces,
       Received, Leaves, Nth,
           CreateSharedMemory, Goto, shmVars, workerVars, streamVars
  <1>4. \A w \in Workers : Received(w)'
    BY DEF Received, InOrder, UpToDate, Reached, Untold, Told, HasRead,
       WorkerPlaced, WorkerPlaces, ZeroPlaced, ZeroPlaces,
           Nth,
           CreateSharedMemory, Goto, shmVars, workerVars, streamVars
  <1>5. BufferWritten'
    BY DEF BufferWritten, Written, WorkerPlaced, WorkerPlaces, ZeroPlaced,
       ZeroPlaces, Nth,
           CreateSharedMemory, Goto, shmVars, workerVars, streamVars
  <1>6. Lengths'
    BY CurrentIsNth DEF Lengths, Received, InCall, Nth, CallLength, WorkerPlaced,
       WorkerPlaces, ZeroPlaced, ZeroPlaces,
           CreateSharedMemory, Goto, shmVars, workerVars, streamVars
  <1>7. Numbered' /\ ZeroIsLast'
    BY StreamsStay DEF CreateSharedMemory, Goto, shmVars, workerVars, streamVars
  <1>8. FirstBarrier'
    BY StreamsStay, StartZero DEF FirstBarrier, WorkerPlaced, WorkerPlaces,
       ZeroPlaced, ZeroPlaces,
           CreateSharedMemory, Goto, shmVars, workerVars, streamVars
  <1>9. Memory'
    BY DEF Memory, WorkerPlaced, WorkerPlaces, ZeroPlaced, ZeroPlaces, Leaves,
       Nth,
           CreateSharedMemory, Goto, shmVars, workerVars, streamVars
  <1>. QED
    BY <1>1, <1>2, <1>3, <1>4, <1>5, <1>6, <1>7, <1>8, <1>9

LEMMA EnterBarrierPreserves ==
  ASSUME TPInv, NEW r \in Ranks, EnterBarrier(r)
  PROVE  TPInv'
  <1>. USE Types DEF TPInv
  <1>. LaunchesNext(r)
    <2>1. Current(r) = Nth(r) /\ Nth(r) \in Nat /\ (Exiting(r) <=> Leaves(r))
      BY CurrentIsNth, NthNat DEF Received
    <2>2. Nth(r) = 0 \/ Leaves(r)
      BY DEF EnterBarrier, ZeroPlaced, WorkerPlaced, Ranks, Workers, Nth
    <2>3. Leaves(r) => Nth(r) # 0
      BY <2>1 DEF Leaves
    <2>4. CASE Nth(r) = 0
      <3>1. InCall(r) = AllReduces + 1 /\ CallLength(Nth(r)) = AllReduces + 2
        BY <2>4 DEF EnterBarrier, InCall, CallLength
      <3>2. launched' = [launched EXCEPT ![r] = Append(@, <<Nth(r), AllReduces + 2>>)]
        BY <2>1, <2>3, <2>4 DEF EnterBarrier, Launch
      <3>3. AllReduces + 2 = AllReduces + 1 + 1
        OBVIOUS
      <3>. QED
        BY <3>1, <3>2, <3>3 DEF LaunchesNext
    <2>5. CASE Nth(r) # 0
      <3>1. InCall(r) = 0 /\ CallLength(Nth(r)) = AllReduces + 1
        BY <2>5 DEF EnterBarrier, InCall, CallLength
      <3>2. launched' = [launched EXCEPT ![r] = Append(@, <<Nth(r), 1>>)]
        BY <2>1, <2>2, <2>5 DEF EnterBarrier, Launch
      <3>. QED
        BY <3>1, <3>2 DEF LaunchesNext
    <2>. QED
      BY <2>4, <2>5
  <1>1. TPTypeOK'
    <2>1. launched' \in [Ranks -> Seq(Nat \X Nat)]
      BY LaunchLengths
    <2>2. \A q \in Ranks : done'[q] <= Len(launched'[q])
      BY LaunchOrder DEF EnterBarrier, streamVars
    <2>3. pc' \in [Ranks -> Places] /\ step' \in [Ranks -> Nat]
      BY DEF TPTypeOK, Places, EnterBarrier, Goto
    <2>4. UNCHANGED <<calls, shmVars, workerVars, done>>
      BY DEF EnterBarrier
    <2>. QED
      BY <2>1, <2>2, <2>3, <2>4 DEF TPTypeOK, shmVars, workerVars
  <1>2. ExitIsLast' /\ ZeroPlaced'
    BY DEF ExitIsLast, ZeroPlaced, ZeroPlaces, WorkerPlaced, WorkerPlaces, Leaves,
       Nth,
           EnterBarrier, Goto, shmVars, workerVars, streamVars, Launch
  <1>3. \A w \in Workers : WorkerPlaced(w)'
    BY CurrentIsNth DEF WorkerPlaced, WorkerPlaces, ZeroPlaced, ZeroPlaces,
       Received, Leaves, Nth,
           EnterBarrier, Goto, shmVars, workerVars, streamVars, Launch
  <1>4. \A w \in Workers : Received(w)'
    BY DEF Received, InOrder, UpToDate, Reached, Untold, Told, HasRead,
       WorkerPlaced, WorkerPlaces, ZeroPlaced, ZeroPlaces,
           Nth,
           EnterBarrier, Goto, shmVars, workerVars, streamVars, Launch
  <1>5. BufferWritten'
    BY DEF BufferWritten, Written, WorkerPlaced, WorkerPlaces, ZeroPlaced,
       ZeroPlaces, Nth,
           EnterBarrier, Goto, shmVars, workerVars, streamVars, Launch
  <1>6. Lengths'
    <2>1. SUFFICES ASSUME NEW q \in Ranks
                   PROVE  Len(launched'[q]) = Start(Nth(q))' + InCall(q)'
      BY DEF Lengths
    <2>2. Nth(q)' = Nth(q) /\ Start(Nth(q))' = Start(Nth(q))
      BY DEF EnterBarrier, workerVars, Nth, Start
    <2>3. Len(launched[q]) = Start(Nth(q)) + InCall(q)
      BY DEF Lengths
    <2>4. Nth(q) \in Nat /\ Start(Nth(q)) \in Nat /\ InCall(q) \in Nat
      BY NthNat, StartNat, InCallNat
    <2>5. CASE q # r
      <3>1. InCall(q)' = InCall(q)
        BY <2>2, <2>5 DEF EnterBarrier, Goto, InCall, CallLength
      <3>. QED
        BY <2>2, <2>3, <2>5, <3>1, LaunchLengths
    <2>6. CASE q = r
      <3>1. InCall(q)' = InCall(q) + 1
        BY <2>2, <2>4, <2>6 DEF EnterBarrier, Goto, InCall, CallLength
      <3>. QED
        BY <2>2, <2>3, <2>4, <2>6, <3>1, LaunchLengths
    <2>. QED
      BY <2>5, <2>6
  <1>7. Numbered' /\ ZeroIsLast'
    BY LaunchNumbered, LaunchOrder DEF EnterBarrier
  <1>8. FirstBarrier'
    <2>1. Len(launched'[0]) >= Len(launched[0]) /\ Len(launched[0]) \in Nat /\ Len(launched'[0]) \in Nat
      <3>1. Len(launched[0]) \in Nat
        BY LaunchedNat
      <3>2. CASE r = 0
        <4>1. Len(launched'[0]) = Len(launched[0]) + 1
          BY <3>2, LaunchLengths
        <4>. QED
          BY <3>1, <4>1
      <3>3. CASE r # 0
        <4>1. launched'[0] = launched[0]
          BY <3>3, LaunchLengths
        <4>. QED
          BY <3>1, <4>1
      <3>. QED
        BY <3>2, <3>3
    <2>2. pc[0] \in {"unlink", "join", "ended"} => launched'[0] = launched[0]
      BY LaunchLengths DEF EnterBarrier
    <2>3. Start(1)' = Start(1) /\ Start(1) \in Nat
      BY StartZero DEF Start
    <2>4. \A w \in Workers : pc'[w] = "open" => Len(launched'[0]) >= Start(1)
      BY <2>1, <2>3 DEF FirstBarrier, EnterBarrier, Goto
    <2>5. \A w \in Workers : \A q \in Ranks :
            (done[w] >= Start(1) => Len(launched[q]) >= Start(1))'
      BY LaunchOrder DEF EnterBarrier
    <2>6. pc'[0] \in {"unlink", "join", "ended"} => done'[0] = Len(launched'[0])
      BY <2>2 DEF FirstBarrier, EnterBarrier, Goto
    <2>. QED
      BY <2>3, <2>4, <2>5, <2>6 DEF FirstBarrier
  <1>9. Memory'
    BY DEF Memory, WorkerPlaced, WorkerPlaces, ZeroPlaced, ZeroPlaces, Leaves,
       Nth,
           EnterBarrier, Goto, shmVars, workerVars, streamVars, Launch
  <1>. QED
    BY <1>1, <1>2, <1>3, <1>4, <1>5, <1>6, <1>7, <1>8, <1>9

LEMMA LeaveBarrierPreserves ==
  ASSUME TPInv, NEW r \in Ranks, LeaveBarrier(r)
  PROVE  TPInv'
  <1>. USE Types DEF TPInv
  <1>. DEFINE next == IF Leaves(r) THEN (IF r = 0 THEN "unlink" ELSE "ended")
                      ELSE (IF r = 0 THEN "idle" ELSE "open")
  <1>a. /\ pc' = [pc EXCEPT ![r] = next] /\ pc[r] = "meet" /\ Synchronized(r)
        /\ UNCHANGED <<calls, step, named, mapped, shmLen, shmData, event, lenRead,
                       got, launched, done>>
    <2>1. Exiting(r) <=> Leaves(r)
      BY CurrentIsNth DEF Received
    <2>. QED
      BY <2>1 DEF LeaveBarrier, Goto, shmVars, workerVars, streamVars
  <1>b. Nth(r) = 0 \/ Leaves(r)
    BY <1>a DEF ZeroPlaced, WorkerPlaced, Ranks, Workers, Nth
  <1>c. \A q \in Ranks : pc'[q] = IF q = r THEN next ELSE pc[q]
    BY <1>a
  <1>d. \A w \in Workers : Leaves(w) => Nth(w) > 0
    BY DEF Leaves
  <1>1. TPTypeOK'
    BY <1>a DEF TPTypeOK, Places
  <1>2. ExitIsLast' /\ ZeroPlaced'
    <2>1. ExitIsLast'
      BY <1>a DEF ExitIsLast
    <2>2. CASE r = 0
      <3>1. Leaves(0)' <=> Leaves(0)
        BY <1>a DEF Leaves, Nth
      <3>2. pc'[0] = IF Leaves(0) THEN "unlink" ELSE "idle"
        BY <1>c, <2>2
      <3>. QED
        BY <1>a, <2>1, <2>2, <3>1, <3>2 DEF ZeroPlaced, ZeroPlaces
    <2>3. CASE r # 0
      <3>1. (Leaves(0)' <=> Leaves(0)) /\ pc'[0] = pc[0]
        BY <1>a, <1>c, <2>3 DEF Leaves, Nth
      <3>. QED
        BY <1>a, <2>1, <3>1 DEF ZeroPlaced
    <2>. QED
      BY <2>2, <2>3
  <1>3. \A w \in Workers : WorkerPlaced(w)'
    <2>1. SUFFICES ASSUME NEW w \in Workers PROVE WorkerPlaced(w)'
      OBVIOUS
    <2>2. (Leaves(w)' <=> Leaves(w)) /\ w # 0 /\ got' = got /\ step' = step
      BY <1>a DEF Leaves, Nth
    <2>3. CASE w = r
      <3>1. pc'[w] = IF Leaves(w) THEN "ended" ELSE "open"
        BY <1>c, <2>2, <2>3
      <3>2. ~Leaves(w) => Len(got[w]) = 0
        BY <1>b, <2>2, <2>3 DEF Nth
      <3>. QED
        BY <2>2, <3>1, <3>2 DEF WorkerPlaced, WorkerPlaces
    <2>4. CASE w # r
      <3>1. pc'[w] = pc[w]
        BY <1>c, <2>4
      <3>. QED
        BY <2>2, <3>1 DEF WorkerPlaced
    <2>. QED
      BY <2>3, <2>4
  <1>4. \A w \in Workers : Received(w)'
    <2>1. SUFFICES ASSUME NEW w \in Workers PROVE Received(w)'
      OBVIOUS
    <2>2. pc[w] = pc'[w] \/ (pc[w] = "meet" /\ pc'[w] \in {"ended", "open"})
      BY <1>a, <1>c
    <2>3. /\ InOrder(w)' <=> InOrder(w)
          /\ UpToDate(w)' <=> UpToDate(w)
          /\ Untold(w)' <=> Untold(w)
          /\ Reached(w)' <=> Reached(w)
      BY <1>a, <2>2 DEF InOrder, UpToDate, Untold, Reached, Told, HasRead
    <2>4. CASE r # 0
      <3>1. pc'[0] = pc[0]
        BY <1>c, <2>4
      <3>. QED
        BY <1>a, <2>3, <3>1 DEF Received
    <2>5. CASE r = 0 /\ Leaves(0)
      <3>1. pc'[0] = "unlink" /\ Len(calls) > 0 /\ pc[0] = "meet"
        BY <1>a, <1>c, <2>5 DEF Leaves, Nth
      <3>. QED
        BY <1>a, <2>3, <3>1 DEF Received
    <2>6. CASE r = 0 /\ ~Leaves(0)
      <3>1. pc'[0] = "idle" /\ Len(calls) = 0
        BY <1>b, <1>c, <2>6 DEF Nth
      <3>. QED
        BY <1>a, <2>3, <3>1 DEF Received, Reached
    <2>. QED
      BY <2>4, <2>5, <2>6
  <1>5. BufferWritten'
    <2>1. pc'[0] = pc[0] \/ (pc[0] = "meet" /\ pc'[0] \in {"unlink", "idle"})
      BY <1>a, <1>c
    <2>. QED
      BY <1>a, <2>1 DEF BufferWritten, Written
  <1>6. Lengths'
    <2>1. SUFFICES ASSUME NEW q \in Ranks
                   PROVE  Len(launched'[q]) = Start(Nth(q))' + InCall(q)'
      BY DEF Lengths
    <2>2. Nth(q)' = Nth(q) /\ Start(Nth(q))' = Start(Nth(q)) /\ launched' = launched
      BY <1>a DEF Nth, Start
    <2>3. InCall(q)' = InCall(q)
      <3>1. CASE q # r
        <4>1. pc'[q] = pc[q]
          BY <1>c, <3>1
        <4>. QED
          BY <1>a, <2>2, <4>1 DEF InCall, CallLength
      <3>2. CASE q = r /\ Leaves(r)
        <4>1. pc'[q] \in {"unlink", "ended"} /\ pc[q] = "meet" /\ Nth(q) # 0
          BY <1>a, <1>c, <3>2 DEF Leaves
        <4>. QED
          BY <2>2, <4>1 DEF InCall
      <3>3. CASE q = r /\ ~Leaves(r)
        <4>1. pc'[q] \in {"idle", "open"} /\ pc[q] = "meet" /\ Nth(q) = 0
          BY <1>a, <1>b, <1>c, <3>3
        <4>. QED
          BY <2>2, <4>1 DEF InCall, CallLength
      <3>. QED
        BY <3>1, <3>2, <3>3
    <2>. QED
      BY <2>2, <2>3 DEF Lengths
  <1>7. Numbered' /\ ZeroIsLast'
    BY <1>a, StreamsStay DEF streamVars
  <1>8. FirstBarrier'
    <2>1. Start(1)' = Start(1) /\ Start(1) = AllReduces + 2
      BY StartZero DEF Start
    <2>2. ASSUME NEW w \in Workers, pc'[w] = "open"
          PROVE  Len(launched[0]) >= Start(1)
      <3>1. CASE w # r
        BY <1>c, <2>2, <3>1 DEF FirstBarrier
      <3>2. CASE w = r
        <4>1. Nth(r) = 0 /\ w # 0 /\ pc[r] = "meet"
          BY <1>a, <1>b, <1>c, <2>2, <3>2
        <4>2. InCall(r) = AllReduces + 2
          BY <4>1 DEF InCall
        <4>3. Len(launched[r]) = Start(1)
          BY <2>1, <4>1, <4>2, StartZero DEF Lengths
        <4>4. done[w] = Start(1)
          BY <1>a, <3>2, <4>3 DEF Synchronized
        <4>. QED
          BY <2>1, <4>4 DEF FirstBarrier
      <3>. QED
        BY <3>1, <3>2
    <2>3. pc'[0] \in {"unlink", "join", "ended"} => done[0] = Len(launched[0])
      BY <1>a, <1>c DEF FirstBarrier, Synchronized
    <2>4. \A w \in Workers : \A q \in Ranks :
            (done[w] >= Start(1) => Len(launched[q]) >= Start(1))'
      BY <1>a, StreamsStay DEF streamVars
    <2>. QED
      BY <1>a, <2>1, <2>2, <2>3, <2>4 DEF FirstBarrier
  <1>9. Memory'
    <2>1. Leaves(r) => Nth(r) > 0
      BY DEF Leaves
    <2>2. CASE r = 0
      <3>1. pc'[0] = IF Len(calls) > 0 THEN "unlink" ELSE "idle"
        BY <1>b, <1>c, <2>1, <2>2 DEF Nth
      <3>2. \A w \in Workers : pc'[w] = pc[w]
        BY <1>c, <2>2
      <3>. QED
        BY <1>a, <2>2, <3>1, <3>2 DEF Memory
    <2>3. CASE r # 0
      <3>1. pc'[0] = pc[0] /\ pc[0] # "ended" /\ r \in Workers
        BY <1>a, <1>c, <2>3 DEF Memory, Ranks, Workers
      <3>2. r \notin mapped /\ pc'[r] \in {"ended", "open"}
        BY <1>a, <1>c, <2>3, <3>1 DEF Memory
      <3>3. \A w \in Workers : w # r => pc'[w] = pc[w]
        BY <1>c
      <3>. QED
        BY <1>a, <3>1, <3>2, <3>3 DEF Memory
    <2>. QED
      BY <2>2, <2>3
  <1>. QED
    BY <1>1, <1>2, <1>3, <1>4, <1>5, <1>6, <1>7, <1>8, <1>9

LEMMA OpenSharedMemoryPreserves ==
  ASSUME TPInv, NEW u \in Workers, OpenSharedMemory(u)
  PROVE  TPInv'
  <1>. USE Types DEF TPInv
  <1>1. TPTypeOK'
    BY DEF TPTypeOK, Places,
           OpenSharedMemory, Goto, shmVars, workerVars, streamVars
  <1>2. ExitIsLast' /\ ZeroPlaced'
    BY DEF ExitIsLast, ZeroPlaced, ZeroPlaces, WorkerPlaced, WorkerPlaces, Leaves,
       Nth,
           OpenSharedMemory, Goto, shmVars, workerVars, streamVars
  <1>3. \A w \in Workers : WorkerPlaced(w)'
    BY CurrentIsNth DEF WorkerPlaced, WorkerPlaces, ZeroPlaced, ZeroPlaces,
       Received, Leaves, Nth,
           OpenSharedMemory, Goto, shmVars, workerVars, streamVars
  <1>4. \A w \in Workers : Received(w)'
    BY DEF Received, InOrder, UpToDate, Reached, Untold, Told, HasRead,
       WorkerPlaced, WorkerPlaces, ZeroPlaced, ZeroPlaces,
           Nth,
           OpenSharedMemory, Goto, shmVars, workerVars, streamVars
  <1>5. BufferWritten'
    BY DEF BufferWritten, Written, WorkerPlaced, WorkerPlaces, ZeroPlaced,
       ZeroPlaces, Nth,
           OpenSharedMemory, Goto, shmVars, workerVars, streamVars
  <1>6. Lengths'
    BY CurrentIsNth DEF Lengths, Received, InCall, Nth, CallLength, WorkerPlaced,
       WorkerPlaces, ZeroPlaced, ZeroPlaces,
           OpenSharedMemory, Goto, shmVars, workerVars, streamVars
  <1>7. Numbered' /\ ZeroIsLast'
    BY StreamsStay DEF OpenSharedMemory, Goto, shmVars, workerVars, streamVars
  <1>8. FirstBarrier'
    BY StreamsStay, StartZero DEF FirstBarrier, WorkerPlaced, WorkerPlaces,
       ZeroPlaced, ZeroPlaces,
           OpenSharedMemory, Goto, shmVars, workerVars, streamVars
  <1>9. Memory'
    BY DEF Memory, WorkerPlaced, WorkerPlaces, ZeroPlaced, ZeroPlaces, Leaves,
       Nth,
           OpenSharedMemory, Goto, shmVars, workerVars, streamVars
  <1>. QED
    BY <1>1, <1>2, <1>3, <1>4, <1>5, <1>6, <1>7, <1>8, <1>9

LEMMA CloseSharedMemoryPreserves ==
  ASSUME TPInv, NEW r \in Ranks, CloseSharedMemory(r)
  PROVE  TPInv'
  <1>. USE Types DEF TPInv
  <1>1. TPTypeOK'
    BY DEF TPTypeOK, Places,
           CloseSharedMemory, Goto, shmVars, workerVars, streamVars
  <1>2. ExitIsLast' /\ ZeroPlaced'
    BY DEF ExitIsLast, ZeroPlaced, ZeroPlaces, WorkerPlaced, WorkerPlaces, Leaves,
       Nth,
           CloseSharedMemory, Goto, shmVars, workerVars, streamVars
  <1>3. \A w \in Workers : WorkerPlaced(w)'
    BY CurrentIsNth DEF WorkerPlaced, WorkerPlaces, ZeroPlaced, ZeroPlaces,
       Received, Leaves, Nth,
           CloseSharedMemory, Goto, shmVars, workerVars, streamVars
  <1>4. \A w \in Workers : Received(w)'
    BY DEF Received, InOrder, UpToDate, Reached, Untold, Told, HasRead,
       WorkerPlaced, WorkerPlaces, ZeroPlaced, ZeroPlaces,
           Nth,
           CloseSharedMemory, Goto, shmVars, workerVars, streamVars
  <1>5. BufferWritten'
    BY DEF BufferWritten, Written, WorkerPlaced, WorkerPlaces, ZeroPlaced,
       ZeroPlaces, Nth,
           CloseSharedMemory, Goto, shmVars, workerVars, streamVars
  <1>6. Lengths'
    <2>1. SUFFICES ASSUME NEW q \in Ranks
                   PROVE  Len(launched'[q]) = Start(Nth(q))' + InCall(q)'
      BY DEF Lengths
    <2>2. Nth(q)' = Nth(q) /\ Start(Nth(q))' = Start(Nth(q)) /\ launched' = launched
      BY DEF CloseSharedMemory, Goto, workerVars, streamVars, Nth, Start
    <2>3. CASE q # r
      BY <2>2, <2>3 DEF CloseSharedMemory, Goto, Lengths, InCall, CallLength
    <2>4. CASE q = r
      <3>1. pc[q] = "close" /\ pc'[q] = "barrier"
        BY <2>4 DEF CloseSharedMemory, Goto
      <3>2. Nth(q) # 0
        <4>1. CASE q = 0
          BY <3>1, <4>1 DEF ZeroPlaced, Leaves
        <4>2. CASE q # 0
          <5>1. q \in Workers
            BY <4>2 DEF Ranks, Workers
          <5>. QED
            BY <3>1, <5>1 DEF WorkerPlaced, Leaves
        <4>. QED
          BY <4>1, <4>2
      <3>. QED
        BY <2>2, <3>1, <3>2 DEF Lengths, InCall
    <2>. QED
      BY <2>3, <2>4
  <1>7. Numbered' /\ ZeroIsLast'
    BY StreamsStay DEF CloseSharedMemory, Goto, shmVars, workerVars, streamVars
  <1>8. FirstBarrier'
    BY StreamsStay, StartZero DEF FirstBarrier, WorkerPlaced, WorkerPlaces,
       ZeroPlaced, ZeroPlaces,
           CloseSharedMemory, Goto, shmVars, workerVars, streamVars
  <1>9. Memory'
    BY DEF Memory, WorkerPlaced, WorkerPlaces, ZeroPlaced, ZeroPlaces, Leaves,
       Nth,
           CloseSharedMemory, Goto, shmVars, workerVars, streamVars
  <1>. QED
    BY <1>1, <1>2, <1>3, <1>4, <1>5, <1>6, <1>7, <1>8, <1>9

LEMMA UnlinkPreserves ==
  ASSUME TPInv, Unlink
  PROVE  TPInv'
  <1>. USE Types DEF TPInv
  <1>1. TPTypeOK'
    BY DEF TPTypeOK, Places,
           Unlink, Goto, shmVars, workerVars, streamVars
  <1>2. ExitIsLast' /\ ZeroPlaced'
    BY DEF ExitIsLast, ZeroPlaced, ZeroPlaces, WorkerPlaced, WorkerPlaces, Leaves,
       Nth,
           Unlink, Goto, shmVars, workerVars, streamVars
  <1>3. \A w \in Workers : WorkerPlaced(w)'
    BY CurrentIsNth DEF WorkerPlaced, WorkerPlaces, ZeroPlaced, ZeroPlaces,
       Received, Leaves, Nth,
           Unlink, Goto, shmVars, workerVars, streamVars
  <1>4. \A w \in Workers : Received(w)'
    BY DEF Received, InOrder, UpToDate, Reached, Untold, Told, HasRead,
       WorkerPlaced, WorkerPlaces, ZeroPlaced, ZeroPlaces,
           Nth,
           Unlink, Goto, shmVars, workerVars, streamVars
  <1>5. BufferWritten'
    BY DEF BufferWritten, Written, WorkerPlaced, WorkerPlaces, ZeroPlaced,
       ZeroPlaces, Nth,
           Unlink, Goto, shmVars, workerVars, streamVars
  <1>6. Lengths'
    BY CurrentIsNth DEF Lengths, Received, InCall, Nth, CallLength, WorkerPlaced,
       WorkerPlaces, ZeroPlaced, ZeroPlaces,
           Unlink, Goto, shmVars, workerVars, streamVars
  <1>7. Numbered' /\ ZeroIsLast'
    BY StreamsStay DEF Unlink, Goto, shmVars, workerVars, streamVars
  <1>8. FirstBarrier'
    BY StreamsStay, StartZero DEF FirstBarrier, WorkerPlaced, WorkerPlaces,
       ZeroPlaced, ZeroPlaces,
           Unlink, Goto, shmVars, workerVars, streamVars
  <1>9. Memory'
    BY DEF Memory, WorkerPlaced, WorkerPlaces, ZeroPlaced, ZeroPlaces, Leaves,
       Nth,
           Unlink, Goto, shmVars, workerVars, streamVars
  <1>. QED
    BY <1>1, <1>2, <1>3, <1>4, <1>5, <1>6, <1>7, <1>8, <1>9

LEMMA JoinPreserves ==
  ASSUME TPInv, Join
  PROVE  TPInv'
  <1>. USE Types DEF TPInv
  <1>1. TPTypeOK'
    BY DEF TPTypeOK, Places,
           Join, Goto, shmVars, workerVars, streamVars
  <1>2. ExitIsLast' /\ ZeroPlaced'
    BY DEF ExitIsLast, ZeroPlaced, ZeroPlaces, WorkerPlaced, WorkerPlaces, Leaves,
       Nth,
           Join, Goto, shmVars, workerVars, streamVars
  <1>3. \A w \in Workers : WorkerPlaced(w)'
    BY CurrentIsNth DEF WorkerPlaced, WorkerPlaces, ZeroPlaced, ZeroPlaces,
       Received, Leaves, Nth,
           Join, Goto, shmVars, workerVars, streamVars
  <1>4. \A w \in Workers : Received(w)'
    BY DEF Received, InOrder, UpToDate, Reached, Untold, Told, HasRead,
       WorkerPlaced, WorkerPlaces, ZeroPlaced, ZeroPlaces,
           Nth,
           Join, Goto, shmVars, workerVars, streamVars
  <1>5. BufferWritten'
    BY DEF BufferWritten, Written, WorkerPlaced, WorkerPlaces, ZeroPlaced,
       ZeroPlaces, Nth,
           Join, Goto, shmVars, workerVars, streamVars
  <1>6. Lengths'
    BY CurrentIsNth DEF Lengths, Received, InCall, Nth, CallLength, WorkerPlaced,
       WorkerPlaces, ZeroPlaced, ZeroPlaces,
           Join, Goto, shmVars, workerVars, streamVars
  <1>7. Numbered' /\ ZeroIsLast'
    BY StreamsStay DEF Join, Goto, shmVars, workerVars, streamVars
  <1>8. FirstBarrier'
    BY StreamsStay, StartZero DEF FirstBarrier, WorkerPlaced, WorkerPlaces,
       ZeroPlaced, ZeroPlaces,
           Join, Goto, shmVars, workerVars, streamVars
  <1>9. Memory'
    BY DEF Memory, WorkerPlaced, WorkerPlaces, ZeroPlaced, ZeroPlaces, Leaves,
       Nth,
           Join, Goto, shmVars, workerVars, streamVars
  <1>. QED
    BY <1>1, <1>2, <1>3, <1>4, <1>5, <1>6, <1>7, <1>8, <1>9

LEMMA CallPreserves ==
  ASSUME TPInv, NEW m \in {"run", "exit"}, Call(m)
  PROVE  TPInv'
  <1>. USE Types DEF TPInv
  <1>. DEFINE n == Len(calls)
  <1>a. /\ calls' = Append(calls, m) /\ calls \in Seq({"run", "exit"}) /\ n \in Nat
        /\ pc[0] = "idle" /\ pc' = [pc EXCEPT ![0] = "writeLength"]
        /\ UNCHANGED <<step, named, mapped, shmLen, shmData, event, lenRead, got,
                       launched, done>>
    BY DEF TPTypeOK, Call, Goto, shmVars, workerVars, streamVars
  <1>b. /\ calls' \in Seq({"run", "exit"}) /\ Len(calls') = n + 1
        /\ \A i \in 1 .. n : calls'[i] = calls[i]
    BY <1>a
  <1>c. \A w \in Workers : UpToDate(w)
    BY <1>a DEF Received
  <1>1. TPTypeOK'
    <2>1. got' \in [Workers -> Seq(1 .. Len(calls'))]
      <3>1. 1 .. n \subseteq 1 .. n + 1
        BY <1>a
      <3>2. \A w \in Workers : got[w] \in Seq(1 .. n + 1)
        BY <3>1, SeqWider
      <3>. QED
        BY <1>a, <1>b, <3>2
    <2>. QED
      BY <1>a, <1>b, <2>1 DEF TPTypeOK, Places
  <1>2. ExitIsLast' /\ ZeroPlaced'
    <2>1. n > 0 => calls[n] = "run"
      BY <1>a DEF ZeroPlaced, Leaves, Nth
    <2>2. ExitIsLast'
      <3>1. SUFFICES ASSUME NEW i \in 1 .. n PROVE calls[i] = "run"
        BY <1>a, <1>b DEF ExitIsLast
      <3>2. CASE i = n
        BY <1>a, <2>1, <3>2
      <3>3. CASE i # n
        BY <1>a, <3>3 DEF ExitIsLast
      <3>. QED
        BY <3>2, <3>3
    <2>3. pc'[0] = "writeLength" /\ Len(calls') > 0
      BY <1>a, <1>b
    <2>. QED
      BY <2>2, <2>3 DEF ZeroPlaced, ZeroPlaces
  <1>3. \A w \in Workers : WorkerPlaced(w)'
    <2>1. SUFFICES ASSUME NEW w \in Workers PROVE WorkerPlaced(w)'
      OBVIOUS
    <2>2. Len(got[w]) = n /\ w # 0 /\ pc'[w] = pc[w] /\ got' = got /\ step' = step
      BY <1>a, <1>c DEF UpToDate
    <2>3. Leaves(w)' <=> Leaves(w)
      <3>1. n > 0 => calls'[n] = calls[n]
        BY <1>a, <1>b
      <3>. QED
        BY <2>2, <3>1 DEF Leaves, Nth
    <2>. QED
      BY <2>2, <2>3 DEF WorkerPlaced
  <1>4. \A w \in Workers : Received(w)'
    <2>1. SUFFICES ASSUME NEW w \in Workers PROVE Received(w)'
      OBVIOUS
    <2>2. Untold(w)' /\ InOrder(w)'
      BY <1>a, <1>b, <1>c DEF UpToDate, Untold, Received, InOrder
    <2>3. pc'[0] = "writeLength" /\ Len(calls') > 0
      BY <1>a, <1>b
    <2>. QED
      BY <2>2, <2>3 DEF Received
  <1>5. BufferWritten'
    BY <1>a DEF BufferWritten
  <1>6. Lengths'
    <2>1. SUFFICES ASSUME NEW q \in Ranks
                   PROVE  Len(launched'[q]) = Start(Nth(q))' + InCall(q)'
      BY DEF Lengths
    <2>2. CASE q # 0
      <3>1. Nth(q)' = Nth(q) /\ pc'[q] = pc[q]
        BY <1>a, <2>2 DEF Nth
      <3>. QED
        BY <1>a, <3>1 DEF Lengths, Start, InCall, CallLength
    <2>3. CASE q = 0
      <3>1. Nth(q) = n /\ Nth(q)' = n + 1 /\ pc'[q] = "writeLength"
        BY <1>a, <1>b, <2>3 DEF Nth
      <3>2. InCall(q)' = 0 /\ InCall(q) = CallLength(n)
        BY <1>a, <2>3, <3>1 DEF InCall
      <3>3. Start(Nth(q))' = Start(n + 1)
        BY <3>1 DEF Start
      <3>4. Start(n + 1) = Start(n) + CallLength(n) /\ Start(n + 1) \in Nat
        BY <1>a, StartNext, StartNat
      <3>5. Len(launched[q]) = Start(n) + CallLength(n)
        BY <3>1, <3>2 DEF Lengths
      <3>. QED
        BY <1>a, <3>2, <3>3, <3>4, <3>5
    <2>. QED
      BY <2>2, <2>3
  <1>7. Numbered' /\ ZeroIsLast'
    BY <1>a, StreamsStay DEF streamVars
  <1>8. FirstBarrier'
    <2>1. Start(1)' = Start(1)
      BY DEF Start
    <2>2. \A w \in Workers : pc'[w] = pc[w]
      BY <1>a
    <2>. QED
      BY <1>a, <2>1, <2>2 DEF FirstBarrier
  <1>9. Memory'
    <2>1. \A w \in Workers : pc'[w] = pc[w]
      BY <1>a
    <2>. QED
      BY <1>a, <1>b, <2>1 DEF Memory
  <1>. QED
    BY <1>1, <1>2, <1>3, <1>4, <1>5, <1>6, <1>7, <1>8, <1>9

LEMMA WriteLengthPreserves ==
  ASSUME TPInv, WriteLength
  PROVE  TPInv'
  <1>. USE Types DEF TPInv
  <1>. Current(0) = Len(calls)
    BY CurrentZero
  <1>1. TPTypeOK'
    BY DEF TPTypeOK, Places, WriteLength, Goto, workerVars, streamVars
  <1>2. ExitIsLast' /\ ZeroPlaced'
    BY DEF ExitIsLast, ZeroPlaced, ZeroPlaces, WorkerPlaced, WorkerPlaces, Leaves,
       Nth,
           WriteLength, Goto, shmVars, workerVars, streamVars
  <1>3. \A w \in Workers : WorkerPlaced(w)'
    BY CurrentIsNth DEF WorkerPlaced, WorkerPlaces, ZeroPlaced, ZeroPlaces,
       Received, Leaves, Nth,
           WriteLength, Goto, shmVars, workerVars, streamVars
  <1>4. \A w \in Workers : Received(w)'
    BY DEF Received, InOrder, UpToDate, Reached, Untold, Told, HasRead,
       WorkerPlaced, WorkerPlaces, ZeroPlaced, ZeroPlaces,
           Nth,
           WriteLength, Goto, shmVars, workerVars, streamVars
  <1>5. BufferWritten'
    <2>1. shmLen' = Len(calls) /\ pc'[0] = "writeData" /\ calls' = calls
      BY DEF WriteLength, Goto
    <2>. QED
      BY <2>1 DEF BufferWritten
  <1>6. Lengths'
    BY CurrentIsNth DEF Lengths, Received, InCall, Nth, CallLength, WorkerPlaced,
       WorkerPlaces, ZeroPlaced, ZeroPlaces,
           WriteLength, Goto, shmVars, workerVars, streamVars
  <1>7. Numbered' /\ ZeroIsLast'
    BY StreamsStay DEF WriteLength, Goto, shmVars, workerVars, streamVars
  <1>8. FirstBarrier'
    BY StreamsStay, StartZero DEF FirstBarrier, WorkerPlaced, WorkerPlaces,
       ZeroPlaced, ZeroPlaces,
           WriteLength, Goto, shmVars, workerVars, streamVars
  <1>9. Memory'
    BY DEF Memory, WorkerPlaced, WorkerPlaces, ZeroPlaced, ZeroPlaces, Leaves,
       Nth,
           WriteLength, Goto, shmVars, workerVars, streamVars
  <1>. QED
    BY <1>1, <1>2, <1>3, <1>4, <1>5, <1>6, <1>7, <1>8, <1>9

LEMMA WriteDataPreserves ==
  ASSUME TPInv, WriteData
  PROVE  TPInv'
  <1>. USE Types DEF TPInv
  <1>. Current(0) = Len(calls)
    BY CurrentZero
  <1>1. TPTypeOK'
    BY DEF TPTypeOK, Places, WriteData, Goto, workerVars, streamVars
  <1>2. ExitIsLast' /\ ZeroPlaced'
    BY DEF ExitIsLast, ZeroPlaced, ZeroPlaces, WorkerPlaced, WorkerPlaces, Leaves,
       Nth,
           WriteData, Goto, shmVars, workerVars, streamVars
  <1>3. \A w \in Workers : WorkerPlaced(w)'
    BY CurrentIsNth DEF WorkerPlaced, WorkerPlaces, ZeroPlaced, ZeroPlaces,
       Received, Leaves, Nth,
           WriteData, Goto, shmVars, workerVars, streamVars
  <1>4. \A w \in Workers : Received(w)'
    <2>1. SUFFICES ASSUME NEW w \in Workers PROVE Received(w)'
      OBVIOUS
    <2>2. /\ UNCHANGED <<event, lenRead, got, calls>> /\ pc'[w] = pc[w]
          /\ pc[0] = "writeData" /\ pc'[0] = "signal" /\ step'[0] = 0
      BY DEF WriteData, Goto, workerVars
    <2>3. InOrder(w) /\ Untold(w) /\ w > 0 /\ Len(calls) > 0
      BY <2>2 DEF Received, Workers, ZeroPlaced
    <2>4. InOrder(w)' /\ Untold(w)'
      BY <2>2, <2>3 DEF InOrder, Untold
    <2>5. ~(w <= step'[0])
      BY <2>2 DEF Workers
    <2>. QED
      BY <2>2, <2>3, <2>4, <2>5 DEF Received
  <1>5. BufferWritten'
    <2>1. /\ shmData' = Len(calls) /\ shmLen' = shmLen /\ calls' = calls
          /\ pc[0] = "writeData" /\ pc'[0] = "signal"
      BY DEF WriteData, Goto
    <2>. QED
      BY <2>1 DEF BufferWritten, Written
  <1>6. Lengths'
    BY CurrentIsNth DEF Lengths, Received, InCall, Nth, CallLength, WorkerPlaced,
       WorkerPlaces, ZeroPlaced, ZeroPlaces,
           WriteData, Goto, shmVars, workerVars, streamVars
  <1>7. Numbered' /\ ZeroIsLast'
    BY StreamsStay DEF WriteData, Goto, shmVars, workerVars, streamVars
  <1>8. FirstBarrier'
    BY StreamsStay, StartZero DEF FirstBarrier, WorkerPlaced, WorkerPlaces,
       ZeroPlaced, ZeroPlaces,
           WriteData, Goto, shmVars, workerVars, streamVars
  <1>9. Memory'
    BY DEF Memory, WorkerPlaced, WorkerPlaces, ZeroPlaced, ZeroPlaces, Leaves,
       Nth,
           WriteData, Goto, shmVars, workerVars, streamVars
  <1>. QED
    BY <1>1, <1>2, <1>3, <1>4, <1>5, <1>6, <1>7, <1>8, <1>9

LEMMA SetEventPreserves ==
  ASSUME TPInv, SetEvent
  PROVE  TPInv'
  <1>. USE Types DEF TPInv
  <1>. DEFINE v == step[0] + 1
  <1>a. /\ v \in Workers /\ pc[0] = "signal" /\ step[0] \in Nat
        /\ event' = [event EXCEPT ![v] = TRUE]
        /\ UNCHANGED <<calls, named, mapped, shmLen, shmData, lenRead, got, launched, done>>
    <2>1. step[0] \in Nat /\ pc[0] = "signal"
      BY DEF SetEvent
    <2>2. v \in Workers
      BY <2>1 DEF ZeroPlaced, Workers
    <2>. QED
      BY <2>1, <2>2 DEF SetEvent, shmVars, streamVars
  <1>b. \/ v < TPSize - 1 /\ step' = [step EXCEPT ![0] = v] /\ pc' = pc
        \/ /\ v = TPSize - 1 /\ step' = [step EXCEPT ![0] = 0]
           /\ pc' = [pc EXCEPT ![0] = IF Leaves(0) THEN "close" ELSE "run"]
    <2>1. ~(v < TPSize - 1) => v = TPSize - 1
      BY <1>a DEF Workers
    <2>. QED
      BY <2>1, CurrentZero DEF SetEvent, Goto
  <1>1. TPTypeOK'
    <2>1. pc' \in [Ranks -> Places]
      BY <1>b DEF Places
    <2>2. event' \in [Workers -> BOOLEAN]
      BY <1>a
    <2>3. step' \in [Ranks -> Nat]
      <3>1. v \in Nat /\ 0 \in Nat
        BY <1>a
      <3>2. \/ step' = [step EXCEPT ![0] = v] \/ step' = [step EXCEPT ![0] = 0]
        BY <1>b
      <3>. HIDE DEF v
      <3>. QED
        BY <3>1, <3>2
    <2>. QED
      BY <1>a, <2>1, <2>2, <2>3 DEF TPTypeOK
  <1>2. ExitIsLast' /\ ZeroPlaced'
    <2>1. ExitIsLast' /\ (Leaves(0)' <=> Leaves(0)) /\ Len(calls') = Len(calls)
      BY <1>a DEF ExitIsLast, Leaves, Nth
    <2>2. Len(calls) > 0
      BY <1>a DEF ZeroPlaced
    <2>3. CASE v < TPSize - 1 /\ step' = [step EXCEPT ![0] = v] /\ pc' = pc
      <3>1. pc'[0] = "signal" /\ step'[0] < TPSize - 1
        BY <1>a, <2>3
      <3>. QED
        BY <2>1, <2>2, <3>1 DEF ZeroPlaced, ZeroPlaces
    <2>4. CASE /\ v = TPSize - 1 /\ step' = [step EXCEPT ![0] = 0]
               /\ pc' = [pc EXCEPT ![0] = IF Leaves(0) THEN "close" ELSE "run"]
      <3>1. pc'[0] = (IF Leaves(0) THEN "close" ELSE "run") /\ step'[0] = 0
        BY <2>4
      <3>. QED
        BY <2>1, <2>2, <3>1 DEF ZeroPlaced, ZeroPlaces
    <2>. QED
      BY <1>b, <2>3, <2>4
  <1>3. \A w \in Workers : WorkerPlaced(w)'
    BY CurrentIsNth DEF WorkerPlaced, WorkerPlaces, ZeroPlaced, ZeroPlaces,
       Received, Leaves, Nth,
           SetEvent, Goto, shmVars, workerVars, streamVars
  <1>4. \A w \in Workers : Received(w)'
    <2>1. SUFFICES ASSUME NEW w \in Workers PROVE Received(w)'
      OBVIOUS
    <2>2. pc'[w] = pc[w] /\ Len(calls) > 0 /\ Len(calls') = Len(calls)
      BY <1>a, <1>b DEF ZeroPlaced
    <2>3. w \in Int /\ v \in Int /\ step[0] \in Int /\ w <= TPSize - 1
      BY <1>a DEF Workers
    <2>4. InOrder(w)'
      BY <1>a DEF Received, InOrder
    <2>5. CASE w = v
      <3>1. Untold(w) /\ event'[w]
        BY <1>a, <2>3, <2>5 DEF Received
      <3>2. Told(w)'
        BY <1>a, <2>2, <3>1 DEF Untold, Told
      <3>3. pc'[0] = "signal" => step'[0] = v
        BY <1>b
      <3>. QED
        <4>1. Reached(w)' /\ pc'[0] \in {"signal", "close", "run"}
          BY <1>a, <1>b, <3>2 DEF Reached
        <4>2. pc'[0] = "signal" => w <= step'[0] /\ ~(w > step'[0])
          BY <2>3, <2>5, <3>3
        <4>. QED
          BY <2>2, <2>4, <4>1, <4>2 DEF Received
    <2>6. CASE w # v
      <3>1. event'[w] = event[w]
        BY <1>a, <2>6
      <3>2. (Untold(w)' <=> Untold(w)) /\ (Reached(w)' <=> Reached(w))
        BY <1>a, <2>2, <3>1 DEF Untold, Reached, Told, HasRead, UpToDate
      <3>3. CASE pc'[0] = "signal"
        <4>1. step'[0] = v
          BY <1>b, <3>3
        <4>2. (w > v => Untold(w)) /\ (w <= v => Reached(w))
          BY <1>a, <2>3, <2>6 DEF Received
        <4>. QED
          BY <2>2, <2>4, <3>2, <3>3, <4>1, <4>2 DEF Received
      <3>4. CASE pc'[0] # "signal"
        <4>1. v = TPSize - 1 /\ pc'[0] \in {"close", "run"}
          BY <1>a, <1>b, <3>4
        <4>2. Reached(w)
          BY <1>a, <2>3, <2>6, <4>1 DEF Received
        <4>. QED
          BY <2>2, <2>4, <3>2, <4>1, <4>2 DEF Received
      <3>. QED
        BY <3>3, <3>4
    <2>. QED
      BY <2>5, <2>6
  <1>5. BufferWritten'
    BY DEF BufferWritten, Written, WorkerPlaced, WorkerPlaces, ZeroPlaced,
       ZeroPlaces, Nth,
           SetEvent, Goto, shmVars, workerVars, streamVars
  <1>6. Lengths'
    BY CurrentIsNth DEF Lengths, Received, InCall, Nth, CallLength, WorkerPlaced,
       WorkerPlaces, ZeroPlaced, ZeroPlaces,
           SetEvent, Goto, shmVars, workerVars, streamVars
  <1>7. Numbered' /\ ZeroIsLast'
    BY StreamsStay DEF SetEvent, Goto, shmVars, workerVars, streamVars
  <1>8. FirstBarrier'
    BY StreamsStay, StartZero DEF FirstBarrier, WorkerPlaced, WorkerPlaces,
       ZeroPlaced, ZeroPlaces,
           SetEvent, Goto, shmVars, workerVars, streamVars
  <1>9. Memory'
    BY DEF Memory, WorkerPlaced, WorkerPlaces, ZeroPlaced, ZeroPlaces, Leaves,
       Nth,
           SetEvent, Goto, shmVars, workerVars, streamVars
  <1>. QED
    BY <1>1, <1>2, <1>3, <1>4, <1>5, <1>6, <1>7, <1>8, <1>9

LEMMA ReadLengthPreserves ==
  ASSUME TPInv, NEW u \in Workers, ReadLength(u)
  PROVE  TPInv'
  <1>. USE Types DEF TPInv
  <1>a. Told(u) /\ Written
    BY FindsLast DEF ReadLength
  <1>1. TPTypeOK'
    BY DEF TPTypeOK, Places,
           ReadLength, Goto, shmVars, workerVars, streamVars
  <1>2. ExitIsLast' /\ ZeroPlaced'
    BY DEF ExitIsLast, ZeroPlaced, ZeroPlaces, WorkerPlaced, WorkerPlaces, Leaves,
       Nth,
           ReadLength, Goto, shmVars, workerVars, streamVars
  <1>3. \A w \in Workers : WorkerPlaced(w)'
    BY CurrentIsNth DEF WorkerPlaced, WorkerPlaces, ZeroPlaced, ZeroPlaces,
       Received, Leaves, Nth,
           ReadLength, Goto, shmVars, workerVars, streamVars
  <1>4. \A w \in Workers : Received(w)'
    <2>1. /\ pc' = [pc EXCEPT ![u] = "readData"] /\ lenRead' = [lenRead EXCEPT ![u] = shmLen]
          /\ UNCHANGED <<calls, step, event, got>>
      BY DEF ReadLength, Goto
    <2>2. Told(u)' /\ ~UpToDate(u) /\ ~Untold(u)
      BY <1>a, <2>1 DEF Told, Written, UpToDate, Untold
    <2>3. SUFFICES ASSUME NEW w \in Workers PROVE Received(w)'
      OBVIOUS
    <2>4. InOrder(w)' /\ pc'[0] = pc[0] /\ step' = step
      BY <2>1 DEF Received, InOrder
    <2>5. /\ UpToDate(w) => UpToDate(w)'
          /\ Untold(w) => Untold(w)'
          /\ Reached(w) => Reached(w)'
      <3>1. CASE w = u
        BY <2>2, <3>1 DEF Reached
      <3>2. CASE w # u
        <4>1. pc'[w] = pc[w] /\ lenRead'[w] = lenRead[w]
          BY <2>1, <3>2
        <4>. QED
          BY <2>1, <4>1 DEF UpToDate, Untold, Reached, Told, HasRead
      <3>. QED
        BY <3>1, <3>2
    <2>. QED
      BY <2>1, <2>4, <2>5 DEF Received
  <1>5. BufferWritten'
    BY DEF BufferWritten, Written, WorkerPlaced, WorkerPlaces, ZeroPlaced,
       ZeroPlaces, Nth,
           ReadLength, Goto, shmVars, workerVars, streamVars
  <1>6. Lengths'
    BY CurrentIsNth DEF Lengths, Received, InCall, Nth, CallLength, WorkerPlaced,
       WorkerPlaces, ZeroPlaced, ZeroPlaces,
           ReadLength, Goto, shmVars, workerVars, streamVars
  <1>7. Numbered' /\ ZeroIsLast'
    BY StreamsStay DEF ReadLength, Goto, shmVars, workerVars, streamVars
  <1>8. FirstBarrier'
    BY StreamsStay, StartZero DEF FirstBarrier, WorkerPlaced, WorkerPlaces,
       ZeroPlaced, ZeroPlaces,
           ReadLength, Goto, shmVars, workerVars, streamVars
  <1>9. Memory'
    BY DEF Memory, WorkerPlaced, WorkerPlaces, ZeroPlaced, ZeroPlaces, Leaves,
       Nth,
           ReadLength, Goto, shmVars, workerVars, streamVars
  <1>. QED
    BY <1>1, <1>2, <1>3, <1>4, <1>5, <1>6, <1>7, <1>8, <1>9

LEMMA ReadDataPreserves ==
  ASSUME TPInv, NEW u \in Workers, ReadData(u)
  PROVE  TPInv'
  <1>. USE Types DEF TPInv
  <1>a. /\ Told(u) /\ Written /\ Len(calls) > 0
        /\ pc[u] = "readData" /\ lenRead[u] = Len(calls)
    BY FindsLast DEF ReadData, Told
  <1>b. /\ got' = [got EXCEPT ![u] = Append(@, Len(calls))]
        /\ pc' = [pc EXCEPT ![u] = "clear"]
        /\ UNCHANGED <<calls, step, named, mapped, shmLen, shmData, event, lenRead,
                       launched, done>>
    BY <1>a DEF Written, ReadData, Goto, shmVars, streamVars
  <1>c. /\ got[u] \in Seq(1 .. Len(calls)) /\ Len(calls) \in 1 .. Len(calls)
        /\ Len(got[u]) + 1 = Len(calls)
    BY <1>a DEF Told
  <1>d. /\ Append(got[u], Len(calls)) \in Seq(1 .. Len(calls))
        /\ Len(Append(got[u], Len(calls))) = Len(calls)
    BY <1>c
  <1>1. TPTypeOK'
    <2>1. got' \in [Workers -> Seq(1 .. Len(calls'))]
      BY <1>b, <1>d
    <2>2. pc' \in [Ranks -> Places]
      BY <1>b DEF Places
    <2>. QED
      BY <1>b, <2>1, <2>2 DEF TPTypeOK
  <1>2. ExitIsLast' /\ ZeroPlaced'
    BY DEF ExitIsLast, ZeroPlaced, ZeroPlaces, WorkerPlaced, WorkerPlaces, Leaves,
       Nth,
           ReadData, Goto, shmVars, workerVars, streamVars
  <1>3. \A w \in Workers : WorkerPlaced(w)'
    <2>1. SUFFICES ASSUME NEW w \in Workers PROVE WorkerPlaced(w)'
      OBVIOUS
    <2>2. CASE w = u
      <3>1. pc'[w] = "clear" /\ Len(got'[w]) = Len(calls)
        BY <1>b, <1>d, <2>2
      <3>. QED
        BY <1>a, <3>1 DEF WorkerPlaced, WorkerPlaces
    <2>3. CASE w # u
      <3>1. pc'[w] = pc[w] /\ got'[w] = got[w] /\ w # 0
        BY <1>b, <2>3
      <3>. QED
        BY <1>b, <3>1 DEF WorkerPlaced, Leaves, Nth
    <2>. QED
      BY <2>2, <2>3
  <1>4. \A w \in Workers : Received(w)'
    <2>1. HasRead(u)' /\ ~UpToDate(u) /\ ~Untold(u)
      BY <1>a, <1>b, <1>d DEF Told, HasRead, UpToDate, Untold
    <2>2. SUFFICES ASSUME NEW w \in Workers PROVE Received(w)'
      OBVIOUS
    <2>3. InOrder(w)'
      <3>1. CASE w = u
        <4>1. SUFFICES ASSUME NEW i \in 1 .. Len(calls) PROVE Append(got[u], Len(calls))[i] = i
          BY <1>b, <1>d, <3>1 DEF InOrder
        <4>2. CASE i = Len(calls)
          BY <1>c, <4>2
        <4>3. CASE i # Len(calls)
          <5>1. i \in 1 .. Len(got[u])
            BY <1>c, <4>3
          <5>2. got[u][i] = i
            BY <5>1 DEF Received, InOrder
          <5>. QED
            BY <1>c, <5>1, <5>2
        <4>. QED
          BY <4>2, <4>3
      <3>2. CASE w # u
        BY <1>b, <3>2 DEF Received, InOrder
      <3>. QED
        BY <3>1, <3>2
    <2>4. /\ UpToDate(w) => UpToDate(w)'
          /\ Untold(w) => Untold(w)'
          /\ Reached(w) => Reached(w)'
      <3>1. CASE w = u
        BY <2>1, <3>1 DEF Reached
      <3>2. CASE w # u
        <4>1. pc'[w] = pc[w] /\ got'[w] = got[w]
          BY <1>b, <3>2
        <4>. QED
          BY <1>b, <4>1 DEF UpToDate, Untold, Reached, Told, HasRead
      <3>. QED
        BY <3>1, <3>2
    <2>5. pc'[0] = pc[0] /\ step' = step /\ calls' = calls
      BY <1>b
    <2>. QED
      BY <2>3, <2>4, <2>5 DEF Received
  <1>5. BufferWritten'
    BY DEF BufferWritten, Written, WorkerPlaced, WorkerPlaces, ZeroPlaced,
       ZeroPlaces, Nth,
           ReadData, Goto, shmVars, workerVars, streamVars
  <1>6. Lengths'
    <2>1. SUFFICES ASSUME NEW q \in Ranks
                   PROVE  Len(launched'[q]) = Start(Nth(q))' + InCall(q)'
      BY DEF Lengths
    <2>2. CASE q # u
      <3>1. Nth(q)' = Nth(q) /\ pc'[q] = pc[q]
        BY <1>b, <2>2 DEF Nth, Ranks, Workers
      <3>. QED
        BY <1>b, <3>1 DEF Lengths, Start, InCall, CallLength
    <2>3. CASE q = u
      <3>. DEFINE n == Len(got[u])
      <3>1. n \in Nat /\ u # 0 /\ Nth(q) = n
        BY <2>3 DEF Nth
      <3>2. Nth(q)' = n + 1 /\ pc'[q] = "clear"
        BY <1>b, <1>c, <1>d, <2>3, <3>1 DEF Nth
      <3>3. InCall(q)' = 0 /\ InCall(q) = CallLength(n)
        BY <1>a, <2>3, <3>1, <3>2 DEF InCall
      <3>4. Start(Nth(q))' = Start(n + 1)
        BY <3>2 DEF Start
      <3>5. Start(n + 1) = Start(n) + CallLength(n) /\ Start(n + 1) \in Nat
        BY <3>1, StartNext, StartNat
      <3>6. Len(launched[q]) = Start(n) + CallLength(n)
        BY <3>1, <3>3 DEF Lengths
      <3>. QED
        BY <1>b, <3>3, <3>4, <3>5, <3>6
    <2>. QED
      BY <2>2, <2>3
  <1>7. Numbered' /\ ZeroIsLast'
    BY StreamsStay DEF ReadData, Goto, shmVars, workerVars, streamVars
  <1>8. FirstBarrier'
    BY StreamsStay, StartZero DEF FirstBarrier, WorkerPlaced, WorkerPlaces,
       ZeroPlaced, ZeroPlaces,
           ReadData, Goto, shmVars, workerVars, streamVars
  <1>9. Memory'
    BY <1>a, <1>b DEF Memory
  <1>. QED
    BY <1>1, <1>2, <1>3, <1>4, <1>5, <1>6, <1>7, <1>8, <1>9

LEMMA ClearEventPreserves ==
  ASSUME TPInv, NEW u \in Workers, ClearEvent(u)
  PROVE  TPInv'
  <1>. USE Types DEF TPInv
  <1>1. TPTypeOK'
    BY DEF TPTypeOK, Places,
           ClearEvent, Goto, shmVars, workerVars, streamVars
  <1>2. ExitIsLast' /\ ZeroPlaced'
    BY DEF ExitIsLast, ZeroPlaced, ZeroPlaces, WorkerPlaced, WorkerPlaces, Leaves,
       Nth,
           ClearEvent, Goto, shmVars, workerVars, streamVars
  <1>3. \A w \in Workers : WorkerPlaced(w)'
    BY CurrentIsNth DEF WorkerPlaced, WorkerPlaces, ZeroPlaced, ZeroPlaces,
       Received, Leaves, Nth,
           ClearEvent, Goto, shmVars, workerVars, streamVars
  <1>4. \A w \in Workers : Received(w)'
    BY DEF Received, InOrder, UpToDate, Reached, Untold, Told, HasRead,
       WorkerPlaced, WorkerPlaces, ZeroPlaced, ZeroPlaces,
           Nth,
           ClearEvent, Goto, shmVars, workerVars, streamVars
  <1>5. BufferWritten'
    BY DEF BufferWritten, Written, WorkerPlaced, WorkerPlaces, ZeroPlaced,
       ZeroPlaces, Nth,
           ClearEvent, Goto, shmVars, workerVars, streamVars
  <1>6. Lengths'
    BY CurrentIsNth DEF Lengths, Received, InCall, Nth, CallLength, WorkerPlaced,
       WorkerPlaces, ZeroPlaced, ZeroPlaces,
           ClearEvent, Goto, shmVars, workerVars, streamVars
  <1>7. Numbered' /\ ZeroIsLast'
    BY StreamsStay DEF ClearEvent, Goto, shmVars, workerVars, streamVars
  <1>8. FirstBarrier'
    BY StreamsStay, StartZero DEF FirstBarrier, WorkerPlaced, WorkerPlaces,
       ZeroPlaced, ZeroPlaces,
           ClearEvent, Goto, shmVars, workerVars, streamVars
  <1>9. Memory'
    BY DEF Memory, WorkerPlaced, WorkerPlaces, ZeroPlaced, ZeroPlaces, Leaves,
       Nth,
           ClearEvent, Goto, shmVars, workerVars, streamVars
  <1>. QED
    BY <1>1, <1>2, <1>3, <1>4, <1>5, <1>6, <1>7, <1>8, <1>9

-----------------------------------------------------------------------------
(* The invariant.                                                          *)

(* At the start every rank is at the beginning of the warm-up.             *)
LEMMA InitTPInv == TPInit => TPInv
  <1>. SUFFICES ASSUME TPInit PROVE TPInv
    OBVIOUS
  <1>1. /\ Len(calls) = 0 /\ \A r \in Ranks : pc[r] = "run" /\ step[r] = 0
        /\ \A r \in Ranks : launched[r] = <<>> /\ done[r] = 0
        /\ \A w \in Workers : got[w] = <<>> /\ event[w] = FALSE
        /\ 0 \in Ranks /\ Workers \subseteq Ranks /\ 0 \notin Workers
    BY DEF TPInit, Ranks, Workers
  <1>2. TPTypeOK
    <2>1. got \in [Workers -> Seq(1 .. Len(calls))]
      <3>1. <<>> \in Seq(1 .. Len(calls))
        OBVIOUS
      <3>. QED
        BY <3>1 DEF TPInit
    <2>2. launched \in [Ranks -> Seq(Nat \X Nat)]
      <3>1. <<>> \in Seq(Nat \X Nat)
        OBVIOUS
      <3>. QED
        BY <3>1 DEF TPInit
    <2>3. \A r \in Ranks : done[r] <= Len(launched[r])
      BY <1>1
    <2>4. calls \in Seq({"run", "exit"})
      BY DEF TPInit
    <2>5. /\ pc \in [Ranks -> Places] /\ step \in [Ranks -> Nat]
          /\ event \in [Workers -> BOOLEAN] /\ lenRead \in [Workers -> Nat]
          /\ done \in [Ranks -> Nat]
      BY DEF TPInit, Places
    <2>. QED
      BY <2>1, <2>2, <2>3, <2>4, <2>5 DEF TPInit, TPTypeOK
  <1>3. /\ \A r \in Ranks : Nth(r) = 0 /\ Len(launched[r]) = 0
        /\ \A r \in Ranks : ~Leaves(r) /\ InCall(r) = 0
    BY <1>1 DEF Nth, Leaves, InCall, Ranks, Workers
  <1>4. ExitIsLast /\ ZeroPlaced /\ \A w \in Workers : WorkerPlaced(w)
    BY <1>1, <1>3 DEF ExitIsLast, ZeroPlaced, ZeroPlaces, WorkerPlaced,
       WorkerPlaces
  <1>5. BufferWritten /\ \A w \in Workers : Received(w)
    BY <1>1 DEF BufferWritten, Received, InOrder, UpToDate, Reached
  <1>6. Lengths /\ Numbered /\ ZeroIsLast
    BY <1>1, <1>3, StartZero DEF Lengths, Numbered, ZeroIsLast
  <1>7. FirstBarrier
    BY <1>1, StartZero DEF FirstBarrier
  <1>8. Memory
    BY <1>1 DEF Memory, TPInit
  <1>. QED
    BY <1>2, <1>4, <1>5, <1>6, <1>7, <1>8 DEF TPInv

(* It speaks of the variables of the module only.                          *)
LEMMA StutterPreserves ==
  ASSUME TPInv, UNCHANGED tpVars
  PROVE  TPInv'
  <1>1. UNCHANGED <<streamVars, shmVars, workerVars, pc, calls, step>>
    BY DEF tpVars, streamVars, shmVars, workerVars
  <1>2. TPTypeOK' /\ ExitIsLast' /\ ZeroPlaced' /\ \A w \in Workers : WorkerPlaced(w)'
    BY <1>1 DEF TPInv, TPTypeOK, ExitIsLast, ZeroPlaced, WorkerPlaced, Leaves,
       Nth,
                shmVars, workerVars, streamVars
  <1>3. BufferWritten' /\ \A w \in Workers : Received(w)'
    BY <1>1 DEF TPInv, BufferWritten, Written, Received, InOrder, UpToDate,
       Untold,
                Reached, Told, HasRead, shmVars, workerVars
  <1>4. Lengths' /\ Numbered' /\ ZeroIsLast' /\ FirstBarrier' /\ Memory'
    BY <1>1 DEF TPInv, Lengths, Numbered, Start, InCall, CallLength, Nth,
       ZeroIsLast,
                FirstBarrier, Memory, shmVars, workerVars, streamVars
  <1>. QED
    BY <1>2, <1>3, <1>4 DEF TPInv

(* One lemma per action above; here the cases of TPNext.                   *)
LEMMA NextTPInv ==
  ASSUME TPInv, [TPNext]_tpVars
  PROVE  TPInv'
  <1>. USE DEF Ranks, Workers
  <1>1. CASE \E m \in {"run", "exit"} : Call(m)
    BY <1>1, CallPreserves
  <1>2. CASE RankZero
    <2>. 0 \in Ranks
      OBVIOUS
    <2>. QED
      BY <1>2, LaunchCollectivePreserves, RunReturnsPreserves,
         CreateSharedMemoryPreserves, EnterBarrierPreserves, LeaveBarrierPreserves,
         WriteLengthPreserves, WriteDataPreserves, SetEventPreserves,
         CloseSharedMemoryPreserves, UnlinkPreserves, JoinPreserves DEF RankZero
  <1>3. ASSUME NEW w \in Workers, Worker(w) PROVE TPInv'
    <2>. w \in Ranks
      OBVIOUS
    <2>. QED
      BY <1>3, LaunchCollectivePreserves, WorkerRunReturnsPreserves,
         EnterBarrierPreserves, LeaveBarrierPreserves, OpenSharedMemoryPreserves,
         ReadLengthPreserves, ReadDataPreserves, ClearEventPreserves,
         CloseSharedMemoryPreserves DEF Worker
  <1>4. CASE \E r \in Ranks : CompleteCollective(r)
    BY <1>4, CompleteCollectivePreserves
  <1>5. CASE UNCHANGED tpVars
    BY <1>5, StutterPreserves
  <1>. QED
    BY <1>1, <1>2, <1>3, <1>4, <1>5 DEF TPNext

(* In every reachable state of the processes the conjuncts of TPInv hold.  *)
THEOREM Invariance == TPSpec => []TPInv
  BY InitTPInv, NextTPInv, PTL DEF TPSpec

-----------------------------------------------------------------------------
(* What follows from it.                                                   *)

(* Every variable keeps its type; in particular what a worker has read is  *)
(* always the number of a call, never a torn message.                      *)
THEOREM TypeCorrect == TPSpec => []TPTypeOK
  <1>1. TPInv => TPTypeOK
    BY DEF TPInv
  <1>. QED
    BY <1>1, Invariance, PTL

(* The k-th collective of every rank is the same, whatever the number of   *)
(* ranks, of all_reduces in a run and of calls.                            *)
THEOREM CollectivesAgree == TPSpec => []CollectivesMatch
  <1>1. ASSUME TPInv PROVE CollectivesMatch
    <2>1. SUFFICES ASSUME NEW q \in Ranks, NEW r \in Ranks,
                          NEW k \in DOMAIN launched[q] \cap DOMAIN launched[r]
                   PROVE  launched[q][k] = launched[r][k]
      BY DEF CollectivesMatch
    <2>2. launched[q] \in Seq(Nat \X Nat) /\ launched[r] \in Seq(Nat \X Nat)
      BY <1>1, LaunchedNat DEF TPInv
    <2>3. k \in 1 .. Len(launched[q]) /\ k \in 1 .. Len(launched[r])
      <3>1. /\ DOMAIN launched[q] = 1 .. Len(launched[q])
            /\ DOMAIN launched[r] = 1 .. Len(launched[r])
        BY <2>2
      <3>. QED
        BY <3>1
    <2>4. PICK i, j : i \in Nat /\ j \in Nat /\ launched[q][k] = <<i, j>>
      <3>1. launched[q][k] \in Nat \X Nat
        BY <2>2, <2>3
      <3>. QED
        BY <3>1
    <2>5. PICK m, n : m \in Nat /\ n \in Nat /\ launched[r][k] = <<m, n>>
      <3>1. launched[r][k] \in Nat \X Nat
        BY <2>2, <2>3
      <3>. QED
        BY <3>1
    <2>6. j \in 1 .. CallLength(i) /\ k = Start(i) + j
      BY <1>1, <2>3, <2>4 DEF TPInv, Numbered
    <2>7. n \in 1 .. CallLength(m) /\ k = Start(m) + n
      BY <1>1, <2>3, <2>5 DEF TPInv, Numbered
    <2>8. i = m /\ j = n
      BY <2>4, <2>5, <2>6, <2>7, StartUnique
    <2>. QED
      BY <2>4, <2>5, <2>8
  <1>. QED
    BY <1>1, Invariance, PTL

(* The shared memory exists, and is open, whenever a rank uses it, and is  *)
(* gone when the engine's process has joined the others.                   *)
THEOREM MemoryLive == TPSpec => []SharedMemoryLive
  <1>1. ASSUME TPInv PROVE SharedMemoryLive
    <2>. USE <1>1, Types DEF TPInv
    <2>1. ASSUME NEW r \in Ranks,
                 pc[r] \in {"writeLength", "writeData", "wait", "readData"}
          PROVE  r \in mapped
      <3>1. CASE r = 0
        BY <2>1, <3>1 DEF Memory, ZeroPlaced, ZeroPlaces
      <3>2. CASE r # 0
        <4>1. r \in Workers
          BY <3>2 DEF Ranks, Workers
        <4>. QED
          BY <2>1, <4>1 DEF Memory, WorkerPlaced, WorkerPlaces
      <3>. QED
        BY <3>1, <3>2
    <2>2. ASSUME NEW w \in Workers, pc[w] = "open" PROVE named
      <3>. DEFINE first == AllReduces + 2
      <3>1. Len(launched[0]) >= first /\ Len(launched[0]) \in Nat
        BY <2>2, StartZero, LaunchedNat DEF FirstBarrier
      <3>2. Len(launched[w]) = first
        <4>1. w # 0 /\ Nth(w) = 0
          BY <2>2 DEF WorkerPlaced, Nth
        <4>2. InCall(w) = first
          BY <2>2, <4>1 DEF InCall, CallLength
        <4>. QED
          BY <4>1, <4>2, StartZero DEF Lengths
      <3>3. ~(pc[0] = "run" /\ Len(calls) = 0) /\ pc[0] # "create"
        <4>1. SUFFICES ASSUME \/ pc[0] = "run" /\ Len(calls) = 0
                              \/ pc[0] = "create"
                       PROVE  FALSE
          OBVIOUS
        <4>2. Nth(0) = 0 /\ InCall(0) <= AllReduces + 1 /\ InCall(0) \in Nat
          BY <4>1, InCallNat DEF ZeroPlaced, Nth, InCall
        <4>3. Len(launched[0]) = InCall(0)
          BY <4>2, StartZero DEF Lengths
        <4>. QED
          BY <3>1, <4>2, <4>3
      <3>4. pc[0] \notin {"join", "ended"}
        <4>1. SUFFICES ASSUME pc[0] \in {"join", "ended"} PROVE FALSE
          OBVIOUS
        <4>2. done[0] = Len(launched[0]) /\ done[0] <= first
          BY <3>2, <4>1 DEF FirstBarrier, ZeroIsLast
        <4>3. Len(calls) > 0 /\ InCall(0) = 1
          BY <4>1 DEF ZeroPlaced, Leaves, Nth, InCall
        <4>4. Len(launched[0]) = Start(Len(calls)) + 1 /\ Start(Len(calls)) \in Nat
          BY <4>3, StartNat DEF Lengths, Nth
        <4>5. Start(0 + 1) <= Start(Len(calls))
          BY <4>3, StartOrdered
        <4>6. Start(0 + 1) = first
          BY StartZero, 0 + 1 = 1
        <4>. QED
          BY <4>2, <4>4, <4>5, <4>6
      <3>. QED
        BY <3>3, <3>4 DEF Memory
    <2>3. ASSUME pc[0] = "ended" PROVE ~named /\ mapped = {}
      <3>1. ~named /\ 0 \notin mapped /\ mapped \subseteq Ranks
        BY <2>3 DEF Memory, TPTypeOK
      <3>2. \A w \in Workers : w \notin mapped
        BY <2>3 DEF Memory
      <3>3. Ranks = {0} \cup Workers
        BY DEF Ranks, Workers
      <3>. QED
        BY <3>1, <3>2, <3>3
    <2>. QED
      BY <2>1, <2>2, <2>3 DEF SharedMemoryLive
  <1>. QED
    BY <1>1, Invariance, PTL

-----------------------------------------------------------------------------
(* The broadcast.                                                          *)

(* Steps that are none of a call's.                                        *)
LEMMA CallStays ==
  ASSUME UNCHANGED <<calls, got>>,
         \/ pc'[0] \in {"idle", "ended"} <=> pc[0] \in {"idle", "ended"}
         \/ calls = <<>>
  PROVE  UNCHANGED Broadcast!callVars
  BY DEF Broadcast!callVars, Answered

(* Call, ReadData and the steps that end a call are the three actions.     *)
LEMMA CallIssues ==
  ASSUME TPInv, NEW m \in {"run", "exit"}, Call(m)
  PROVE  Broadcast!Issue(m)
  <1>. USE Types DEF TPInv
  <1>1. /\ pc[0] = "idle" /\ pc'[0] = "writeLength" /\ got' = got
        /\ calls' = Append(calls, m) /\ calls \in Seq({"run", "exit"})
    BY DEF Call, Goto, TPTypeOK, workerVars
  <1>2. Len(calls') = Len(calls) + 1 /\ calls' # <<>>
    BY <1>1
  <1>3. Answered = Len(calls) /\ Answered' = Len(calls)
    BY <1>1, <1>2 DEF Answered
  <1>4. \A i \in 1 .. Len(calls) : calls[i] = "run"
    <2>1. Len(calls) > 0 => calls[Len(calls)] # "exit"
      BY <1>1 DEF ZeroPlaced, Leaves, Nth
    <2>2. TAKE i \in 1 .. Len(calls)
    <2>3. CASE i = Len(calls)
      BY <1>1, <2>1, <2>3
    <2>4. CASE i # Len(calls)
      BY <2>4 DEF ExitIsLast
    <2>. QED
      BY <2>3, <2>4
  <1>5. "exit" \notin {calls[i] : i \in 1 .. Len(calls)}
    BY <1>4
  <1>6. Len(calls) < MaxCalls
    BY DEF Call
  <1>. QED
    BY <1>1, <1>3, <1>5, <1>6 DEF Broadcast!Issue

LEMMA CallReceives ==
  ASSUME TPInv, NEW u \in Workers, ReadData(u)
  PROVE  Broadcast!Receive(u)
  <1>. USE Types DEF TPInv
  <1>1. Told(u) /\ Written /\ Len(calls) > 0 /\ pc[u] = "readData"
    BY FindsLast DEF ReadData
  <1>2. /\ got' = [got EXCEPT ![u] = Append(@, Len(calls))] /\ calls' = calls
        /\ pc'[0] = pc[0]
    BY <1>1 DEF ReadData, Told, Written, Goto
  <1>3. Len(got[u]) + 1 = Len(calls) /\ Len(got[u]) < Len(calls)
    BY <1>1 DEF Told
  <1>4. Answered' = Answered
    BY <1>2 DEF Answered
  <1>. QED
    BY <1>2, <1>3, <1>4 DEF Broadcast!Receive

LEMMA CallReturns ==
  ASSUME TPInv, UNCHANGED <<calls, got>>, Len(calls) > 0,
         pc[0] \notin {"idle", "ended"}, pc'[0] \in {"idle", "ended"},
         \A w \in Workers : Len(got[w]) = Len(calls)
  PROVE  Broadcast!Return
  <1>1. Len(calls) \in Nat /\ calls # <<>>
    BY Types DEF TPInv
  <1>2. Answered = Len(calls) - 1 /\ Answered' = Len(calls)
    BY <1>1 DEF Answered
  <1>. QED
    BY <1>1, <1>2 DEF Broadcast!Return

(* Rank 0's call is a synchronous broadcast: every worker receives every   *)
(* call once, in order and whole, and a call returns only after all of     *)
(* them have received it.                                                  *)
THEOREM CallsBroadcast ==
  TPSpec => Broadcast!CallInit /\ [][Broadcast!CallNext]_(Broadcast!callVars)
  <1>1. TPInit => Broadcast!CallInit
    BY DEF TPInit, Broadcast!CallInit, Answered
  <1>2. ASSUME TPInv, [TPNext]_tpVars
        PROVE  [Broadcast!CallNext]_(Broadcast!callVars)
    <2>. USE <1>2, Types DEF TPInv
    <2>0. calls \in Seq({"run", "exit"}) /\ (Len(calls) = 0 => calls = <<>>)
      BY DEF TPTypeOK
    <2>1. CASE \E m \in {"run", "exit"} : Call(m)
      BY <2>1, CallIssues DEF Broadcast!CallNext
    <2>2. CASE RunReturns
      <3>1. /\ UNCHANGED <<calls, got>> /\ pc[0] = "run"
            /\ Len(calls) > 0 => pc'[0] = "idle"
        BY <2>2, CurrentZero DEF RunReturns, Goto, workerVars
      <3>2. \A w \in Workers : UpToDate(w)
        BY <2>2, AllUpToDate DEF RunReturns
      <3>3. CASE Len(calls) = 0
        BY <2>0, <3>1, <3>3, CallStays
      <3>4. CASE Len(calls) > 0
        BY <3>1, <3>2, <3>4, CallReturns DEF UpToDate, Broadcast!CallNext
      <3>. QED
        BY <3>3, <3>4
    <2>3. CASE Join
      <3>1. /\ UNCHANGED <<calls, got>> /\ pc[0] = "join" /\ pc'[0] = "ended"
            /\ \A w \in Workers : pc[w] = "ended"
        BY <2>3 DEF Join, Goto, workerVars
      <3>2. Len(calls) > 0
        BY <3>1 DEF ZeroPlaced, Leaves, Nth
      <3>3. ASSUME NEW w \in Workers PROVE Len(got[w]) = Len(calls)
        <4>1. Reached(w) /\ pc[w] = "ended"
          BY <3>1, <3>2 DEF Received
        <4>2. Len(got[w]) > 0 /\ calls[Len(got[w])] = "exit"
          BY <4>1 DEF WorkerPlaced, Leaves, Nth
        <4>3. ~(Len(got[w]) + 1 = Len(calls))
          <5>1. SUFFICES ASSUME Len(got[w]) + 1 = Len(calls) PROVE FALSE
            OBVIOUS
          <5>2. Len(got[w]) \in 1 .. Len(calls) - 1
            BY <4>2, <5>1
          <5>. QED
            BY <4>2, <5>2 DEF ExitIsLast
        <4>. QED
          BY <4>1, <4>3 DEF Reached, Told, HasRead, UpToDate
      <3>. QED
        BY <3>1, <3>2, <3>3, CallReturns DEF Broadcast!CallNext
    <2>4. CASE \E u \in Workers : ReadData(u)
      BY <2>4, CallReceives DEF Broadcast!CallNext
    <2>5. CASE LeaveBarrier(0)
      <3>1. UNCHANGED <<calls, got>> /\ pc[0] = "meet"
        BY <2>5 DEF LeaveBarrier, workerVars
      <3>2. Len(calls) = 0 \/ Leaves(0)
        BY <3>1 DEF ZeroPlaced
      <3>3. Leaves(0) => pc'[0] = "unlink"
        BY <2>5, CurrentZero DEF LeaveBarrier, Goto
      <3>. QED
        BY <2>0, <3>1, <3>2, <3>3, CallStays
    <2>6. CASE \/ LaunchCollective(0) \/ CreateSharedMemory \/ EnterBarrier(0)
               \/ WriteLength \/ WriteData \/ CloseSharedMemory(0) \/ Unlink
      <3>1. /\ UNCHANGED <<calls, got>>
            /\ pc[0] \notin {"idle", "ended"} /\ pc'[0] \notin {"idle", "ended"}
        BY <2>6 DEF LaunchCollective, CreateSharedMemory, EnterBarrier,
           WriteLength,
                    WriteData, CloseSharedMemory, Unlink, Goto, workerVars
      <3>. QED
        BY <3>1, CallStays
    <2>7. CASE SetEvent
      <3>1. /\ UNCHANGED <<calls, got>>
            /\ pc[0] \notin {"idle", "ended"} /\ pc'[0] \notin {"idle", "ended"}
        BY <2>7 DEF SetEvent, Goto
      <3>. QED
        BY <3>1, CallStays
    <2>8. ASSUME NEW w \in Workers, Worker(w), ~ReadData(w)
          PROVE  UNCHANGED Broadcast!callVars
      <3>1. UNCHANGED <<calls, got>> /\ pc'[0] = pc[0]
        BY <2>8 DEF Worker, LaunchCollective, WorkerRunReturns, EnterBarrier,
                    LeaveBarrier, OpenSharedMemory, ReadLength, ClearEvent,
                    CloseSharedMemory, Goto, workerVars
      <3>. QED
        BY <3>1, CallStays
    <2>9. CASE \E r \in Ranks : CompleteCollective(r)
      BY <2>9, CallStays DEF CompleteCollective, workerVars
    <2>10. CASE UNCHANGED tpVars
      BY <2>10, CallStays DEF tpVars
    <2>. QED
      BY <2>1, <2>2, <2>3, <2>4, <2>5, <2>6, <2>7, <2>8, <2>9, <2>10
         DEF TPNext, RankZero
  <1>. QED
    BY <1>1, <1>2, Invariance, PTL DEF TPSpec

=============================================================================
