-------------------------- MODULE SettlementProofs --------------------------
(***************************************************************************)
(* The settlement pipeline, from the driver to the promise table: a        *)
(* promise is settled with its own op's outcome, and the loop implements   *)
(* Settlement, for every number of ops, ring size, id span, batch cap and  *)
(* poison set.                                                             *)
(*                                                                         *)
(* The argument: the completion order is one line.  It starts with what    *)
(* has left the pipeline, goes on with the batch in delivery (or parked),  *)
(* and ends with what is ready; what is decided is a prefix of it that     *)
(* ends somewhere in that batch.  A batch that is delivered again walks    *)
(* over its decided part, whose ids are absorbed because no live op shares *)
(* them.                                                                   *)
(***************************************************************************)
EXTENDS RuntimeLoopProofs, FiniteSetTheorems

\* The batch whose turn it is: the parked one, else the one in delivery.
Lead == IF parked = <<>> THEN cur ELSE parked[1].batch

Delivery == /\ pc # "settle" => cur = <<>>
            /\ pc = "settle" /\ ~fresh => cur = parked[1].batch
            /\ Len(Lead) <= BatchCap

Decided(o) == settledBy[o] # None \/ o \in dropped

Once == /\ \A i, j \in 1..Len(done) : done[i] = done[j] => i = j
        /\ \A i \in 1..Len(done) : done[i] <= calls
        /\ \A i \in 1..Len(done), j \in 1..Len(futures) : done[i] # futures[j]
        /\ \A o \in Ops : Decided(o) => \E i \in 1..Len(done) : done[i] = o

\* b ops have left the pipeline, d are decided.
Line(b, d) ==
    /\ Len(done) = b + Len(Lead) + Len(ready)
    /\ \A i \in 1..Len(Lead) : done[b + i] = Lead[i]
    /\ \A i \in 1..Len(ready) : done[b + Len(Lead) + i] = ready[i]
    /\ b <= d /\ d <= b + Len(Lead)
    /\ \A i \in 1..Len(done) : Decided(done[i]) <=> i <= d
    /\ \A i \in 1..Len(done) : done[i] \in dropped => i <= b
    /\ pc = "settle" => b + at - 1 <= d

InLine == \E b, d \in Nat : Line(b, d)

Table ==
    /\ \A o \in Ops : settledBy[o] \in {None, o}
    /\ \A s \in 0..(RingSize - 1) : ring[s] # None =>
          ring[s] <= calls /\ Slot(ring[s]) = s /\ settledBy[ring[s]] = None
    /\ \A p \in overflow : p <= calls /\ settledBy[p] = None
    /\ \A o \in 1..calls : settledBy[o] = None => ring[Slot(o)] = o \/ o \in overflow
    /\ \A p, q \in Live : Id(p) = Id(q) => p = q

Pipeline == Types /\ Wakers /\ Delivery /\ Once /\ InLine /\ Table

\* ---------------------------------------------------------------------------
\* The steps the pipeline does not see.

Still == /\ UNCHANGED <<calls, ring, overflow, settledBy, futures, done, ready, parked,
                        fresh, cur, dropped>>
         /\ pc' = "settle" <=> pc = "settle"
         /\ pc' = "settle" => at' = at

LEMMA PipelineSteps ==
    ASSUME [Next]_vars
    PROVE  \/ Still
           \/ Call \/ DriveReady \/ DeliverParked \/ DeliverFresh
           \/ SettleOne \/ BatchSettled \/ BatchFails
<1> USE DEF Still
<1>1. CASE EvaluateHeals \/ (\E r \in Rejections : Reject(r) \/ Handle(r))
           \/ (\E t \in Tasks : StartJob(t))
  BY <1>1 DEF EvaluateHeals, Reject, Handle, StartJob, hostVars, tableVars, driverVars, queueVars
<1>2. CASE (\E o \in Ops : Finish(o)) \/ (\E t \in Tasks : Post(t) \/ ComeDue(t))
           \/ DogFlags \/ DogTerminates
  BY <1>2 DEF Finish, Post, ComeDue, DogFlags, DogTerminates, hostVars, tableVars, driverVars, queueVars
<1>3. CASE PumpStart \/ PumpReturns \/ PumpTimesOut \/ Preempt \/ Wake
  BY <1>3 DEF PumpStart, PumpReturns, PumpTimesOut, Preempt, Wake, PumpEnds, Goto,
       tableVars, driverVars, queueVars
<1>4. CASE Poll \/ DrivePending \/ DriveEnd \/ ModulesPolled \/ ModulesFail \/ DrainTakes
           \/ DrainRuns \/ NothingReady
  BY <1>4 DEF Poll, DrivePending, DriveEnd, ModulesPolled, ModulesFail, DrainTakes,
       DrainRuns, NothingReady, Goto, hostVars, tableVars, driverVars, queueVars
<1>5. CASE MicrotasksDone \/ FireHandled \/ SwapPending \/ FireUnhandled \/ FireFails
           \/ Dispatched \/ Exit
  BY <1>5 DEF MicrotasksDone, FireHandled, SwapPending, FireUnhandled, FireFails, Dispatched,
       Exit, Goto, hostVars, tableVars, driverVars, queueVars
<1>6. CASE UNCHANGED vars
  BY <1>6 DEF vars, hostVars, tableVars, driverVars, queueVars
<1> QED BY <1>1, <1>2, <1>3, <1>4, <1>5, <1>6 DEF Next, Page, Threads, Pump, Pass

LEMMA StillStep ==
    ASSUME Still
    PROVE  /\ Delivery => Delivery'
           /\ Once => Once'
           /\ \A b, d \in Nat : Line(b, d) => Line(b, d)'
<1>1. Lead' = Lead
  BY DEF Still, Lead
<1>2. Delivery => Delivery'
  BY <1>1 DEF Still, Delivery
<1>3. \A o : Decided(o)' <=> Decided(o)
  BY DEF Still, Decided
<1>4. Once => Once'
  BY <1>3 DEF Still, Once
<1>5. \A b, d \in Nat : Line(b, d) => Line(b, d)'
  BY <1>1, <1>3 DEF Still, Line
<1> QED BY <1>2, <1>4, <1>5

\* ---------------------------------------------------------------------------
\* What waits to be delivered is the end of the line.

LEMMA LeadType ==
    ASSUME Types
    PROVE  /\ Lead \in Seq(Ops) /\ ready \in Seq(Ops) /\ done \in Seq(Ops) /\ cur \in Seq(Ops)
           /\ Len(Lead) \in Nat /\ Len(ready) \in Nat /\ Len(done) \in Nat /\ Len(cur) \in Nat
           /\ at \in Nat \ {0}
           /\ parked = <<>> \/ \E p \in Parcels : parked = <<p>>
<1>1. QueueTypes /\ DriverTypes /\ HostTypes /\ Queue
  BY TypesParts
<1>2. CASE parked = <<>>
  BY <1>1, <1>2 DEF QueueTypes, DriverTypes, HostTypes, Lead
<1>3. CASE parked # <<>>
  <2>1. PICK p : parked = <<p>>
    BY <1>1, <1>3 DEF Queue, AtMostOne
  <2>2. p \in Parcels
    <3>1. parked[1] \in Parcels
      BY <1>1, <1>3 DEF QueueTypes
    <3> QED BY <2>1, <3>1
  <2>3. p.batch \in Seq(Ops)
    BY <2>2 DEF Parcels
  <2>4. Lead = p.batch
    BY <2>1 DEF Lead
  <2> QED BY <1>1, <2>1, <2>2, <2>3, <2>4 DEF QueueTypes, DriverTypes, HostTypes
<1> QED BY <1>2, <1>3

\* In a delivery, cur is the batch whose turn it is.
LEMMA LeadIsCur ==
    ASSUME Types, Delivery, pc = "settle"
    PROVE  Lead = cur
BY DEF Types, Queue, Delivery, Lead

LEMMA QueuedIsLeadAndReady ==
    ASSUME Types, Delivery
    PROVE  Queued = Range(Lead) \cup Range(ready)
<1>1. CASE parked = <<>>
  <2>1. Lead = cur /\ Len(parked) = 0
    BY <1>1 DEF Lead
  <2>2. UNION {Range(parked[i].batch) : i \in 1..Len(parked)} = {}
    BY <2>1
  <2> QED BY <2>1, <2>2 DEF Queued
<1>2. CASE parked # <<>>
  <2>1. PICK p : parked = <<p>>
    BY <1>2, LeadType
  <2>2. Len(parked) = 1 /\ parked[1] = p /\ Lead = p.batch
    BY <2>1 DEF Lead
  <2>3. UNION {Range(parked[i].batch) : i \in 1..Len(parked)} = Range(Lead)
    BY <2>2
  <2>4. Range(cur) \subseteq Range(Lead)
    <3>1. CASE pc = "settle"
      BY <3>1, LeadIsCur
    <3>2. CASE pc # "settle"
      BY <3>2 DEF Delivery, Range
    <3> QED BY <3>1, <3>2
  <2> QED BY <2>3, <2>4 DEF Queued
<1> QED BY <1>1, <1>2

LEMMA RangeOf ==
    ASSUME NEW S, NEW s \in Seq(S)
    PROVE  Range(s) = {s[i] : i \in 1..Len(s)}
BY DEF Range

LEMMA QueuedIsEnd ==
    ASSUME Types, Delivery, NEW b \in Nat, NEW d \in Nat, Line(b, d)
    PROVE  Queued = {done[i] : i \in (b + 1)..Len(done)}
<1> USE LeadType
<1>0. /\ Range(Lead) = {Lead[i] : i \in 1..Len(Lead)}
      /\ Range(ready) = {ready[i] : i \in 1..Len(ready)}
  BY RangeOf
<1>1. \A x \in Range(Lead) : \E i \in (b + 1)..Len(done) : done[i] = x
  <2> SUFFICES ASSUME NEW j \in 1..Len(Lead) PROVE \E i \in (b + 1)..Len(done) : done[i] = Lead[j]
    BY <1>0
  <2>1. b + j \in (b + 1)..Len(done) /\ done[b + j] = Lead[j]
    BY DEF Line
  <2> QED BY <2>1
<1>2. \A x \in Range(ready) : \E i \in (b + 1)..Len(done) : done[i] = x
  <2> SUFFICES ASSUME NEW j \in 1..Len(ready) PROVE \E i \in (b + 1)..Len(done) : done[i] = ready[j]
    BY <1>0
  <2>1. /\ b + Len(Lead) + j \in (b + 1)..Len(done)
        /\ done[b + Len(Lead) + j] = ready[j]
    BY DEF Line
  <2> QED BY <2>1
<1>3. ASSUME NEW i \in (b + 1)..Len(done) PROVE done[i] \in Range(Lead) \cup Range(ready)
  <2>1. CASE i <= b + Len(Lead)
    <3>1. i - b \in 1..Len(Lead) /\ i = b + (i - b)
      BY <2>1
    <3>2. done[i] = Lead[i - b]
      BY <3>1 DEF Line
    <3> QED BY <3>1, <3>2 DEF Range
  <2>2. CASE i > b + Len(Lead)
    <3> DEFINE k == i - (b + Len(Lead))
    <3>1. k \in 1..Len(ready) /\ i = b + Len(Lead) + k
      BY <2>2 DEF Line
    <3>2. done[i] = ready[k]
      BY <3>1 DEF Line
    <3> QED BY <3>1, <3>2 DEF Range
  <2> QED BY <2>1, <2>2
<1> QED BY <1>1, <1>2, <1>3, QueuedIsLeadAndReady

\* ---------------------------------------------------------------------------
\* What an id finds: the promise of its own call while that is unsettled, and
\* nothing once it is settled.

LEMMA HolderOfLive ==
    ASSUME Types, Table, NEW o \in 1..calls, o \in Live
    PROVE  /\ settledBy[o] = None => Holder(o) = o
           /\ settledBy[o] # None => Holder(o) = None
<1> DEFINE inRing == ring[Slot(o)]
           inMap == {p \in overflow : Id(p) = Id(o)}
<1>0. o \in Ops /\ TableTypes /\ Slot(o) \in 0..(RingSize - 1) /\ None \notin Ops
  <2>1. TableTypes /\ o \in Ops
    BY TypesParts, SizeAssumption DEF TableTypes, Ops
  <2> QED BY <2>1, SlotType, NameAssumption
<1>1. ASSUME NEW p \in Ops, p <= calls, settledBy[p] = None, Id(p) = Id(o)
      PROVE  p = o
  <2>1. p \in 1..calls
    BY <1>0, <1>1 DEF TableTypes, Ops
  <2>2. p \in Live
    BY <1>1, <2>1 DEF Live
  <2> QED BY <1>1, <2>2 DEF Table
<1>2. inRing # None => inRing \in Ops /\ inRing <= calls /\ settledBy[inRing] = None
  BY <1>0 DEF Table, TableTypes
<1>3. inRing # None /\ Id(inRing) = Id(o) => inRing = o
  BY <1>1, <1>2
<1>4. inMap \subseteq {o}
  BY <1>0, <1>1 DEF Table, TableTypes
<1>5. Holder(o) = IF inRing # None /\ Id(inRing) = Id(o) THEN inRing
                  ELSE IF inMap # {} THEN CHOOSE p \in inMap : TRUE ELSE None
  BY DEF Holder
<1>6. inMap # {} => (CHOOSE p \in inMap : TRUE) = o
  BY <1>4
<1>7. CASE settledBy[o] = None
  <2>1. inRing = o \/ o \in inMap
    BY <1>7 DEF Table
  <2> QED BY <1>0, <1>3, <1>5, <1>6, <1>7, <2>1
<1>8. CASE settledBy[o] # None
  <2>1. inRing # o \/ inRing = None
    BY <1>2, <1>8
  <2>2. o \notin inMap
    BY <1>8 DEF Table
  <2>3. inMap = {}
    BY <1>4, <2>2
  <2> QED BY <1>3, <1>5, <1>8, <2>1, <2>3
<1> QED BY <1>7, <1>8

\* ---------------------------------------------------------------------------
\* The line, one step of the pipeline at a time.

LEMMA CallKeepsLine ==
    ASSUME Pipeline, Call, NEW b \in Nat, NEW d \in Nat, Line(b, d)
    PROVE  Delivery' /\ Once' /\ Line(b, d)'
<1>0. DriverTypes /\ TableTypes /\ QueueTypes
  BY TypesParts DEF Pipeline
<1>1. /\ futures' = Append(futures, calls + 1) /\ calls' = calls + 1
      /\ UNCHANGED <<pc, at, settledBy, done, ready, parked, fresh, cur, dropped>>
  BY DEF Call, hostVars, driverVars, queueVars
<1>2. Lead' = Lead /\ \A o : Decided(o)' <=> Decided(o)
  BY <1>1 DEF Lead, Decided
<1>3. Delivery' /\ Line(b, d)'
  BY <1>1, <1>2 DEF Pipeline, Delivery, Line
<1>4. calls + 1 \in Ops
  BY <1>0, SizeAssumption DEF Call, TableTypes, Ops
<1>5. calls \in Nat /\ \A i \in 1..Len(done) : done[i] \in Nat /\ done[i] <= calls
  BY <1>0, SizeAssumption DEF Pipeline, Once, DriverTypes, TableTypes, Ops
<1>6. \A j \in 1..Len(futures') : futures'[j] = calls + 1 \/ \E k \in 1..Len(futures) : futures'[j] = futures[k]
  <2>1. /\ Len(futures') = Len(futures) + 1 /\ futures'[Len(futures) + 1] = calls + 1
        /\ \A i \in 1..Len(futures) : futures'[i] = futures[i]
    BY <1>0, <1>1, <1>4, AppendProperties DEF DriverTypes
  <2>2. Len(futures) \in Nat
    BY <1>0 DEF DriverTypes
  <2> QED BY <2>1, <2>2
<1>7. \A i \in 1..Len(done), j \in 1..Len(futures') : done[i] # futures'[j]
  <2>1. \A i \in 1..Len(done), k \in 1..Len(futures) : done[i] # futures[k]
    BY DEF Pipeline, Once
  <2>2. \A i \in 1..Len(done) : done[i] # calls + 1
    BY ONLY <1>5
  <2> QED BY ONLY <1>6, <2>1, <2>2
<1>8. Once'
  BY <1>1, <1>2, <1>5, <1>7 DEF Pipeline, Once
<1> QED BY <1>3, <1>8

LEMMA DriveReadyExtendsLine ==
    ASSUME Pipeline, DriveReady, NEW b \in Nat, NEW d \in Nat, Line(b, d)
    PROVE  Delivery' /\ Once' /\ Line(b, d)'
<1> DEFINE f == futures[idx]
           n == Len(done)
<1>0. DriverTypes /\ TableTypes /\ QueueTypes /\ Types
  BY TypesParts DEF Pipeline
<1>1. /\ idx \in 1..Len(futures) /\ f \in Ops /\ pc = "drive"
      /\ done' = Append(done, f) /\ ready' = Append(ready, f) /\ futures' = SwapRemove(futures, idx)
      /\ UNCHANGED <<pc, at, calls, settledBy, parked, fresh, cur, dropped>>
  BY <1>0 DEF DriveReady, DriverTypes, hostVars, tableVars
<1>2. Lead' = Lead /\ \A o : Decided(o)' <=> Decided(o)
  BY <1>1 DEF Lead, Decided
<1>3. /\ n \in Nat /\ Len(done') = n + 1 /\ done'[n + 1] = f
      /\ \A i \in 1..n : done'[i] = done[i]
  BY <1>0, <1>1, AppendProperties DEF DriverTypes
<1>4. /\ Len(ready) \in Nat /\ Len(ready') = Len(ready) + 1 /\ ready'[Len(ready) + 1] = f
      /\ \A i \in 1..Len(ready) : ready'[i] = ready[i]
  BY <1>0, <1>1, AppendProperties DEF QueueTypes
<1>5. \A i \in 1..Len(done') : i \in 1..n \/ i = n + 1
  BY <1>3
<1>6. \A i \in 1..n : done[i] # f
  BY <1>1 DEF Pipeline, Once
<1>7. ~Decided(f)
  BY <1>1, <1>6 DEF Pipeline, Once
<1>8. Len(Lead) \in Nat
  BY <1>0, LeadType
<1>9. Line(b, d)'
  <2>1. Len(done') = b + Len(Lead') + Len(ready')
    BY <1>2, <1>3, <1>4, <1>8 DEF Line
  <2>2. ASSUME NEW i \in 1..Len(Lead') PROVE done'[b + i] = Lead'[i]
    <3>1. /\ Lead' = Lead /\ i \in 1..Len(Lead) /\ done[b + i] = Lead[i]
          /\ n = b + Len(Lead) + Len(ready)
      BY <1>2 DEF Line
    <3>2. b + i \in 1..n
      BY ONLY <1>4, <1>8, <3>1, b \in Nat
    <3> QED BY ONLY <1>3, <3>1, <3>2
  <2>3. ASSUME NEW i \in 1..Len(ready') PROVE done'[b + Len(Lead') + i] = ready'[i]
    <3>1. CASE i = Len(ready) + 1
      <4>1. b + Len(Lead) + i = n + 1
        BY <1>4, <1>8, <3>1 DEF Line
      <4> QED BY <1>2, <1>3, <1>4, <3>1, <4>1
    <3>2. CASE i # Len(ready) + 1
      <4>1. i \in 1..Len(ready) /\ b + Len(Lead) + i \in 1..n
        BY <1>3, <1>4, <1>8, <3>2 DEF Line
      <4> QED BY <1>2, <1>3, <1>4, <4>1 DEF Line
    <3> QED BY <3>1, <3>2
  <2>4. ASSUME NEW i \in 1..Len(done')
        PROVE  (Decided(done[i])' <=> i <= d) /\ (done'[i] \in dropped' => i <= b)
    <3>1. CASE i \in 1..n
      <4>1. done'[i] = done[i] /\ (Decided(done[i]) <=> i <= d) /\ (done[i] \in dropped => i <= b)
        BY <1>3, <3>1 DEF Line
      <4> QED BY <1>1, <4>1 DEF Decided
    <3>2. CASE i = n + 1
      <4>1. ~(i <= d)
        BY <1>3, <1>4, <1>8, <3>2 DEF Line
      <4>2. done'[i] = f
        BY <1>3, <3>2
      <4> QED BY <1>1, <1>7, <4>1, <4>2 DEF Decided
    <3> QED BY <1>5, <3>1, <3>2
  <2>5. b <= d /\ d <= b + Len(Lead') /\ pc' # "settle"
    BY <1>1, <1>2 DEF Line
  <2> QED BY <2>1, <2>2, <2>3, <2>4, <2>5 DEF Line
<1>10. Once'
  <2> DEFINE sw == SwapRemove(futures, idx)
  <2>0. futures \in Seq(Ops) /\ Len(futures) \in Nat
    BY <1>0 DEF DriverTypes
  <2>a. /\ Len(sw) = Len(futures) - 1
        /\ \A j \in 1..(Len(futures) - 1) :
              sw[j] = IF j = idx THEN futures[Len(futures)] ELSE futures[j]
    BY <1>1, <2>0, SwapRemoveType
  <2>1. /\ Len(futures') = Len(futures) - 1 /\ Len(futures) \in Nat
        /\ \A j \in 1..(Len(futures) - 1) :
              futures'[j] = IF j = idx THEN futures[Len(futures)] ELSE futures[j]
    BY <1>1, <2>0, <2>a
  <2>2. \A j \in 1..Len(futures') : \E k \in 1..Len(futures) : k # idx /\ futures'[j] = futures[k]
    <3> SUFFICES ASSUME NEW j \in 1..Len(futures')
                 PROVE  \E k \in 1..Len(futures) : k # idx /\ futures'[j] = futures[k]
      OBVIOUS
    <3>1. j \in 1..(Len(futures) - 1) /\ j \in 1..Len(futures)
          /\ Len(futures) \in 1..Len(futures) /\ j # Len(futures)
      BY ONLY <2>1
    <3>2. futures'[j] = IF j = idx THEN futures[Len(futures)] ELSE futures[j]
      BY ONLY <2>1, <3>1
    <3> QED BY ONLY <3>1, <3>2
  <2>3. \A j \in 1..Len(futures') : futures'[j] # f
    BY <1>1, <2>2 DEF Pipeline, Wakers, Distinct
  <2>4. \A i \in 1..n, j \in 1..Len(futures') : done[i] # futures'[j]
    BY <2>2 DEF Pipeline, Once
  <2>5. \A i \in 1..Len(done'), j \in 1..Len(futures') : done'[i] # futures'[j]
    BY <1>3, <1>5, <2>3, <2>4
  <2>6. \A i, j \in 1..Len(done') : done'[i] = done'[j] => i = j
    BY <1>3, <1>5, <1>6 DEF Pipeline, Once
  <2>7. \A i \in 1..Len(done') : done'[i] <= calls'
    BY <1>1, <1>3, <1>5 DEF Pipeline, Once, Wakers
  <2>8. \A o \in Ops : Decided(o)' => \E i \in 1..Len(done') : done'[i] = o
    BY <1>2, <1>3 DEF Pipeline, Once
  <2> QED BY <2>5, <2>6, <2>7, <2>8 DEF Once
<1> QED BY <1>1, <1>2, <1>9, <1>10 DEF Pipeline, Delivery

LEMMA DeliverParkedKeepsLine ==
    ASSUME Pipeline, DeliverParked, NEW b \in Nat, NEW d \in Nat, Line(b, d)
    PROVE  Delivery' /\ Once' /\ Line(b, d)'
<1>1. /\ parked # <<>> /\ cur' = parked[1].batch /\ at' = 1 /\ pc' = "settle"
      /\ UNCHANGED <<calls, settledBy, futures, done, ready, parked, dropped>>
  BY DEF DeliverParked, Goto, tableVars, driverVars
<1>2. Lead' = Lead /\ \A o : Decided(o)' <=> Decided(o)
  BY <1>1 DEF Lead, Decided
<1>3. Delivery' /\ Once'
  BY <1>1, <1>2 DEF Pipeline, Delivery, Once
<1>4. Line(b, d)'
  BY <1>1, <1>2 DEF Line
<1> QED BY <1>3, <1>4

LEMMA DeliverFreshKeepsLine ==
    ASSUME Pipeline, DeliverFresh, NEW b \in Nat, NEW d \in Nat, Line(b, d)
    PROVE  Delivery' /\ Once' /\ Line(b, d)'
<1> DEFINE n == Smaller(BatchCap, Len(ready))
<1>0. ready \in Seq(Ops) /\ Len(ready) \in Nat /\ Len(done) \in Nat
  BY LeadType DEF Pipeline
<1>1. /\ parked = <<>> /\ pc = "deliver" /\ cur' = First(n, ready) /\ ready' = Rest(n, ready)
      /\ fresh' = TRUE /\ at' = 1 /\ pc' = "settle"
      /\ UNCHANGED <<calls, settledBy, futures, done, parked, dropped>>
  BY DEF DeliverFresh, MayTakeFresh, Goto, tableVars, driverVars
<1>2. n \in 0..Len(ready) /\ n <= BatchCap
  BY <1>0, SizeAssumption DEF Smaller
<1> HIDE DEF n
<1>3. Lead = <<>> /\ Len(Lead) = 0
  BY <1>1 DEF Pipeline, Delivery, Lead
<1>4. /\ Len(cur') = n /\ Len(ready') = Len(ready) - n
      /\ \A i \in 1..n : cur'[i] = ready[i]
      /\ \A i \in 1..(Len(ready) - n) : ready'[i] = ready[n + i]
  BY <1>0, <1>1, <1>2, Cut
<1>5. Lead' = cur' /\ \A o : Decided(o)' <=> Decided(o)
  BY <1>1 DEF Lead, Decided
<1>6. d = b
  BY <1>3 DEF Line
<1>7. Line(b, d)'
  <2>1. Len(done') = b + Len(Lead') + Len(ready')
    BY <1>0, <1>1, <1>2, <1>3, <1>4, <1>5 DEF Line
  <2>2. \A i \in 1..Len(ready) : done[b + i] = ready[i]
    BY <1>0, <1>3 DEF Line
  <2>3. \A i \in 1..Len(Lead') : done'[b + i] = Lead'[i]
    BY <1>0, <1>1, <1>2, <1>4, <1>5, <2>2
  <2>4. ASSUME NEW i \in 1..Len(ready') PROVE done'[b + Len(Lead') + i] = ready'[i]
    <3>0. i \in 1..(Len(ready) - n) /\ n \in Nat /\ Len(Lead') = n
      BY <1>2, <1>4, <1>5
    <3>1. n + i \in 1..Len(ready) /\ b + Len(Lead') + i = b + (n + i)
      BY <1>0, <3>0
    <3> QED BY <1>1, <1>4, <2>2, <3>0, <3>1
  <2>5. /\ \A i \in 1..Len(done') : Decided(done[i])' <=> i <= d
        /\ \A i \in 1..Len(done') : done'[i] \in dropped' => i <= b
    BY <1>1 DEF Line, Decided
  <2>6. b <= d /\ d <= b + Len(Lead') /\ b + at' - 1 <= d
    BY <1>1, <1>2, <1>4, <1>5, <1>6
  <2> QED BY <2>1, <2>3, <2>4, <2>5, <2>6 DEF Line
<1>8. Once'
  BY <1>1, <1>5 DEF Pipeline, Once
<1>9. Delivery'
  BY <1>1, <1>2, <1>4, <1>5 DEF Delivery
<1> QED BY <1>7, <1>8, <1>9

LEMMA BatchSettledLeavesLine ==
    ASSUME Pipeline, BatchSettled, NEW b \in Nat, NEW d \in Nat, Line(b, d)
    PROVE  Delivery' /\ Once' /\ Line(d, d)'
<1>0. Types /\ Delivery
  BY DEF Pipeline
<1>1. /\ pc = "settle" /\ at > Len(cur) /\ cur' = <<>> /\ fresh' = FALSE /\ pc' # "settle"
      /\ parked' = IF fresh THEN parked ELSE Tail(parked)
      /\ UNCHANGED <<calls, settledBy, futures, done, ready, dropped>>
  BY DEF BatchSettled, Goto, tableVars, driverVars
<1>2. Lead = cur
  BY <1>0, <1>1, LeadIsCur
<1>3. parked' = <<>>
  <2>1. CASE fresh
    BY <1>0, <1>1, <2>1 DEF Types, Queue
  <2>2. CASE ~fresh
    <3>1. PICK p : parked = <<p>>
      BY <1>0, <1>1, <2>2 DEF Types, Queue, AtMostOne
    <3> QED BY <1>1, <2>2, <3>1, One
  <2> QED BY <2>1, <2>2
<1>4. Lead' = <<>> /\ Len(Lead') = 0
  BY <1>1, <1>3 DEF Lead
<1>5. Len(Lead) \in Nat /\ Len(ready) \in Nat /\ Len(done) \in Nat /\ at \in Nat
  BY <1>0, LeadType
<1>6. d = b + Len(Lead)
  BY <1>1, <1>2, <1>5 DEF Line
<1>7. Line(d, d)'
  <2>0. d \in Nat
    BY <1>1, <1>2, <1>5, <1>6 DEF Line
  <2>a. /\ Len(done) = d + Len(ready)
        /\ \A i \in 1..Len(ready) : done[d + i] = ready[i]
    BY <1>1, <1>6 DEF Line
  <2>1. /\ Len(done') = d + Len(Lead') + Len(ready')
        /\ \A i \in 1..Len(Lead') : done'[d + i] = Lead'[i]
        /\ \A i \in 1..Len(ready') : done'[d + Len(Lead') + i] = ready'[i]
        /\ d <= d /\ d <= d + Len(Lead')
    BY <1>1, <1>4, <1>5, <2>0, <2>a
  <2>2. /\ \A i \in 1..Len(done') : Decided(done[i])' <=> i <= d
        /\ \A i \in 1..Len(done') : done'[i] \in dropped' => i <= d
    BY <1>1, <1>5 DEF Line, Decided
  <2> QED BY <1>1, <2>1, <2>2 DEF Line
<1>8. Once'
  BY <1>1 DEF Pipeline, Once, Decided
<1>9. Delivery'
  BY <1>1, <1>4, SizeAssumption DEF Delivery
<1> QED BY <1>7, <1>8, <1>9

\* A failed batch is parked as a whole: it keeps its place in the line.
LEMMA BatchParkedKeepsLine ==
    ASSUME Pipeline, BatchFails, dropped' = dropped,
           NEW again, again.batch = cur, parked' = <<again>>,
           NEW b \in Nat, NEW d \in Nat, Line(b, d)
    PROVE  Delivery' /\ Once' /\ Line(b, d)'
<1>0. Types /\ Delivery
  BY DEF Pipeline
<1>1. /\ pc = "settle" /\ cur' = <<>> /\ pc' # "settle"
      /\ UNCHANGED <<calls, settledBy, futures, done, ready, dropped>>
  BY DEF BatchFails, tableVars, driverVars
<1>2. Lead = cur
  BY <1>0, <1>1, LeadIsCur
<1>3. parked' # <<>> /\ parked'[1] = again
  BY One
<1>4. Lead' = Lead
  BY <1>2, <1>3 DEF Lead
<1>5. Delivery' /\ Once'
  BY <1>0, <1>1, <1>4 DEF Pipeline, Delivery, Once, Decided
<1>6. Line(b, d)'
  BY <1>1, <1>4 DEF Line, Decided
<1> QED BY <1>5, <1>6

\* A poisoned batch leaves the line: what it had not decided is lost.
LEMMA BatchDroppedLeavesLine ==
    ASSUME Pipeline, BatchFails, parked' = <<>>, dropped' = dropped \cup Range(cur),
           NEW b \in Nat, NEW d \in Nat, Line(b, d), NEW e \in Nat, e = b + Len(cur)
    PROVE  /\ Delivery' /\ Once' /\ Line(e, e)'
           /\ \A i \in 1..Len(done) : done[i] \in Range(cur) <=> b < i /\ i <= e
           /\ d <= e /\ e <= Len(done) /\ Len(cur) <= BatchCap
<1>0. Types /\ Delivery /\ cur \in Seq(Ops)
  BY LeadType DEF Pipeline
<1>1. /\ pc = "settle" /\ cur' = <<>> /\ pc' # "settle"
      /\ UNCHANGED <<calls, settledBy, futures, done, ready>>
  BY DEF BatchFails, tableVars, driverVars
<1>2. Lead = cur
  BY <1>0, <1>1, LeadIsCur
<1>3. Lead' = <<>> /\ Len(Lead') = 0
  BY <1>1 DEF Lead
<1>4. Len(cur) \in Nat /\ Len(ready) \in Nat /\ Len(done) \in Nat /\ Len(done) = e + Len(ready)
  BY <1>0, <1>2, LeadType DEF Line
<1>6. Range(cur) = {cur[i] : i \in 1..Len(cur)}
  BY <1>0, RangeOf
<1>7. \A i \in 1..Len(cur) : b + i \in 1..Len(done) /\ done[b + i] = cur[i]
  BY <1>2, <1>4 DEF Line
<1>8. ASSUME NEW i \in 1..Len(done)
      PROVE  done[i] \in Range(cur) <=> b < i /\ i <= e
  <2>1. ASSUME done[i] \in Range(cur) PROVE b < i /\ i <= e
    <3>1. PICK k \in 1..Len(cur) : done[i] = cur[k]
      BY <1>6, <2>1
    <3>2. i = b + k
      BY <1>7, <3>1 DEF Pipeline, Once
    <3> QED BY <1>4, <3>1, <3>2
  <2>2. ASSUME b < i, i <= e PROVE done[i] \in Range(cur)
    <3>1. i - b \in 1..Len(cur) /\ b + (i - b) = i
      BY <1>4, <2>2
    <3>2. done[i] = cur[i - b]
      BY <1>7, <3>1
    <3> QED BY <1>6, <3>1, <3>2
  <2> QED BY <2>1, <2>2
<1>9. /\ \A i \in 1..Len(done') : Decided(done[i])' <=> i <= e
      /\ \A i \in 1..Len(done') : done'[i] \in dropped' => i <= e
  <2> SUFFICES ASSUME NEW i \in 1..Len(done)
               PROVE  /\ Decided(done[i])' <=> i <= e
                      /\ done[i] \in dropped' => i <= e
    BY <1>1
  <2>1. /\ Decided(done[i]) <=> i <= d
        /\ done[i] \in dropped => i <= b
        /\ done[i] \in Range(cur) <=> b < i /\ i <= e
        /\ b <= d /\ d <= e
    BY <1>2, <1>8 DEF Line
  <2>2. Decided(done[i])' <=> Decided(done[i]) \/ done[i] \in Range(cur)
    BY <1>1 DEF Decided
  <2> QED BY <1>4, <2>1, <2>2
<1>10. Line(e, e)'
  <2>1. /\ Len(done') = e + Len(Lead') + Len(ready')
        /\ \A i \in 1..Len(Lead') : done'[e + i] = Lead'[i]
        /\ \A i \in 1..Len(ready') : done'[e + Len(Lead') + i] = ready'[i]
        /\ e <= e /\ e <= e + Len(Lead')
    BY <1>1, <1>2, <1>3, <1>4 DEF Line
  <2> QED BY <1>1, <1>9, <2>1 DEF Line
<1>11. Once'
  <2>1. ASSUME NEW o \in Ops, Decided(o)' PROVE \E i \in 1..Len(done') : done'[i] = o
    <3>1. Decided(o) \/ o \in Range(cur)
      BY <1>1, <2>1 DEF Decided
    <3>2. CASE Decided(o)
      BY <1>1, <3>2 DEF Pipeline, Once
    <3>3. CASE o \in Range(cur)
      BY <1>1, <1>6, <1>7, <3>3
    <3> QED BY <3>1, <3>2, <3>3
  <2> QED BY <1>1, <2>1 DEF Pipeline, Once
<1>12. Delivery'
  BY <1>1, <1>3, SizeAssumption DEF Delivery
<1>13. d <= e /\ e <= Len(done) /\ Len(cur) <= BatchCap
  BY <1>0, <1>2, <1>4 DEF Line, Delivery
<1> QED BY <1>8, <1>10, <1>11, <1>12, <1>13

\* A batch that fails is parked or dropped, whatever it came from.
LEMMA BatchFailsCases ==
    ASSUME Types, BatchFails
    PROVE  \/ dropped' = dropped /\ \E again : again.batch = cur /\ parked' = <<again>>
           \/ dropped' = dropped \cup Range(cur) /\ parked' = <<>>
<1> DEFINE again == [batch |-> cur, attempts |-> Tries]
<1>0. again.batch = cur
  OBVIOUS
<1> HIDE DEF again
<1>1. CASE fresh /\ parked' = ParkFresh(again) /\ UNCHANGED dropped
  <2>1. parked = <<>>
    BY <1>1 DEF Types, Queue, BatchFails
  <2>2. parked' = <<again>>
    BY <1>1, <2>1, One DEF ParkFresh
  <2> QED BY <1>0, <1>1, <2>2
<1>2. ASSUME ~fresh PROVE Tail(parked) = <<>> /\ <<again>> \o Tail(parked) = <<again>>
  <2>1. PICK p : parked = <<p>>
    BY <1>2 DEF Types, Queue, AtMostOne, BatchFails
  <2> QED BY <2>1, One
<1>3. CASE ~fresh /\ parked' = Tail(parked) /\ dropped' = dropped \cup Range(cur)
  BY <1>2, <1>3
<1>4. CASE ~fresh /\ parked' = <<again>> \o Tail(parked) /\ UNCHANGED dropped
  BY <1>0, <1>2, <1>4
<1> QED BY <1>1, <1>3, <1>4, Zenon DEF BatchFails, again

\* One settle call: the triplet of a settled promise is absorbed, any other
\* settles the promise of its own op, and that op is the next in line.
LEMMA SettleOneEffect ==
    ASSUME Pipeline, SettleOne, NEW b \in Nat, NEW d \in Nat, Line(b, d)
    PROVE  /\ cur[at] \in 1..calls /\ cur[at] \in Ops
           /\ b + at \in 1..Len(done) /\ done[b + at] = cur[at]
           /\ \/ UNCHANGED <<ring, overflow, settledBy>> /\ b + at <= d
              \/ /\ settledBy[cur[at]] = None /\ cur[at] \notin dropped /\ b + at = d + 1
                 /\ settledBy' = [settledBy EXCEPT ![cur[at]] = cur[at]]
                 /\ ring' = IF ring[Slot(cur[at])] = cur[at]
                            THEN [ring EXCEPT ![Slot(cur[at])] = None] ELSE ring
                 /\ overflow' = overflow \ {cur[at]}
<1> DEFINE x == cur[at]
<1>0. Types /\ Delivery /\ Table
  BY DEF Pipeline
<1>1. pc = "settle" /\ at \in 1..Len(cur) /\ SettlePromise(x) /\ Lead = cur
  BY <1>0, LeadType, LeadIsCur DEF SettleOne
<1>2. b + at \in 1..Len(done) /\ done[b + at] = x
  <2>1. Len(cur) \in Nat /\ Len(ready) \in Nat
    BY <1>0, LeadType
  <2>2. Len(done) = b + Len(cur) + Len(ready) /\ done[b + at] = cur[at]
    BY <1>1 DEF Line
  <2>3. b + at \in 1..Len(done)
    BY ONLY <1>1, <2>1, <2>2, b \in Nat
  <2> QED BY <2>2, <2>3
<1>3. x \in Ops /\ x \in 1..calls
  <2>1. x \in Ops
    BY <1>0, <1>1, LeadType
  <2> QED BY <1>2, <2>1, <1>0, TypesParts, SizeAssumption DEF Pipeline, Once, TableTypes, Ops
<1>4. x \in Live
  <2>1. b + at \in (b + 1)..Len(done)
    BY <1>1, <1>2
  <2>2. x \in Queued
    BY <1>0, <1>2, <2>1, QueuedIsEnd
  <2> QED BY <2>2 DEF Live
<1>5. x \notin dropped
  BY <1>1, <1>2 DEF Line
<1>6. Decided(x) <=> b + at <= d
  BY <1>2 DEF Line
<1>7. CASE settledBy[x] = None
  <2>1. Holder(x) = x /\ x # None
    BY <1>0, <1>3, <1>4, <1>7, HolderOfLive, NameAssumption
  <2>2. ~(b + at <= d) /\ b + at - 1 <= d
    BY <1>1, <1>5, <1>6, <1>7 DEF Line, Decided
  <2>3. b + at = d + 1
    BY <1>1, <2>2
  <2> QED BY <1>1, <1>2, <1>3, <1>5, <1>7, <2>1, <2>3 DEF SettlePromise
<1>8. CASE settledBy[x] # None
  <2>1. Holder(x) = None
    BY <1>0, <1>3, <1>4, <1>8, HolderOfLive
  <2>2. b + at <= d
    BY <1>6, <1>8 DEF Decided
  <2> QED BY <1>1, <1>2, <1>3, <2>1, <2>2 DEF SettlePromise
<1> QED BY <1>7, <1>8

LEMMA SettleOneMovesOn ==
    ASSUME Pipeline, SettleOne, NEW b \in Nat, NEW d \in Nat, Line(b, d)
    PROVE  Delivery' /\ Once' /\ \E e \in Nat : Line(b, e)'
<1> DEFINE x == cur[at]
<1>0. Types /\ Delivery /\ TableTypes /\ HostTypes
  BY TypesParts DEF Pipeline
<1>1. /\ pc = "settle" /\ at' = at + 1 /\ at \in 1..Len(cur)
      /\ UNCHANGED <<pc, calls, futures, done, ready, parked, fresh, cur, dropped>>
  BY <1>0, LeadType DEF SettleOne, hostVars, driverVars, queueVars
<1>2. Lead' = Lead /\ Lead = cur
  BY <1>0, <1>1, LeadIsCur DEF Lead
<1>3. Delivery'
  BY <1>0, <1>1, <1>2 DEF Delivery
<1>4. CASE UNCHANGED <<ring, overflow, settledBy>> /\ b + at <= d
  <2>1. Line(b, d)'
    BY <1>0, <1>1, <1>2, <1>4 DEF Line, Decided, HostTypes
  <2>2. Once'
    BY <1>1, <1>4 DEF Pipeline, Once, Decided
  <2> QED BY <1>3, <2>1, <2>2
<1>5. CASE /\ settledBy[x] = None /\ x \notin dropped /\ b + at = d + 1
           /\ settledBy' = [settledBy EXCEPT ![x] = x]
  <2>1. x \in Ops /\ d + 1 \in 1..Len(done) /\ done[d + 1] = x /\ x # None
    BY <1>5, SettleOneEffect, NameAssumption
  <2> HIDE DEF x
  <2>2. \A o \in Ops : Decided(o)' <=> Decided(o) \/ o = x
    BY <1>0, <1>1, <1>5, <2>1 DEF Decided, TableTypes
  <2>3. \A i \in 1..Len(done) : done[i] \in Ops /\ (done[i] = x <=> i = d + 1)
    BY <1>0, <2>1, LeadType DEF Pipeline, Once
  <2>4. \A i \in 1..Len(done') : Decided(done[i])' <=> i <= d + 1
    <3> SUFFICES ASSUME NEW i \in 1..Len(done) PROVE Decided(done[i])' <=> i <= d + 1
      BY <1>1
    <3>1. done[i] \in Ops /\ (Decided(done[i]) <=> i <= d) /\ (done[i] = x <=> i = d + 1)
      BY <2>3 DEF Line
    <3>2. Decided(done[i])' <=> Decided(done[i]) \/ done[i] = x
      BY <1>0, <1>1, <1>5, <2>1, <3>1 DEF Decided, TableTypes
    <3> QED BY <3>1, <3>2
  <2>5. d + 1 \in Nat /\ d + 1 <= b + Len(Lead)
    BY <1>1, <1>2, <1>5
  <2>6. Line(b, d + 1)'
    BY <1>1, <1>2, <1>5, <2>4, <2>5 DEF Line
  <2>7. Once'
    BY <1>1, <2>1, <2>2 DEF Pipeline, Once
  <2> QED BY <1>3, <2>5, <2>6, <2>7
<1> QED BY <1>4, <1>5, SettleOneEffect

\* ---------------------------------------------------------------------------
\* The promise table.

\* Steps that leave the table alone and bring no op back to life.
LEMMA TableKept ==
    ASSUME Table, UNCHANGED <<calls, ring, overflow, settledBy>>, Live' \subseteq Live
    PROVE  Table'
BY DEF Table

LEMMA LiveShrinks ==
    ASSUME UNCHANGED <<calls, settledBy>>, Queued' \subseteq Live
    PROVE  Live' \subseteq Live
BY DEF Live

EndOfLine == Types /\ Delivery =>
    \A b, d \in Nat : Line(b, d) => Queued = {done[i] : i \in (b + 1)..Len(done)}

LEMMA EndOfLineHolds == EndOfLine
BY QueuedIsEnd DEF EndOfLine

LEMMA QueuedIsEndAfter ==
    ASSUME Types', Delivery', NEW b \in Nat, NEW d \in Nat, Line(b, d)'
    PROVE  Queued' = {done'[i] : i \in (b + 1)..Len(done')}
<1>1. EndOfLine'
  BY EndOfLineHolds, PTL
<1> QED BY <1>1 DEF EndOfLine

\* The line only ever loses ops at its head: nothing comes back to life.
LEMMA TableKeptByLine ==
    ASSUME Pipeline, Types', Delivery', UNCHANGED <<calls, ring, overflow, settledBy, done>>,
           NEW b \in Nat, NEW d \in Nat, Line(b, d),
           NEW c \in Nat, NEW e \in Nat, Line(c, e)', b <= c
    PROVE  Table'
<1>1. Queued = {done[i] : i \in (b + 1)..Len(done)}
  BY QueuedIsEnd DEF Pipeline
<1>2. Queued' = {done[i] : i \in (c + 1)..Len(done)}
  BY QueuedIsEndAfter
<1>3. Len(done) \in Nat
  BY LeadType DEF Pipeline
<1>4. Queued' \subseteq Queued
  BY <1>1, <1>2, <1>3
<1>5. Live' \subseteq Live
  BY <1>4, LiveShrinks DEF Live
<1> QED BY <1>5, TableKept DEF Pipeline

LEMMA DriveReadyKeepsTable ==
    ASSUME Pipeline, DriveReady, Types', Delivery',
           NEW b \in Nat, NEW d \in Nat, Line(b, d), Line(b, d)'
    PROVE  Table'
<1> DEFINE f == futures[idx]
<1>0. DriverTypes /\ TableTypes
  BY TypesParts DEF Pipeline
<1>1. /\ idx \in 1..Len(futures) /\ f \in Ops /\ done' = Append(done, f)
      /\ UNCHANGED <<calls, ring, overflow, settledBy>>
  BY <1>0 DEF DriveReady, DriverTypes, tableVars
<1>2. Queued = {done[i] : i \in (b + 1)..Len(done)}
  BY QueuedIsEnd DEF Pipeline
<1>3. Queued' = {done'[i] : i \in (b + 1)..Len(done')}
  BY QueuedIsEndAfter
<1>4. /\ Len(done) \in Nat /\ Len(done') = Len(done) + 1 /\ done'[Len(done) + 1] = f
      /\ \A i \in 1..Len(done) : done'[i] = done[i]
  BY <1>0, <1>1, AppendProperties DEF DriverTypes
<1>5. f \in Live
  <2>1. f <= calls
    BY <1>1 DEF Pipeline, Wakers
  <2>2. f \in 1..calls
    BY <1>0, <1>1, <2>1, SizeAssumption DEF Ops, TableTypes
  <2>3. ~Decided(f)
    BY <1>1 DEF Pipeline, Once
  <2> QED BY <2>2, <2>3 DEF Live, Decided
<1>6. Queued' \subseteq Queued \cup {f}
  <2>1. \A i \in (b + 1)..Len(done') : i = Len(done) + 1 \/ (i \in (b + 1)..Len(done) /\ i \in 1..Len(done))
    BY <1>4
  <2> QED BY <1>2, <1>3, <1>4, <2>1
<1>7. Live' \subseteq Live
  BY <1>1, <1>5, <1>6, LiveShrinks DEF Live
<1> QED BY <1>1, <1>7, TableKept DEF Pipeline

LEMMA SettleOneKeepsTable ==
    ASSUME Pipeline, SettleOne, NEW b \in Nat, NEW d \in Nat, Line(b, d)
    PROVE  Table'
<1> DEFINE x == cur[at]
<1>0. TableTypes /\ Table
  BY TypesParts DEF Pipeline
<1>1. UNCHANGED <<calls, ready, cur, parked>>
  BY DEF SettleOne, queueVars
<1>2. Queued' = Queued
  BY <1>1 DEF Queued
<1>3. CASE UNCHANGED <<ring, overflow, settledBy>>
  BY <1>0, <1>1, <1>2, <1>3, LiveShrinks, TableKept DEF Live
<1>4. CASE /\ settledBy[x] = None
           /\ settledBy' = [settledBy EXCEPT ![x] = x]
           /\ ring' = IF ring[Slot(x)] = x THEN [ring EXCEPT ![Slot(x)] = None] ELSE ring
           /\ overflow' = overflow \ {x}
  <2>1. x \in Ops /\ x \in 1..calls /\ Slot(x) \in 0..(RingSize - 1) /\ x # None
    BY SettleOneEffect, SlotType, NameAssumption
  <2> HIDE DEF x
  <2>2. \A o \in Ops : settledBy'[o] = IF o = x THEN x ELSE settledBy[o]
    BY <1>0, <1>4 DEF TableTypes
  <2>3. \A s \in 0..(RingSize - 1) : ring'[s] # None => ring'[s] = ring[s] /\ ring[s] # x
    <3> SUFFICES ASSUME NEW s \in 0..(RingSize - 1), ring'[s] # None
                 PROVE  ring'[s] = ring[s] /\ ring[s] # x
      OBVIOUS
    <3>1. ring[s] = x => s = Slot(x)
      BY <1>0, <2>1 DEF Table
    <3> QED BY <1>0, <1>4, <2>1, <3>1 DEF TableTypes
  <2>4. \A o \in Ops : o # x => ring'[Slot(o)] = o \/ ring[Slot(o)] # o
    <3> SUFFICES ASSUME NEW o \in Ops, o # x, ring[Slot(o)] = o PROVE ring'[Slot(o)] = o
      OBVIOUS
    <3>1. Slot(o) \in 0..(RingSize - 1)
      BY SlotType
    <3> QED BY <1>0, <1>4, <2>1, <3>1 DEF TableTypes
  <2>5. \A o \in Ops : settledBy'[o] \in {None, o}
    BY <1>0, <2>2 DEF Table
  <2>6. \A s \in 0..(RingSize - 1) : ring'[s] # None =>
           ring'[s] <= calls' /\ Slot(ring'[s]) = s /\ settledBy'[ring'[s]] = None
    BY <1>0, <1>1, <2>2, <2>3 DEF Table, TableTypes
  <2>7. \A p \in overflow' : p <= calls' /\ settledBy'[p] = None
    BY <1>0, <1>1, <1>4, <2>2 DEF Table, TableTypes
  <2>8. \A o \in 1..calls' : settledBy'[o] = None => ring'[Slot(o)] = o \/ o \in overflow'
    <3> SUFFICES ASSUME NEW o \in 1..calls, settledBy'[o] = None
                 PROVE  ring'[Slot(o)] = o \/ o \in overflow'
      BY <1>1
    <3>1. o \in Ops
      BY <1>0, SizeAssumption DEF TableTypes, Ops
    <3>2. o # x /\ settledBy[o] = None
      BY <2>1, <2>2, <3>1
    <3>3. ring[Slot(o)] = o \/ o \in overflow
      BY <1>0, <3>2 DEF Table
    <3> QED BY <1>4, <2>4, <3>1, <3>2, <3>3
  <2>9. Live' \subseteq Live
    <3>1. \A o \in 1..calls : settledBy'[o] = None => settledBy[o] = None
      <4>1. \A o \in 1..calls : o \in Ops
        BY <1>0, SizeAssumption DEF TableTypes, Ops
      <4> QED BY <2>1, <2>2, <4>1
    <3> QED BY <1>1, <1>2, <3>1 DEF Live
  <2>10. \A p, q \in Live' : Id(p) = Id(q) => p = q
    BY <1>0, <2>9 DEF Table
  <2> QED BY <2>5, <2>6, <2>7, <2>8, <2>10 DEF Table
<1> QED BY <1>3, <1>4, SettleOneEffect

\* A new promise may evict another from its slot; the guard of Call keeps the
\* ids of live ops apart.
LEMMA CallKeepsTable ==
    ASSUME Pipeline, Call, NEW b \in Nat, NEW d \in Nat, Line(b, d)
    PROVE  Table'
<1> DEFINE x == calls + 1
<1>0. TableTypes /\ DriverTypes /\ Table
  BY TypesParts DEF Pipeline
<1>1. /\ \A p \in Live : Id(p) # Id(x)
      /\ calls' = x /\ overflow' = overflow \cup ({ring[Slot(x)]} \ {None})
      /\ ring' = [ring EXCEPT ![Slot(x)] = x]
      /\ UNCHANGED <<settledBy, ready, cur, parked>>
  BY DEF Call, Evicted, queueVars
<1>2. x \in Ops /\ calls \in Nat /\ Slot(x) \in 0..(RingSize - 1) /\ x # None
  <2>1. x \in Ops /\ calls \in Nat
    BY <1>0, SizeAssumption DEF Call, TableTypes, Ops
  <2> QED BY <2>1, SlotType, NameAssumption
<1>3. settledBy[x] = None
  <2>1. \A i \in 1..Len(done) : done[i] # x
    BY <1>0, <1>2, SizeAssumption DEF Pipeline, Once, DriverTypes, Ops
  <2> QED BY <1>2, <2>1 DEF Pipeline, Once, Decided
<1> HIDE DEF x
<1>4. \A s \in 0..(RingSize - 1) : ring'[s] = IF s = Slot(x) THEN x ELSE ring[s]
  BY <1>0, <1>1 DEF TableTypes
<1>5. \A o \in 1..x : o = x \/ o \in 1..calls
  BY <1>2 DEF x
<1>6. \A o \in Ops : o <= calls => o <= x
  BY <1>2, SizeAssumption DEF x, Ops
<1>7. \A o \in Ops : settledBy'[o] \in {None, o}
  BY <1>0, <1>1 DEF Table
<1>8. \A s \in 0..(RingSize - 1) : ring'[s] # None =>
         ring'[s] <= calls' /\ Slot(ring'[s]) = s /\ settledBy'[ring'[s]] = None
  <2>1. x <= x
    BY <1>2, SizeAssumption DEF Ops
  <2> QED BY <1>0, <1>1, <1>3, <1>4, <1>6, <2>1 DEF Table, TableTypes
<1>9. \A p \in overflow' : p <= calls' /\ settledBy'[p] = None
  BY <1>0, <1>1, <1>2, <1>6 DEF Table, TableTypes
<1>10. ASSUME NEW o \in 1..calls', settledBy'[o] = None
       PROVE  ring'[Slot(o)] = o \/ o \in overflow'
  <2>1. CASE o = x
    BY <1>2, <1>4, <2>1
  <2>2. CASE o # x
    <3>1. o \in 1..calls /\ o \in Ops
      BY <1>0, <1>1, <1>5, <2>2, SizeAssumption DEF TableTypes, Ops
    <3>2. Slot(o) \in 0..(RingSize - 1) /\ o # None
      BY <3>1, SlotType, NameAssumption
    <3>3. ring[Slot(o)] = o \/ o \in overflow
      BY <1>0, <1>1, <1>10, <3>1 DEF Table
    <3> QED BY <1>1, <1>4, <3>2, <3>3
  <2> QED BY <2>1, <2>2
<1>11. Live' \subseteq Live \cup {x}
  <2>1. Queued' = Queued
    BY <1>1 DEF Queued
  <2> QED BY <1>1, <1>5, <2>1 DEF Live
<1>12. \A p, q \in Live' : Id(p) = Id(q) => p = q
  BY <1>0, <1>1, <1>11 DEF Table
<1> QED BY <1>7, <1>8, <1>9, <1>10, <1>12 DEF Table

\* ---------------------------------------------------------------------------
\* The pipeline's invariant.

LEMMA PipelineStep == Pipeline /\ [Next]_vars => Pipeline'
<1> SUFFICES ASSUME Pipeline, [Next]_vars PROVE Pipeline'
  OBVIOUS
<1>1. Types' /\ Wakers'
  BY TypesStep, WakersStep DEF Pipeline
<1>2. PICK b \in Nat, d \in Nat : Line(b, d)
  BY DEF Pipeline, InLine
<1>3. CASE Still
  <2>1. Delivery' /\ Once' /\ Line(b, d)'
    BY <1>2, <1>3, StillStep DEF Pipeline
  <2>2. Table'
    BY <1>1, <1>2, <1>3, <2>1, TableKeptByLine DEF Still
  <2> QED BY <1>1, <2>1, <2>2 DEF Pipeline, InLine
<1>4. CASE Call
  <2>1. Delivery' /\ Once' /\ Line(b, d)' /\ Table'
    BY <1>2, <1>4, CallKeepsLine, CallKeepsTable
  <2> QED BY <1>1, <2>1 DEF Pipeline, InLine
<1>5. CASE DriveReady
  <2>1. Delivery' /\ Once' /\ Line(b, d)'
    BY <1>2, <1>5, DriveReadyExtendsLine
  <2>2. Table'
    BY <1>1, <1>2, <1>5, <2>1, DriveReadyKeepsTable
  <2> QED BY <1>1, <2>1, <2>2 DEF Pipeline, InLine
<1>6. CASE DeliverParked \/ DeliverFresh
  <2>1. Delivery' /\ Once' /\ Line(b, d)'
    BY <1>2, <1>6, DeliverParkedKeepsLine, DeliverFreshKeepsLine
  <2>2. UNCHANGED <<calls, ring, overflow, settledBy, done>>
    BY <1>6 DEF DeliverParked, DeliverFresh, tableVars, driverVars
  <2>3. Table'
    BY <1>1, <1>2, <2>1, <2>2, TableKeptByLine
  <2> QED BY <1>1, <2>1, <2>3 DEF Pipeline, InLine
<1>7. CASE SettleOne
  <2>1. Delivery' /\ Once' /\ \E e \in Nat : Line(b, e)'
    BY <1>2, <1>7, SettleOneMovesOn
  <2>2. Table'
    BY <1>2, <1>7, SettleOneKeepsTable
  <2> QED BY <1>1, <2>1, <2>2 DEF Pipeline, InLine
<1>8. CASE BatchSettled
  <2>1. Delivery' /\ Once' /\ Line(d, d)'
    BY <1>2, <1>8, BatchSettledLeavesLine
  <2>2. UNCHANGED <<calls, ring, overflow, settledBy, done>> /\ b <= d
    BY <1>2, <1>8 DEF BatchSettled, tableVars, driverVars, Line
  <2>3. Table'
    BY <1>1, <1>2, <2>1, <2>2, TableKeptByLine
  <2> QED BY <1>1, <2>1, <2>3 DEF Pipeline, InLine
<1>9. CASE BatchFails
  <2>0. UNCHANGED <<calls, ring, overflow, settledBy, done>>
    BY <1>9 DEF BatchFails, tableVars, driverVars
  <2>1. CASE dropped' = dropped /\ \E again : again.batch = cur /\ parked' = <<again>>
    <3>1. Delivery' /\ Once' /\ Line(b, d)'
      BY <1>2, <1>9, <2>1, BatchParkedKeepsLine
    <3>2. Table'
      BY <1>1, <1>2, <2>0, <3>1, TableKeptByLine
    <3> QED BY <1>1, <3>1, <3>2 DEF Pipeline, InLine
  <2>2. CASE dropped' = dropped \cup Range(cur) /\ parked' = <<>>
    <3>1. PICK e \in Nat : e = b + Len(cur)
      BY LeadType DEF Pipeline
    <3>2. Delivery' /\ Once' /\ Line(e, e)'
      BY <1>2, <1>9, <2>2, <3>1, BatchDroppedLeavesLine
    <3>3. b <= e
      BY <3>1, LeadType DEF Pipeline
    <3>4. Table'
      BY <1>1, <1>2, <2>0, <3>2, <3>3, TableKeptByLine
    <3> QED BY <1>1, <3>2, <3>4 DEF Pipeline, InLine
  <2> QED BY <1>9, <2>1, <2>2, BatchFailsCases DEF Pipeline
<1> QED BY <1>3, <1>4, <1>5, <1>6, <1>7, <1>8, <1>9, PipelineSteps

LEMMA PipelineInit == Init => Pipeline
<1> SUFFICES ASSUME Init PROVE Pipeline
  OBVIOUS
<1>1. Types
  BY TypesInit
<1>2. Wakers
  BY DEF Init, Wakers, Distinct
<1>3. /\ Lead = <<>> /\ done = <<>> /\ ready = <<>> /\ cur = <<>> /\ pc = "out" /\ parked = <<>>
      /\ calls = 0 /\ overflow = {} /\ Len(Lead) = 0 /\ Len(done) = 0 /\ Len(ready) = 0
      /\ \A o \in Ops : settledBy[o] = None /\ ~Decided(o)
      /\ \A i \in 0..(RingSize - 1) : ring[i] = None
  BY DEF Init, Lead, Decided
<1>4. Delivery
  BY <1>3, SizeAssumption DEF Delivery
<1>5. Once
  BY <1>3 DEF Once
<1>6. Line(0, 0)
  BY <1>3 DEF Line
<1>7. Queued = {}
  BY <1>3 DEF Queued, Range
<1>8. Live = {}
  BY <1>3, <1>7 DEF Live
<1>9. Table
  BY <1>3, <1>8 DEF Table
<1> QED BY <1>1, <1>2, <1>4, <1>5, <1>6, <1>9 DEF Pipeline, InLine

LEMMA PipelineHolds == Spec => []Pipeline
BY PipelineInit, PipelineStep, PTL DEF Spec

\* A promise is settled with the outcome of its own op and of no other, and
\* until then its id finds it: for every ring size, every wrap of the ids,
\* every overflow into the map and every batch that is delivered again
\* (__diting_register, __diting_settle, SettleQueue::deliver).
THEOREM OwnOutcomeHolds == Spec => []OwnOutcome
<1>1. Pipeline => OwnOutcome
  <2> SUFFICES ASSUME Pipeline PROVE OwnOutcome
    OBVIOUS
  <2>1. \A o \in Ops : settledBy[o] \in {None, o}
    BY DEF Pipeline, Table
  <2>2. ASSUME NEW o \in 1..calls, settledBy[o] = None PROVE Holder(o) = o
    <3>1. o \in Live
      BY <2>2 DEF Live
    <3> QED BY <2>2, <3>1, HolderOfLive DEF Pipeline
  <2> QED BY <2>1, <2>2 DEF OwnOutcome
<1> QED BY <1>1, PipelineHolds, PTL

\* ---------------------------------------------------------------------------
\* The loop implements Settlement.

LEMMA OutcomeOf ==
    ASSUME NEW o \in Ops
    PROVE  Outcome[o] = "pending" <=> ~Decided(o)
BY DEF Outcome, Decided

\* The turn is the place after the decided prefix of the line.
LEMMA TurnIs ==
    ASSUME Pipeline, NEW b \in Nat, NEW d \in Nat, Line(b, d)
    PROVE  Promise!Turn = d + 1
<1> DEFINE D == {o \in Ops : Outcome[o] # "pending"}
           f == [i \in 1..d |-> done[i]]
<1>0. done \in Seq(Ops) /\ Len(done) \in Nat /\ d <= Len(done)
  BY LeadType DEF Pipeline, Line
<1>1. \A o \in Ops : o \in D <=> Decided(o)
  BY OutcomeOf
<1>2. \A i \in 1..d : done[i] \in D
  BY <1>0, <1>1 DEF Line
<1>3. \A o \in D : \E i \in 1..d : done[i] = o
  <2> SUFFICES ASSUME NEW o \in D PROVE \E i \in 1..d : done[i] = o
    OBVIOUS
  <2>1. PICK i \in 1..Len(done) : done[i] = o
    BY <1>1 DEF Pipeline, Once
  <2>2. i <= d
    BY <1>1, <2>1 DEF Line
  <2> QED BY <1>0, <2>1, <2>2
<1>4. \A i, j \in 1..d : f[i] = f[j] => i = j
  BY <1>0 DEF Pipeline, Once
<1> HIDE DEF D
<1>5. f \in Bijection(1..d, D)
  <2>1. f \in [1..d -> D]
    BY <1>2
  <2>2. \A o \in D : \E i \in 1..d : f[i] = o
    BY <1>3
  <2> QED BY <1>4, <2>1, <2>2 DEF Bijection, Injection, IsInjective, Surjection
<1>6. Cardinality(D) = d
  BY <1>5, FS_CountingElements DEF ExistsBijection
<1>7. Promise!Turn = Cardinality(D) + 1
  <2>1. Promise!Cardinality(D) = Cardinality(D)
    BY DEF Promise!Cardinality, Cardinality
  <2> QED BY <2>1 DEF Promise!Turn, Promise!Decided, D
<1> QED BY <1>6, <1>7

LEMMA StillStutters ==
    ASSUME UNCHANGED <<done, settledBy, dropped>>
    PROVE  UNCHANGED <<done, Outcome>>
BY DEF Outcome

LEMMA DriveReadyCompletes ==
    ASSUME Pipeline, DriveReady
    PROVE  Promise!Complete(futures[idx])
<1>1. idx \in 1..Len(futures)
  BY TypesParts DEF Pipeline, DriveReady, DriverTypes
<1>2. \A i \in 1..Len(done) : done[i] # futures[idx]
  BY <1>1 DEF Pipeline, Once
<1>3. done' = Append(done, futures[idx]) /\ UNCHANGED <<settledBy, dropped>>
  BY DEF DriveReady, tableVars
<1>4. Outcome' = Outcome
  BY <1>3 DEF Outcome
<1> QED BY <1>2, <1>3, <1>4 DEF Promise!Complete

LEMMA SettleOneSettles ==
    ASSUME Pipeline, SettleOne, NEW b \in Nat, NEW d \in Nat, Line(b, d)
    PROVE  Promise!Settle \/ UNCHANGED <<done, Outcome>>
<1> DEFINE x == cur[at]
<1>1. UNCHANGED <<done, dropped>>
  BY DEF SettleOne, driverVars, queueVars
<1>2. CASE UNCHANGED <<ring, overflow, settledBy>>
  BY <1>1, <1>2, StillStutters
<1>3. CASE /\ settledBy[x] = None /\ x \notin dropped /\ b + at = d + 1
           /\ settledBy' = [settledBy EXCEPT ![x] = x]
  <2>1. x \in Ops /\ d + 1 \in 1..Len(done) /\ done[d + 1] = x /\ x # None
    BY <1>3, SettleOneEffect, NameAssumption
  <2> HIDE DEF x
  <2>2. Promise!Turn = d + 1
    BY TurnIs
  <2>3. settledBy \in [Ops -> Ops \cup {None}]
    BY TypesParts DEF Pipeline, TableTypes
  <2>4. \A o \in Ops : settledBy'[o] = IF o = x THEN x ELSE settledBy[o]
    BY <1>3, <2>3
  <2>5. Outcome' = [Outcome EXCEPT ![x] = "settled"]
    BY <1>1, <2>1, <2>4 DEF Outcome
  <2>6. d + 1 <= Len(done)
    BY <2>1
  <2> QED BY <1>1, <2>1, <2>2, <2>5, <2>6 DEF Promise!Settle
<1> QED BY <1>2, <1>3, SettleOneEffect

LEMMA BatchFailsLoses ==
    ASSUME Pipeline, BatchFails, NEW b \in Nat, NEW d \in Nat, Line(b, d)
    PROVE  (\E k \in 1..BatchCap : Promise!Lose(k)) \/ UNCHANGED <<done, Outcome>>
<1>1. UNCHANGED <<done, settledBy>>
  BY DEF BatchFails, tableVars, driverVars
<1>2. CASE dropped' = dropped
  BY <1>1, <1>2, StillStutters
<1>3. CASE dropped' = dropped \cup Range(cur) /\ parked' = <<>>
  <2>1. PICK e \in Nat : e = b + Len(cur)
    BY LeadType DEF Pipeline
  <2>2. /\ \A i \in 1..Len(done) : done[i] \in Range(cur) <=> b < i /\ i <= e
        /\ d <= e /\ e <= Len(done) /\ Len(cur) <= BatchCap
    BY <1>3, <2>1, BatchDroppedLeavesLine
  <2>3. b <= d /\ Len(done) \in Nat /\ Len(cur) \in Nat
    BY LeadType DEF Line, Pipeline
  <2>4. ASSUME NEW o \in Ops
        PROVE  (\E i \in (d + 1)..e : done[i] = o) <=> o \in Range(cur) /\ ~Decided(o)
    <3>1. ASSUME NEW i \in (d + 1)..e, done[i] = o PROVE o \in Range(cur) /\ ~Decided(o)
      <4>1. i \in 1..Len(done) /\ b < i /\ i <= e /\ ~(i <= d)
        BY <2>2, <2>3
      <4> QED BY <2>2, <3>1, <4>1 DEF Line
    <3>2. ASSUME o \in Range(cur), ~Decided(o) PROVE \E i \in (d + 1)..e : done[i] = o
      <4>1. \E i \in 1..Len(done) : done[i] = o
        <5>1. Decided(o)'
          BY <1>3, <3>2 DEF Decided
        <5>2. Once'
          BY <1>3, <2>1, BatchDroppedLeavesLine
        <5> QED BY <1>1, <5>1, <5>2 DEF Once
      <4>2. PICK i \in 1..Len(done) : done[i] = o
        BY <4>1
      <4>3. i <= e /\ ~(i <= d)
        BY <2>2, <3>2, <4>2 DEF Line
      <4>4. i \in (d + 1)..e
        BY <2>1, <4>3
      <4> QED BY <4>2, <4>4
    <3> QED BY <3>1, <3>2
  <2>5. Outcome' = [o \in Ops |-> IF \E i \in (d + 1)..e : done[i] = o THEN "lost" ELSE Outcome[o]]
    <3>1. ASSUME NEW o \in Ops
          PROVE  Outcome'[o] = IF \E i \in (d + 1)..e : done[i] = o THEN "lost" ELSE Outcome[o]
      BY <1>1, <1>3, <2>4 DEF Outcome, Decided
    <3>2. Outcome' = [o \in Ops |-> Outcome'[o]]
      BY DEF Outcome
    <3> QED BY <3>1, <3>2
  <2>6. CASE e = d
    <3>1. \A o \in Ops : ~\E i \in (d + 1)..e : done[i] = o
      BY <2>6
    <3>2. Outcome = [o \in Ops |-> Outcome[o]]
      BY DEF Outcome
    <3> QED BY <1>1, <2>5, <3>1, <3>2
  <2>7. CASE e # d
    <3> DEFINE k == e - d
    <3>1. k \in 1..BatchCap /\ d + 1 + k - 1 = e
      BY <2>1, <2>2, <2>3, <2>7, SizeAssumption
    <3> HIDE DEF k
    <3>2. Promise!Turn = d + 1
      BY TurnIs
    <3>3. Promise!Lose(k)
      BY <1>1, <2>2, <2>5, <3>1, <3>2 DEF Promise!Lose
    <3> QED BY <3>1, <3>3
  <2> QED BY <2>6, <2>7
<1> QED BY <1>2, <1>3, BatchFailsCases DEF Pipeline

LEMMA StepImplements == Pipeline /\ [Next]_vars => [Promise!Next]_<<done, Outcome>>
<1> SUFFICES ASSUME Pipeline, [Next]_vars PROVE Promise!Next \/ UNCHANGED <<done, Outcome>>
  OBVIOUS
<1>1. PICK b \in Nat, d \in Nat : Line(b, d)
  BY DEF Pipeline, InLine
<1>2. CASE DriveReady
  <2>1. futures[idx] \in Ops
    BY <1>2, TypesParts DEF Pipeline, DriveReady, DriverTypes
  <2> QED BY <1>2, <2>1, DriveReadyCompletes DEF Promise!Next
<1>3. CASE SettleOne
  BY <1>1, <1>3, SettleOneSettles DEF Promise!Next
<1>4. CASE BatchFails
  BY <1>1, <1>4, BatchFailsLoses DEF Promise!Next
<1>5. CASE Still \/ Call \/ DeliverParked \/ DeliverFresh \/ BatchSettled
  <2>1. UNCHANGED <<done, settledBy, dropped>>
    BY <1>5 DEF Still, Call, DeliverParked, DeliverFresh, BatchSettled, tableVars, driverVars, queueVars
  <2> QED BY <2>1, StillStutters
<1> QED BY <1>2, <1>3, <1>4, <1>5, PipelineSteps

LEMMA InitImplements == Init => Promise!Init
<1> SUFFICES ASSUME Init PROVE Promise!Init
  OBVIOUS
<1>1. Outcome = [o \in Ops |-> "pending"]
  BY DEF Init, Outcome
<1> QED BY <1>1 DEF Init, Promise!Init

\* The loop as it is coded implements the promise of Settlement: every op
\* that completed is decided once, in completion order, and is lost only with
\* the undelivered tail of one poisoned batch, whatever is terminated, throws,
\* is parked or is delivered again in between.
THEOREM InOrderHolds == Spec => InOrder
BY PipelineHolds, InitImplements, StepImplements, PTL DEF Spec, InOrder, Promise!Spec
=============================================================================
