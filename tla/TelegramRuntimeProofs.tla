------------------------ MODULE TelegramRuntimeProofs -----------------------
(***************************************************************************)
(* Theorems about TelegramRuntime for every value of its constants.         *)
(***************************************************************************)
EXTENDS TelegramRuntime, TLAPS

-----------------------------------------------------------------------------
(* Type correctness *)

Counters == Inside \cup {"idle", "release", "dead"}

(* The update a handler works on is one of the batch. *)
HandlesOne ==
    \A p \in Procs : proc[p].pc \in {"handle", "reply"} => proc[p].next <= proc[p].last

TypeInv == TypeOK /\ HandlesOne

(* A step changes the variables of one process p, to new. *)
Moves(p, new) == proc' = [proc EXCEPT ![p] = new]

LEMMA MoveType ==
    ASSUME TypeInv, NEW p \in Procs, NEW new \in Runtimes, Moves(p, new),
           new.pc \in {"handle", "reply"} => new.next <= new.last
    PROVE  proc' \in [Procs -> Runtimes] /\ HandlesOne'
<1>1. proc' \in [Procs -> Runtimes]
  BY DEF Moves, TypeInv, TypeOK
<1>2. proc'[p] = new /\ \A q \in Procs \ {p} : proc'[q] = proc[q]
  BY DEF Moves, TypeInv, TypeOK
<1>3. HandlesOne'
  BY <1>2 DEF TypeInv, HandlesOne
<1>4. QED
  BY <1>1, <1>3

(* The process only moves on. *)
LEMMA GotoType ==
    ASSUME TypeInv, NEW p \in Procs, NEW pc \in Counters \ {"handle", "reply"}, Goto(p, pc)
    PROVE  proc' \in [Procs -> Runtimes] /\ HandlesOne'
<1> DEFINE new == [proc[p] EXCEPT !.pc = pc]
<1>1. proc[p] \in Runtimes
  BY DEF TypeInv, TypeOK
<1>2. new \in Runtimes /\ new.pc = pc
  BY <1>1 DEF Runtimes, Counters
<1>3. Moves(p, new)
  BY DEF Goto, Moves
<1> HIDE DEF new
<1>4. QED
  BY <1>2, <1>3, MoveType

LEMMA OutsideType ==
    ASSUME NEW pc \in {"idle", "release", "dead"}, NEW stopping \in BOOLEAN
    PROVE  Outside(pc, stopping) \in Runtimes /\ Outside(pc, stopping).pc = pc
  BY ConstantAssumption DEF Outside, Runtimes, MaybeRoute

LEMMA EndType ==
    ASSUME TypeInv, NEW p \in Procs, NEW stopping \in BOOLEAN, End(p, stopping)
    PROVE  proc' \in [Procs -> Runtimes] /\ HandlesOne'
<1>1. Moves(p, Outside("release", stopping))
  BY DEF End, Moves
<1>2. QED
  BY <1>1, OutsideType, MoveType

LEMMA SettleType ==
    ASSUME TypeInv, NEW p \in Procs, NEW pc \in {"dispatch", "failed", "limited"},
           proc[p].pc \in {"handle", "reply"}, Settle(p, pc)
    PROVE  /\ proc' \in [Procs -> Runtimes] /\ HandlesOne'
           /\ settled' \subseteq Updates /\ suspect' \subseteq Procs
<1>1. proc[p] \in Runtimes /\ proc[p].next <= proc[p].last
  BY DEF TypeInv, TypeOK, HandlesOne
<1>2. proc[p].next \in 1..MaxUpdates
  BY <1>1, ConstantAssumption DEF Runtimes
<1>3. Settled(p, pc) \in Runtimes /\ Settled(p, pc).pc = pc
  <2> DEFINE after == IF pc = "dispatch" THEN proc[p].next + 1 ELSE 1
             end == IF pc = "dispatch" THEN proc[p].last ELSE 0
  <2>1. Offset(p) \in 0..MaxUpdates + 1
    BY <1>2, ConstantAssumption DEF Offset
  <2>2. after \in 1..MaxUpdates + 1
    BY <1>2, ConstantAssumption
  <2>3. end \in 0..MaxUpdates
    BY <1>1, ConstantAssumption DEF Runtimes
  <2>4. Settled(p, pc) = [proc[p] EXCEPT !.pc = pc, !.offset = Offset(p), !.via = NoRoute,
                                         !.next = after, !.last = end]
    BY DEF Settled
  <2> HIDE DEF after, end
  <2>5. QED
    BY ZenonT(60), <1>1, <2>1, <2>2, <2>3, <2>4 DEF Runtimes, MaybeRoute, Inside
<1>4. Moves(p, Settled(p, pc))
  BY DEF Settle, Moves
<1>5. settled' \subseteq Updates /\ suspect' \subseteq Procs
  BY <1>2 DEF Settle, Updates, TypeInv, TypeOK
<1>6. QED
  BY <1>3, <1>4, <1>5, MoveType

LEMMA StatusType ==
    ASSUME TypeInv
    PROVE  /\ NotReady \in Records
           /\ \A s \in Slots, r \in MaybeRoute :
                 Marked(s, r) \in [Slots -> Records]
           /\ \A p \in Procs, r \in MaybeRoute : Ready(p, r) \in Records
           /\ \A p \in Procs, r \in MaybeRoute : MarkFailed(p, r) => status' \in [Slots -> Records]
<1>1. NotReady \in Records
  BY ConstantAssumption DEF NotReady, Records, MaybeRoute
<1>2. \A s \in Slots, r \in MaybeRoute : Marked(s, r) \in [Slots -> Records]
  BY <1>1 DEF Marked, TypeInv, TypeOK
<1>3. \A p \in Procs, r \in MaybeRoute : Ready(p, r) \in Records
  BY ConstantAssumption DEF Ready, Records, MaybeRoute
<1>4. \A p \in Procs, r \in MaybeRoute : MarkFailed(p, r) => status' \in [Slots -> Records]
  BY <1>2 DEF MarkFailed, TypeInv, TypeOK
<1>5. QED
  BY <1>1, <1>2, <1>3, <1>4

(* A step of one process leaves each proc[p] in its type. *)
ProcOK == proc \in [Procs -> Runtimes] /\ HandlesOne

(* What TypeOK says of the other variables. *)
RestOK ==
    /\ lease \in [holder : Procs \cup {NoProc}, ttl : 0..LeaseTtl]
    /\ (lease.holder = NoProc) <=> (lease.ttl = 0)
    /\ status \in [Slots -> Records]
    /\ mode \in [Procs -> Modes] /\ slot \in [Procs -> Slots]
    /\ telegram \in [confirmed : 0..MaxUpdates, webhook : BOOLEAN]
    /\ stalled \subseteq Procs /\ faults \in 0..MaxFaults
    /\ suspect \subseteq Procs /\ settled \subseteq Updates

LEMMA LeaseProc ==
    ASSUME TypeInv, NEW p \in Procs, Lease(p)
    PROVE  ProcOK'
<1>1. CASE Acquire(p)
  BY <1>1, GotoType DEF Acquire, ProcOK, Counters, Inside
<1>2. CASE AcquireUnheard(p)
  BY <1>2, GotoType DEF AcquireUnheard, ProcOK, Counters, Inside
<1>3. CASE Renew(p)
  BY <1>3 DEF Renew, ProcOK, HandlesOne, TypeInv, TypeOK
<1>4. CASE LoseLease(p)
  BY <1>4, EndType DEF LoseLease, ProcOK
<1>5. CASE LoseValkey(p)
  BY <1>5, EndType DEF LoseValkey, ProcOK
<1>6. CASE Stop(p)
  BY <1>6, EndType, GotoType DEF Stop, ProcOK, Counters
<1>7. CASE Release(p)
  BY <1>7, GotoType DEF Release, AfterRelease, ProcOK, Counters
<1>8. CASE ReleaseFails(p)
  BY <1>8, GotoType DEF ReleaseFails, AfterRelease, ProcOK, Counters
<1>9. QED
  BY <1>1, <1>2, <1>3, <1>4, <1>5, <1>6, <1>7, <1>8 DEF Lease

LEMMA RouteProc ==
    ASSUME TypeInv, NEW p \in Procs, Route(p)
    PROVE  ProcOK'
<1>1. proc[p] \in Runtimes /\ mode[p] \in Modes
  BY DEF TypeInv, TypeOK
<1>2. CASE Check(p)
  <2> DEFINE new == [proc[p] EXCEPT !.pc = "connect", !.active = NoRoute]
  <2>1. new \in Runtimes /\ new.pc = "connect"
    BY <1>1 DEF Runtimes, Inside, MaybeRoute
  <2>2. Moves(p, new) => ProcOK'
    BY <2>1, MoveType DEF ProcOK
  <2>3. proc' = [proc EXCEPT ![p].pc = "connect", ![p].active = NoRoute] => Moves(p, new)
    BY DEF Moves, TypeInv, TypeOK
  <2>4. Goto(p, "poll") \/ Goto(p, "connect") => ProcOK'
    BY GotoType DEF ProcOK, Counters, Inside
  <2>5. QED
    BY <1>2, <2>2, <2>3, <2>4 DEF Check
<1>3. CASE ConnectFails(p)
  BY <1>3, GotoType DEF ConnectFails, ProcOK, Counters, Inside
<1>4. CASE Refuse(p)
  BY <1>4, GotoType, EndType DEF Refuse, ProcOK, Counters, Inside
<1>5. CASE Backup(p)
  BY <1>5, GotoType DEF Backup, ProcOK, Counters, Inside
<1>6. CASE Announce(p)
  BY <1>6, GotoType DEF Announce, ProcOK, Counters, Inside
<1>7. CASE MonitorFails(p)
  BY <1>7, GotoType DEF MonitorFails, ProcOK, Counters, Inside
<1>8. Forgotten(p, "announce") \in Runtimes /\ Forgotten(p, "announce").pc = "announce"
  BY <1>1 DEF Forgotten, Runtimes, Inside, MaybeRoute
<1>9. CASE Recover(p)
  <2> DEFINE new == [proc[p] EXCEPT !.pc = "withdraw"]
  <2>1. new \in Runtimes /\ new.pc = "withdraw"
    BY <1>1 DEF Runtimes, Inside
  <2>2. Moves(p, new) \/ Moves(p, Forgotten(p, "announce"))
    BY <1>9 DEF Recover, Moves, TypeInv, TypeOK
  <2>3. QED
    BY <2>1, <2>2, <1>8, MoveType DEF ProcOK
<1>10. CASE Withdraw(p)
  BY <1>10, <1>8, MoveType DEF Withdraw, Moves, ProcOK
<1>11. ASSUME NEW r \in Routes, Connect(p, r)
       PROVE  ProcOK'
  <2>1. AfterConnect(p, r) \in Runtimes /\ AfterConnect(p, r).pc \in {"poll", "owned"}
    BY <1>1 DEF AfterConnect, Runtimes, Inside, MaybeRoute
  <2>2. QED
    BY <1>11, <2>1, MoveType DEF Connect, Moves, ProcOK
<1>12. ASSUME NEW r \in Routes, TryNext(p, r)
       PROVE  ProcOK'
  BY <1>12 DEF TryNext, ProcOK, HandlesOne, TypeInv, TypeOK
<1>13. QED
  BY <1>2, <1>3, <1>4, <1>5, <1>6, <1>7, <1>9, <1>10, <1>11, <1>12 DEF Route

LEMMA ReceiveProc ==
    ASSUME TypeInv, NEW p \in Procs, Receive(p)
    PROVE  ProcOK'
<1>1. proc[p] \in Runtimes /\ telegram.confirmed \in 0..MaxUpdates
  BY DEF TypeInv, TypeOK
<1>2. CASE Poll(p)
  <2>1. Confirmed(p) \in 0..MaxUpdates
    BY <1>1, ConstantAssumption DEF Confirmed, Runtimes
  <2>2. PICK last \in Confirmed(p)..MaxUpdates :
            proc' = [proc EXCEPT ![p].pc = "owned", ![p].next = Confirmed(p) + 1, ![p].last = last]
    BY <1>2 DEF Poll
  <2> DEFINE new == [proc[p] EXCEPT !.pc = "owned", !.next = Confirmed(p) + 1, !.last = last]
  <2>3. Confirmed(p) + 1 \in 1..MaxUpdates + 1 /\ last \in 0..MaxUpdates
    BY <2>1, ConstantAssumption
  <2>4. new \in Runtimes /\ new.pc = "owned"
    BY <1>1, <2>3 DEF Runtimes, Inside
  <2>5. Moves(p, new)
    BY <2>2 DEF Moves, TypeInv, TypeOK
  <2>6. QED
    BY <2>4, <2>5, MoveType DEF ProcOK
<1>3. CASE PollFails(p)
  BY <1>3, GotoType DEF PollFails, ProcOK, Counters, Inside
<1>4. CASE Owned(p)
  BY <1>4, GotoType DEF Owned, ProcOK, Counters, Inside
<1>5. CASE Publish(p)
  BY <1>5, GotoType DEF Publish, ProcOK, Counters, Inside
<1>6. CASE Begin(p)
  <2> DEFINE taken == proc[p].taken \cup {proc[p].next}
             new == [proc[p] EXCEPT !.pc = "handle", !.taken = taken]
  <2>1. proc[p].next <= proc[p].last
    BY <1>1, <1>6 DEF Begin, BatchOver, Runtimes
  <2>2. taken \subseteq Updates
    BY <1>1, <2>1, ConstantAssumption DEF Runtimes, Updates
  <2> HIDE DEF taken
  <2>3. new \in Runtimes /\ new.next <= new.last
    BY <1>1, <2>1, <2>2 DEF Runtimes, Inside
  <2>4. Moves(p, new)
    BY <1>6 DEF Begin, Moves, taken, TypeInv, TypeOK
  <2>5. QED
    BY <2>3, <2>4, MoveType DEF ProcOK
<1>7. CASE EndBatch(p)
  <2> DEFINE new == [proc[p] EXCEPT !.pc = "backup", !.next = 1, !.last = 0]
  <2>1. 1 \in 1..MaxUpdates + 1 /\ 0 \in 0..MaxUpdates
    BY ConstantAssumption
  <2>2. new \in Runtimes /\ new.pc = "backup"
    BY <1>1, <2>1 DEF Runtimes, Inside
  <2>3. Moves(p, new)
    BY <1>7 DEF EndBatch, Moves, TypeInv, TypeOK
  <2>4. QED
    BY <2>2, <2>3, MoveType DEF ProcOK
<1>8. CASE Reply(p)
  <2> DEFINE new == [proc[p] EXCEPT !.pc = "reply", !.via = ReadyRoute(slot[p])]
  <2>1. ReadyRoute(slot[p]) \in MaybeRoute
    BY DEF ReadyRoute, Records, TypeInv, TypeOK
  <2>2. new \in Runtimes /\ (new.next <= new.last)
    BY <1>1, <2>1, <1>8 DEF Reply, Awake, Runtimes, Inside, TypeInv, HandlesOne
  <2>3. Moves(p, new)
    BY <1>8 DEF Reply, Moves, TypeInv, TypeOK
  <2>4. QED
    BY <2>2, <2>3, MoveType DEF ProcOK
<1>9. CASE Handled(p) \/ ReplyBlocked(p) \/ ReplyFails(p) \/ ReplyLimited(p)
  BY <1>9, SettleType DEF Handled, ReplyBlocked, ReplyFails, ReplyLimited, Awake, ProcOK
<1>10. QED
  BY <1>2, <1>3, <1>4, <1>5, <1>6, <1>7, <1>8, <1>9 DEF Receive

(* The steps of a process keep the types of what it shares. *)
LEMMA LeaseRest ==
    ASSUME TypeInv, NEW p \in Procs, Lease(p)
    PROVE  RestOK'
<1>1. CASE Acquire(p)
  BY <1>1, ConstantAssumption DEF Acquire, RestOK, TypeInv, TypeOK, config, history
<1>2. CASE AcquireUnheard(p)
  BY <1>2, ConstantAssumption DEF AcquireUnheard, Fault, RestOK, TypeInv, TypeOK, config, history
<1>3. CASE Renew(p)
  BY <1>3, ConstantAssumption DEF Renew, Owns, RestOK, TypeInv, TypeOK, config, history
<1>4. CASE LoseLease(p) \/ Stop(p)
  BY <1>4 DEF LoseLease, Stop, RestOK, TypeInv, TypeOK, config, history
<1>5. CASE LoseValkey(p)
  BY <1>5, ConstantAssumption DEF LoseValkey, Fault, RestOK, TypeInv, TypeOK, config, history
<1>6. CASE Release(p)
  BY <1>6, StatusType, ConstantAssumption
     DEF Release, Released, Free, RestOK, TypeInv, TypeOK, config, history
<1>7. CASE ReleaseFails(p)
  BY <1>7, ConstantAssumption DEF ReleaseFails, Fault, RestOK, TypeInv, TypeOK, config
<1>8. QED
  BY <1>1, <1>2, <1>3, <1>4, <1>5, <1>6, <1>7 DEF Lease

LEMMA RouteRest ==
    ASSUME TypeInv, NEW p \in Procs, Route(p)
    PROVE  RestOK'
<1>1. mode[p] \in Modes /\ proc[p] \in Runtimes
  BY DEF TypeInv, TypeOK
<1>2. CASE Check(p) \/ ConnectFails(p) \/ Refuse(p) \/ Recover(p)
  BY <1>2 DEF Check, ConnectFails, Refuse, Recover, RestOK, TypeInv, TypeOK, config, history
<1>3. CASE Backup(p)
  <2>1. status' \in [Slots -> Records]
    BY <1>3, StatusType DEF Backup, MaybeRoute, TypeInv, TypeOK
  <2>2. QED
    BY <1>3, <2>1 DEF Backup, RestOK, TypeInv, TypeOK, config, history
<1>4. CASE Withdraw(p)
  <2>1. status' \in [Slots -> Records]
    BY <1>1, <1>4, StatusType DEF Withdraw, Runtimes
  <2>2. QED
    BY <1>4, <2>1 DEF Withdraw, RestOK, TypeInv, TypeOK, config, history
<1>5. CASE Announce(p)
  BY <1>5, StatusType DEF Announce, RestOK, TypeInv, TypeOK, config, history
<1>6. CASE MonitorFails(p)
  BY <1>6, ConstantAssumption DEF MonitorFails, Fault, RestOK, TypeInv, TypeOK, config, history
<1>7. Registered(p) \in [confirmed : 0..MaxUpdates, webhook : BOOLEAN]
  BY DEF Registered, TypeInv, TypeOK
<1>8. ASSUME NEW r \in Routes, Connect(p, r)
      PROVE  RestOK'
  BY <1>7, <1>8 DEF Connect, RestOK, TypeInv, TypeOK, config, history
<1>9. ASSUME NEW r \in Routes, TryNext(p, r)
      PROVE  RestOK'
  <2>1. status' \in [Slots -> Records]
    BY <1>9, StatusType DEF TryNext, MaybeRoute
  <2>2. telegram' \in [confirmed : 0..MaxUpdates, webhook : BOOLEAN]
    BY <1>7, <1>9 DEF TryNext, TypeInv, TypeOK
  <2>3. QED
    BY <1>9, <2>1, <2>2 DEF TryNext, RestOK, TypeInv, TypeOK, config, history
<1>10. QED
  BY <1>2, <1>3, <1>4, <1>5, <1>6, <1>8, <1>9 DEF Route

LEMMA ReceiveRest ==
    ASSUME TypeInv, NEW p \in Procs, Receive(p)
    PROVE  RestOK'
<1>1. proc[p] \in Runtimes /\ telegram.confirmed \in 0..MaxUpdates
  BY DEF TypeInv, TypeOK
<1>2. Confirm(p) => telegram' \in [confirmed : 0..MaxUpdates, webhook : BOOLEAN]
  <2>1. Confirmed(p) \in 0..MaxUpdates
    BY <1>1, ConstantAssumption DEF Confirmed, Runtimes
  <2>2. QED
    BY <2>1 DEF Confirm, TypeInv, TypeOK
<1>3. CASE Poll(p) \/ PollFails(p)
  BY <1>2, <1>3 DEF Poll, PollFails, RestOK, TypeInv, TypeOK, config, history
<1>4. CASE Owned(p) \/ Begin(p) \/ EndBatch(p) \/ Reply(p)
  BY <1>4 DEF Owned, Begin, EndBatch, Reply, RestOK, TypeInv, TypeOK, config, history
<1>5. CASE Publish(p)
  <2>1. Ready(p, proc[p].active) \in Records
    BY <1>1, StatusType DEF Runtimes
  <2>2. QED
    BY <1>5, <2>1 DEF Publish, RestOK, TypeInv, TypeOK, config, history
<1>6. CASE Handled(p) \/ ReplyBlocked(p) \/ ReplyLimited(p)
  BY <1>6, SettleType
     DEF Handled, ReplyBlocked, ReplyLimited, Awake, RestOK, TypeInv, TypeOK, config, history
<1>7. CASE ReplyFails(p)
  <2>1. status' \in [Slots -> Records]
    BY <1>1, <1>7, StatusType DEF ReplyFails, Runtimes
  <2>2. settled' \subseteq Updates /\ suspect' \subseteq Procs
    BY <1>7, SettleType DEF ReplyFails, Awake
  <2>3. QED
    BY <1>7, <2>1, <2>2 DEF ReplyFails, RestOK, TypeInv, TypeOK, config
<1>8. QED
  BY <1>3, <1>4, <1>5, <1>6, <1>7 DEF Receive

LEMMA EnvironmentType ==
    ASSUME TypeInv,
           \/ \E p \in Procs : Stall(p) \/ Resume(p) \/ Crash(p)
           \/ \E s \in Slots : WorkerFails(s)
           \/ Tick
    PROVE  TypeInv'
<1>1. ASSUME NEW p \in Procs, Stall(p) \/ Resume(p)
      PROVE  TypeInv'
  BY <1>1, ConstantAssumption
     DEF Stall, Resume, Fault, TypeInv, TypeOK, HandlesOne, config, history
<1>2. ASSUME NEW p \in Procs, Crash(p)
      PROVE  TypeInv'
  <2>1. ProcOK'
    BY <1>2, OutsideType, MoveType DEF Crash, Moves, ProcOK
  <2>2. RestOK'
    BY <1>2, ConstantAssumption DEF Crash, Fault, RestOK, TypeInv, TypeOK, config
  <2>3. QED
    BY <2>1, <2>2 DEF ProcOK, RestOK, TypeInv, TypeOK
<1>3. ASSUME NEW s \in Slots, WorkerFails(s)
      PROVE  TypeInv'
  <2>1. status' \in [Slots -> Records]
    BY <1>3, StatusType DEF WorkerFails, ReadyRoute, Records, TypeInv, TypeOK
  <2>2. QED
    BY <1>3, <2>1 DEF WorkerFails, TypeInv, TypeOK, HandlesOne, config, history
<1>4. CASE Tick
  <2>1. lease' \in [holder : Procs \cup {NoProc}, ttl : 0..LeaseTtl]
        /\ ((lease'.holder = NoProc) <=> (lease'.ttl = 0))
    BY <1>4, ConstantAssumption DEF Tick, Aged, Free, TypeInv, TypeOK
  <2>2. ASSUME NEW s \in Slots
        PROVE  Aged(status[s], NotReady) \in Records
    <3>1. status[s] \in Records
      BY DEF TypeInv, TypeOK
    <3>2. status[s].ttl > 1 => status[s].ttl - 1 \in 0..StatusTtl
      BY <3>1, ConstantAssumption DEF Records
    <3>3. status[s].ttl > 1 => [status[s] EXCEPT !.ttl = status[s].ttl - 1] \in Records
      BY <3>1, <3>2 DEF Records
    <3>4. QED
      BY <3>1, <3>3, StatusType DEF Aged
  <2>3. status' \in [Slots -> Records]
    BY <1>4, <2>2 DEF Tick
  <2>4. QED
    BY <1>4, <2>1, <2>3 DEF Tick, TypeInv, TypeOK, HandlesOne, config, history
<1>5. QED
  BY <1>1, <1>2, <1>3, <1>4

LEMMA InitType == Init => TypeInv
<1> SUFFICES ASSUME Init PROVE TypeInv
  OBVIOUS
<1>1. \A p \in Procs : proc[p] \in Runtimes /\ proc[p].pc = "idle"
  BY OutsideType DEF Init
<1>2. proc \in [Procs -> Runtimes]
  BY <1>1 DEF Init
<1>3. status \in [Slots -> Records]
  BY ConstantAssumption DEF Init, NotReady, Records, MaybeRoute
<1>4. lease \in [holder : Procs \cup {NoProc}, ttl : 0..LeaseTtl]
      /\ lease.holder = NoProc /\ lease.ttl = 0
  BY ConstantAssumption DEF Init, Free
<1>5. telegram \in [confirmed : 0..MaxUpdates, webhook : BOOLEAN]
  BY ConstantAssumption DEF Init
<1>6. faults \in 0..MaxFaults
  BY ConstantAssumption DEF Init
<1>7. QED
  BY <1>1, <1>2, <1>3, <1>4, <1>5, <1>6 DEF Init, Configured, TypeInv, TypeOK, HandlesOne

LEMMA NextType == TypeInv /\ [Next]_vars => TypeInv'
<1> SUFFICES ASSUME TypeInv, [Next]_vars PROVE TypeInv'
  OBVIOUS
<1>1. ASSUME NEW p \in Procs, Lease(p) \/ Route(p) \/ Receive(p)
      PROVE  TypeInv'
  <2>1. ProcOK'
    BY <1>1, LeaseProc, RouteProc, ReceiveProc
  <2>2. RestOK'
    BY <1>1, LeaseRest, RouteRest, ReceiveRest
  <2>3. QED
    BY <2>1, <2>2 DEF ProcOK, RestOK, TypeInv, TypeOK
<1>2. CASE UNCHANGED vars
  BY <1>2 DEF vars, config, history, TypeInv, TypeOK, HandlesOne
<1>3. QED
  BY <1>1, <1>2, EnvironmentType DEF Next

(* Every variable keeps its type, for any number of processes, slots,      *)
(* routes and updates: above all no offset and no batch leaves the updates *)
(* there are, and the lease has an age exactly while it has a holder.      *)
THEOREM TypeCorrect == Spec => []TypeOK
<1>1. TypeInv => TypeOK
  BY DEF TypeInv
<1>2. QED
  BY InitType, NextType, <1>1, PTL DEF Spec

-----------------------------------------------------------------------------
(* Ownership *)

(* Stronger than OwnerUnlessStalled by what makes a process suspect. *)
OwnerInv == OwnerUnlessStalled /\ stalled \subseteq suspect

LEMMA GotoPc ==
    ASSUME TypeInv, NEW p \in Procs, NEW pc \in Counters, Goto(p, pc)
    PROVE  proc'[p].pc = pc
<1>1. proc[p] \in Runtimes /\ proc' = [proc EXCEPT ![p] = [proc[p] EXCEPT !.pc = pc]]
  BY DEF Goto, TypeInv, TypeOK
<1>2. proc'[p] = [proc[p] EXCEPT !.pc = pc]
  BY <1>1 DEF TypeInv, TypeOK
<1>3. QED
  BY <1>1, <1>2 DEF Runtimes

(* A process at work does not begin to hold by a step, nor does another.    *)
StillHolding(p) == \A q \in Procs : Holding(q)' => Holding(q)

LEMMA WorkKeepsHolders ==
    ASSUME TypeInv, NEW p \in Procs, Route(p) \/ Receive(p)
    PROVE  StillHolding(p) /\ lease' = lease /\ stalled' = stalled /\ suspect' = suspect
<1>1. CASE Route(p)
  <2>1. Holding(p)
    BY <1>1 DEF Route, Check, ConnectFails, Refuse, Backup, Recover, Withdraw, Announce,
                MonitorFails, Connect, TryNext, Awake, Holding, Running, Inside
  <2>2. \A q \in Procs \ {p} : proc'[q] = proc[q]
    BY <1>1 DEF Route, Check, ConnectFails, Refuse, Backup, Recover, Withdraw, Announce,
                MonitorFails, Connect, TryNext, Goto, End, TypeInv, TypeOK
  <2>3. lease' = lease /\ stalled' = stalled /\ suspect' = suspect
    BY <1>1 DEF Route, Check, ConnectFails, Refuse, Backup, Recover, Withdraw, Announce,
                MonitorFails, Connect, TryNext, history
  <2>4. QED
    BY <2>1, <2>2, <2>3 DEF StillHolding, Holding, Running
<1>2. CASE Receive(p)
  <2>1. Holding(p)
    BY <1>2 DEF Receive, Poll, PollFails, Owned, Publish, Begin, EndBatch, Reply, Handled,
                ReplyBlocked, ReplyFails, ReplyLimited, Awake, Holding, Running, Inside
  <2>2. \A q \in Procs \ {p} : proc'[q] = proc[q]
    BY <1>2 DEF Receive, Poll, PollFails, Owned, Publish, Begin, EndBatch, Reply, Handled,
                ReplyBlocked, ReplyFails, ReplyLimited, Goto, Settle, TypeInv, TypeOK
  <2>3. lease' = lease /\ stalled' = stalled /\ suspect' = suspect
    BY <1>2 DEF Receive, Poll, PollFails, Owned, Publish, Begin, EndBatch, Reply, Handled,
                ReplyBlocked, ReplyFails, ReplyLimited, Settle, history
  <2>4. QED
    BY <2>1, <2>2, <2>3 DEF StillHolding, Holding, Running
<1>3. QED
  BY <1>1, <1>2

LEMMA LeaseOwner ==
    ASSUME TypeInv, OwnerInv, NEW p \in Procs, Lease(p)
    PROVE  OwnerInv'
<1>1. \A q \in Procs : Holding(q) /\ q \notin suspect => lease.holder = q
  BY DEF OwnerInv, OwnerUnlessStalled, Owns
<1>2. CASE Acquire(p)
  <2>1. \A q \in Procs : Holding(q) => q \in suspect
    BY <1>1, <1>2, ConstantAssumption DEF Acquire, Grantable
  <2>2. \A q \in Procs \ {p} : proc'[q] = proc[q]
    BY <1>2 DEF Acquire, Goto, TypeInv, TypeOK
  <2>3. lease'.holder = p /\ stalled' = stalled /\ suspect' = suspect
    BY <1>2 DEF Acquire, history
  <2>4. QED
    BY <2>1, <2>2, <2>3 DEF OwnerInv, OwnerUnlessStalled, Owns, Holding, Running
<1>3. CASE AcquireUnheard(p)
  <2>1. \A q \in Procs : Holding(q) => q \in suspect
    BY <1>1, <1>3, ConstantAssumption DEF AcquireUnheard, Grantable
  <2>2. \A q \in Procs \ {p} : proc'[q] = proc[q]
    BY <1>3 DEF AcquireUnheard, Goto, TypeInv, TypeOK
  <2>3. ~Holding(p)' /\ stalled' = stalled /\ suspect' = suspect
    BY <1>3 DEF AcquireUnheard, Goto, Holding, Running, Inside, TypeInv, TypeOK, history
  <2>4. QED
    BY <2>1, <2>2, <2>3 DEF OwnerInv, OwnerUnlessStalled, Owns, Holding, Running
<1>4. CASE Renew(p)
  <2>1. lease'.holder = lease.holder
    BY <1>4 DEF Renew, TypeInv, TypeOK
  <2>2. QED
    BY <1>4, <2>1
       DEF Renew, OwnerInv, OwnerUnlessStalled, Owns, Holding, Running, history
<1>5. CASE LoseLease(p) \/ LoseValkey(p) \/ Stop(p)
  <2>1. \A q \in Procs \ {p} : proc'[q] = proc[q]
    BY <1>5 DEF LoseLease, LoseValkey, Stop, End, Goto, TypeInv, TypeOK
  <2>2. Holding(p)' => Holding(p)
    <3>1. Running(p) \/ Goto(p, "dead")
      BY <1>5 DEF LoseLease, LoseValkey, Stop
    <3>2. Goto(p, "dead") => ~Holding(p)'
      BY GotoPc DEF Counters, Holding, Running, Inside
    <3>3. QED
      BY <3>1, <3>2 DEF Holding
  <2>3. lease' = lease /\ stalled' = stalled /\ suspect' = suspect
    BY <1>5 DEF LoseLease, LoseValkey, Stop, history
  <2>4. QED
    BY <2>1, <2>2, <2>3 DEF OwnerInv, OwnerUnlessStalled, Owns, Holding, Running
<1>6. CASE Release(p) \/ ReleaseFails(p)
  <2>1. \A q \in Procs \ {p} : proc'[q] = proc[q]
    BY <1>6 DEF Release, ReleaseFails, Goto, TypeInv, TypeOK
  <2>2. ~Holding(p)'
    <3>1. AfterRelease(p) \in {"idle", "dead"} /\ Goto(p, AfterRelease(p))
      BY <1>6 DEF Release, ReleaseFails, AfterRelease
    <3>2. proc'[p].pc \in {"idle", "dead"}
      BY <3>1, GotoPc DEF Counters
    <3>3. QED
      BY <3>2 DEF Holding, Running, Inside
  <2>3. lease' = lease \/ lease.holder = p
    BY <1>6 DEF Release, ReleaseFails, Released, Owns
  <2>4. stalled' = stalled /\ suspect \subseteq suspect'
    BY <1>6 DEF Release, ReleaseFails, history
  <2>5. QED
    BY <1>1, <2>1, <2>2, <2>3, <2>4 DEF OwnerInv, OwnerUnlessStalled, Owns, Holding, Running
<1>7. QED
  BY <1>2, <1>3, <1>4, <1>5, <1>6 DEF Lease

(* A lease runs out on nobody but a suspect: a process that is not stalled  *)
(* has just renewed it, and one renewal lasts for more than a tick.         *)
LEMMA TickOwner ==
    ASSUME TypeInv, OwnerInv, Tick
    PROVE  OwnerInv'
<1> SUFFICES ASSUME NEW p \in Procs, Holding(p), p \notin suspect
             PROVE  lease'.holder = p
  BY DEF Tick, OwnerInv, OwnerUnlessStalled, Owns, Holding, Running, history
<1>1. lease.holder = p /\ p \notin stalled
  BY DEF OwnerInv, OwnerUnlessStalled, Owns
<1>2. Punctual(p)
  BY DEF Tick
<1>3. lease.ttl = LeaseTtl
  BY <1>1, <1>2 DEF Punctual, Owns, Holding
<1>4. lease' = [lease EXCEPT !.ttl = lease.ttl - 1]
  BY <1>3, ConstantAssumption DEF Tick, Aged
<1>5. QED
  BY <1>1, <1>4 DEF TypeInv, TypeOK

LEMMA NextOwner == TypeInv /\ OwnerInv /\ [Next]_vars => OwnerInv'
<1> SUFFICES ASSUME TypeInv, OwnerInv, [Next]_vars PROVE OwnerInv'
  OBVIOUS
<1>1. ASSUME NEW p \in Procs, Lease(p)
      PROVE  OwnerInv'
  BY <1>1, LeaseOwner
<1>2. ASSUME NEW p \in Procs, Route(p) \/ Receive(p)
      PROVE  OwnerInv'
  BY <1>2, WorkKeepsHolders DEF StillHolding, OwnerInv, OwnerUnlessStalled, Owns
<1>3. ASSUME NEW p \in Procs, Stall(p) \/ Resume(p)
      PROVE  OwnerInv'
  BY <1>3 DEF Stall, Resume, OwnerInv, OwnerUnlessStalled, Owns, Holding, Running, history
<1>4. ASSUME NEW p \in Procs, Crash(p)
      PROVE  OwnerInv'
  <2>1. \A q \in Procs \ {p} : proc'[q] = proc[q]
    BY <1>4 DEF Crash, TypeInv, TypeOK
  <2>2. QED
    BY <1>4, <2>1 DEF Crash, OwnerInv, OwnerUnlessStalled, Owns, Holding, Running
<1>5. ASSUME NEW s \in Slots, WorkerFails(s)
      PROVE  OwnerInv'
  BY <1>5 DEF WorkerFails, OwnerInv, OwnerUnlessStalled, Owns, Holding, Running, history
<1>6. CASE UNCHANGED vars
  BY <1>6 DEF vars, history, OwnerInv, OwnerUnlessStalled, Owns, Holding, Running
<1>7. QED
  BY <1>1, <1>2, <1>3, <1>4, <1>5, <1>6, TickOwner DEF Next

(* Whoever connects, receives or monitors without having been stalled does  *)
(* so under the lease, for any number of processes, slots and routes and    *)
(* any lease longer than a tick: two such processes never coexist.          *)
THEOREM OwnerCorrect == Spec => []OwnerUnlessStalled
<1>1. Init => OwnerInv
  BY DEF Init, Outside, Holding, Running, Inside, OwnerInv, OwnerUnlessStalled
<1>2. OwnerInv => OwnerUnlessStalled
  BY DEF OwnerInv
<1>3. QED
  BY InitType, NextType, NextOwner, <1>1, <1>2, PTL DEF Spec

LEMMA LeaseLeftStep ==
    ASSUME TypeInv, [Next]_vars, NEW p \in Procs, Owns(p), lease'.holder # p
    PROVE  lease' = Free /\ (proc[p].pc = "release" \/ lease.ttl = 1)
<1>1. lease.holder = p /\ p # NoProc /\ lease.ttl \in 1..LeaseTtl
  BY ConstantAssumption DEF Owns, TypeInv, TypeOK
<1>2. ASSUME NEW q \in Procs, Lease(q)
      PROVE  lease' = Free /\ proc[p].pc = "release"
  <2>1. ~Acquire(q) /\ ~AcquireUnheard(q)
    BY <1>1 DEF Acquire, AcquireUnheard, Grantable
  <2>2. ~Renew(q)
    BY <1>1 DEF Renew, TypeInv, TypeOK
  <2>3. Release(q)
    BY <1>1, <1>2, <2>1, <2>2 DEF Lease, LoseLease, LoseValkey, Stop, ReleaseFails
  <2>4. QED
    BY <1>1, <2>3 DEF Release, Released, Owns, Awake
<1>3. ASSUME NEW q \in Procs, Route(q) \/ Receive(q)
      PROVE  FALSE
  BY <1>1, <1>3, WorkKeepsHolders
<1>4. ASSUME NEW q \in Procs, Stall(q) \/ Resume(q) \/ Crash(q)
      PROVE  FALSE
  BY <1>1, <1>4 DEF Stall, Resume, Crash
<1>5. ASSUME NEW s \in Slots, WorkerFails(s)
      PROVE  FALSE
  BY <1>1, <1>5 DEF WorkerFails
<1>6. CASE Tick
  <2>1. lease.ttl > 1 => lease'.holder = p
    BY <1>1, <1>6 DEF Tick, Aged, TypeInv, TypeOK
  <2>2. ~(lease.ttl > 1)
    BY <2>1
  <2>3. QED
    BY <1>1, <1>6, <2>2 DEF Tick, Aged
<1>7. CASE UNCHANGED vars
  BY <1>1, <1>7 DEF vars
<1>8. QED
  BY <1>2, <1>3, <1>4, <1>5, <1>6, <1>7 DEF Next

(* Nobody takes a lease from its holder: it becomes free by the holder's    *)
(* own release or by running out, and only then another process has it.     *)
THEOREM LeaseLeftCorrect == Spec => LeaseLeftToHolder
<1>1. TypeInv /\ [Next]_vars =>
        [\A p \in Procs : Owns(p) /\ lease'.holder # p =>
            lease' = Free /\ (proc[p].pc = "release" \/ lease.ttl = 1)]_vars
  BY LeaseLeftStep
<1>2. QED
  BY InitType, NextType, <1>1, PTL DEF Spec, LeaseLeftToHolder

-----------------------------------------------------------------------------
(* Confirmation *)

(* What a receiver is about to confirm, and what it has left behind in its  *)
(* batch, went through a handler too.                                       *)
Passed == \A p \in Procs : 1..proc[p].offset - 1 \subseteq settled
                         /\ 1..proc[p].next - 1 \subseteq settled

ConfirmedInv == ConfirmedSettled /\ Passed

(* No step but a poll, a failed poll and the end of a handler advances      *)
(* anything: it keeps the offset and the place in the batch or resets them. *)
Advances(p) ==
    Poll(p) \/ PollFails(p) \/ Handled(p) \/ ReplyBlocked(p) \/ ReplyFails(p) \/ ReplyLimited(p)

Keeps(p) ==
    /\ proc'[p].offset = proc[p].offset \/ proc'[p].offset = 0
    /\ proc'[p].next = proc[p].next \/ proc'[p].next = 1

Quiet ==
    /\ telegram'.confirmed = telegram.confirmed /\ settled' = settled
    /\ \A p \in Procs : Keeps(p)

LEMMA QuietConfirmed ==
    ASSUME TypeInv, ConfirmedInv, Quiet
    PROVE  ConfirmedInv'
<1>1. 1..0 - 1 = {} /\ 1..1 - 1 = {}
  OBVIOUS
<1>2. Passed'
  BY <1>1 DEF Quiet, Keeps, ConfirmedInv, Passed
<1>3. ConfirmedSettled'
  BY DEF Quiet, ConfirmedInv, ConfirmedSettled
<1>4. QED
  BY <1>2, <1>3 DEF ConfirmedInv

LEMMA MoveKeeps ==
    ASSUME TypeInv, NEW p \in Procs, NEW new, Moves(p, new), new.offset = proc[p].offset,
           new.next = proc[p].next \/ new.next = 1
    PROVE  \A q \in Procs : Keeps(q)
  BY DEF Moves, Keeps, TypeInv, TypeOK

LEMMA GotoKeeps ==
    ASSUME TypeInv, NEW p \in Procs, NEW pc, Goto(p, pc)
    PROVE  \A q \in Procs : Keeps(q)
<1>1. proc' = [proc EXCEPT ![p] = [proc[p] EXCEPT !.pc = pc]] /\ proc[p] \in Runtimes
  BY DEF Goto, TypeInv, TypeOK
<1>2. proc'[p] = [proc[p] EXCEPT !.pc = pc] /\ \A q \in Procs \ {p} : proc'[q] = proc[q]
  BY <1>1 DEF TypeInv, TypeOK
<1>3. QED
  BY <1>1, <1>2 DEF Keeps, Runtimes

LEMMA OutsideKeeps ==
    ASSUME TypeInv, NEW p \in Procs, NEW pc, NEW stopping,
           proc' = [proc EXCEPT ![p] = Outside(pc, stopping)]
    PROVE  \A q \in Procs : Keeps(q)
  BY DEF Outside, Keeps, TypeInv, TypeOK

LEMMA WorkQuiet ==
    ASSUME TypeInv, NEW p \in Procs, Lease(p) \/ Route(p) \/ Receive(p), ~Advances(p)
    PROVE  Quiet
<1>1. CASE Lease(p)
  <2>1. telegram' = telegram /\ settled' = settled
    BY <1>1 DEF Lease, Acquire, AcquireUnheard, Renew, LoseLease, LoseValkey, Stop, Release,
                ReleaseFails, history
  <2>2. \/ proc' = proc
        \/ \E pc \in Counters : Goto(p, pc)
        \/ \E stopping \in BOOLEAN : End(p, stopping)
    BY <1>1 DEF Lease, Acquire, AcquireUnheard, Renew, LoseLease, LoseValkey, Stop, Release,
                ReleaseFails, AfterRelease, Counters, Inside
  <2>3. QED
    BY <2>1, <2>2, GotoKeeps, OutsideKeeps DEF End, Quiet, Keeps
<1>2. CASE Route(p)
  <2>1. settled' = settled
    BY <1>2 DEF Route, Check, ConnectFails, Refuse, Backup, Recover, Withdraw, Announce,
                MonitorFails, Connect, TryNext, history
  <2>2. telegram'.confirmed = telegram.confirmed
    <3>1. Registered(p).confirmed = telegram.confirmed
      BY DEF Registered, TypeInv, TypeOK
    <3>2. telegram' \in {telegram, Registered(p)}
      BY <1>2 DEF Route, Check, ConnectFails, Refuse, Backup, Recover, Withdraw, Announce,
                  MonitorFails, Connect, TryNext
    <3>3. QED
      BY <3>1, <3>2
  <2>3. CASE Check(p)
    <3>1. CASE proc' = [proc EXCEPT ![p].pc = "connect", ![p].active = NoRoute]
      <4>1. \A q \in Procs \ {p} : proc'[q] = proc[q]
        BY <3>1 DEF TypeInv, TypeOK
      <4>2. proc'[p] = [proc[p] EXCEPT !.pc = "connect", !.active = NoRoute]
            /\ proc[p] \in Runtimes
        BY <3>1 DEF TypeInv, TypeOK
      <4>3. QED
        BY ZenonT(60), <2>1, <2>2, <4>1, <4>2 DEF Quiet, Keeps, Runtimes
    <3>2. CASE Goto(p, "poll") \/ Goto(p, "connect")
      BY <2>1, <2>2, <3>2, GotoKeeps DEF Quiet
    <3>3. QED
      BY <2>3, <3>1, <3>2 DEF Check
  <2>4. CASE \/ ConnectFails(p) \/ Refuse(p) \/ Backup(p) \/ Announce(p) \/ MonitorFails(p)
    <3>1. \/ \E pc \in Counters : Goto(p, pc)
          \/ End(p, FALSE)
      BY <2>4 DEF ConnectFails, Refuse, Backup, Announce, MonitorFails, Counters, Inside
    <3>2. QED
      BY <2>1, <2>2, <3>1, GotoKeeps, OutsideKeeps DEF End, Quiet
  <2>5. CASE Recover(p) \/ Withdraw(p) \/ \E r \in Routes : Connect(p, r) \/ TryNext(p, r)
    <3>1. proc[p] \in Runtimes
      BY DEF TypeInv, TypeOK
    <3>2. Forgotten(p, "announce").offset = proc[p].offset
          /\ Forgotten(p, "announce").next = proc[p].next
      BY <3>1 DEF Forgotten, Runtimes
    <3>3. \A q \in Procs : Keeps(q)
      <4>1. CASE Recover(p)
        <5> DEFINE new == [proc[p] EXCEPT !.pc = "withdraw"]
        <5>1. Moves(p, new) \/ Moves(p, Forgotten(p, "announce"))
          BY <4>1 DEF Recover, Moves, TypeInv, TypeOK
        <5>2. new.offset = proc[p].offset /\ new.next = proc[p].next
          BY <3>1 DEF Runtimes
        <5>3. QED
          BY <3>2, <5>1, <5>2, MoveKeeps
      <4>2. CASE Withdraw(p)
        BY <3>2, <4>2, MoveKeeps DEF Withdraw, Moves
      <4>3. ASSUME NEW r \in Routes, Connect(p, r)
            PROVE  \A q \in Procs : Keeps(q)
        <5>1. AfterConnect(p, r).offset = proc[p].offset /\ AfterConnect(p, r).next = proc[p].next
          BY <3>1 DEF AfterConnect, Runtimes
        <5>2. QED
          BY <4>3, <5>1, MoveKeeps DEF Connect, Moves
      <4>4. ASSUME NEW r \in Routes, TryNext(p, r)
            PROVE  \A q \in Procs : Keeps(q)
        BY <4>4 DEF TryNext, Keeps
      <4>5. QED
        BY <2>5, <4>1, <4>2, <4>3, <4>4
    <3>4. QED
      BY <2>1, <2>2, <3>3 DEF Quiet
  <2>6. QED
    BY <1>2, <2>3, <2>4, <2>5 DEF Route
<1>3. CASE Owned(p) \/ Publish(p)
  <2>1. \E pc \in Counters : Goto(p, pc)
    BY <1>3 DEF Owned, Publish, Counters, Inside
  <2>2. QED
    BY <1>3, <2>1, GotoKeeps DEF Owned, Publish, history, Quiet
<1>4. CASE Begin(p) \/ EndBatch(p) \/ Reply(p)
  <2>1. proc[p] \in Runtimes
    BY DEF TypeInv, TypeOK
  <2>2. CASE Begin(p)
    <3> DEFINE new == [proc[p] EXCEPT !.pc = "handle",
                                      !.taken = proc[p].taken \cup {proc[p].next}]
    <3>1. Moves(p, new)
      BY <2>2 DEF Begin, Moves, TypeInv, TypeOK
    <3>2. new.offset = proc[p].offset /\ new.next = proc[p].next
      BY <2>1 DEF Runtimes
    <3>3. QED
      BY <2>2, <3>1, <3>2, MoveKeeps DEF Begin, history, Quiet
  <2>3. CASE EndBatch(p)
    <3> DEFINE new == [proc[p] EXCEPT !.pc = "backup", !.next = 1, !.last = 0]
    <3>1. Moves(p, new)
      BY <2>3 DEF EndBatch, Moves, TypeInv, TypeOK
    <3>2. new.offset = proc[p].offset /\ new.next = 1
      BY <2>1 DEF Runtimes
    <3>3. QED
      BY <2>3, <3>1, <3>2, MoveKeeps DEF EndBatch, history, Quiet
  <2>4. CASE Reply(p)
    <3> DEFINE new == [proc[p] EXCEPT !.pc = "reply", !.via = ReadyRoute(slot[p])]
    <3>1. Moves(p, new)
      BY <2>4 DEF Reply, Moves, TypeInv, TypeOK
    <3>2. new.offset = proc[p].offset /\ new.next = proc[p].next
      BY <2>1 DEF Runtimes
    <3>3. QED
      BY <2>4, <3>1, <3>2, MoveKeeps DEF Reply, history, Quiet
  <2>5. QED
    BY <1>4, <2>2, <2>3, <2>4
<1>5. QED
  BY <1>1, <1>2, <1>3, <1>4 DEF Receive, Advances

(* A poll confirms what the offset passed, and goes on from there. *)
LEMMA PollConfirmed ==
    ASSUME TypeInv, ConfirmedInv, NEW p \in Procs, Poll(p) \/ PollFails(p)
    PROVE  ConfirmedInv'
<1>1. proc[p] \in Runtimes /\ telegram.confirmed \in 0..MaxUpdates
  BY DEF TypeInv, TypeOK
<1>2. 1..Confirmed(p) \subseteq settled
  BY DEF Confirmed, ConfirmedInv, ConfirmedSettled, Passed
<1>3. settled' = settled
  BY DEF Poll, PollFails, history
<1>4. ConfirmedSettled'
  <2>1. telegram'.confirmed \in {telegram.confirmed, Confirmed(p)}
    BY DEF Poll, PollFails, Confirm, TypeInv, TypeOK
  <2>2. QED
    BY <1>2, <1>3, <2>1 DEF ConfirmedInv, ConfirmedSettled
<1>5. CASE Poll(p)
  <2>1. Confirmed(p) \in 0..MaxUpdates
    BY <1>1, ConstantAssumption DEF Confirmed, Runtimes
  <2>2. PICK last \in Confirmed(p)..MaxUpdates :
            proc' = [proc EXCEPT ![p].pc = "owned", ![p].next = Confirmed(p) + 1, ![p].last = last]
    BY <1>5 DEF Poll
  <2> DEFINE new == [proc[p] EXCEPT !.pc = "owned", !.next = Confirmed(p) + 1, !.last = last]
  <2>3. new.offset = proc[p].offset /\ new.next = Confirmed(p) + 1
    BY <1>1 DEF Runtimes
  <2>4. proc'[p] = new /\ \A q \in Procs \ {p} : proc'[q] = proc[q]
    BY <2>2 DEF TypeInv, TypeOK
  <2>5. new.next - 1 = Confirmed(p)
    BY <2>1, <2>3
  <2> HIDE DEF new
  <2>6. Passed'
    BY <1>2, <1>3, <2>3, <2>4, <2>5 DEF ConfirmedInv, Passed
  <2>7. QED
    BY <1>4, <2>6 DEF ConfirmedInv
<1>6. CASE PollFails(p)
  <2>1. \A q \in Procs : Keeps(q)
    BY <1>6, GotoKeeps DEF PollFails
  <2>2. 1..0 - 1 = {} /\ 1..1 - 1 = {}
    OBVIOUS
  <2>3. QED
    BY <1>3, <1>4, <2>1, <2>2 DEF Keeps, ConfirmedInv, Passed
<1>7. QED
  BY <1>5, <1>6

LEMMA SettleConfirmed ==
    ASSUME TypeInv, ConfirmedInv, NEW p \in Procs, NEW pc, Settle(p, pc), telegram' = telegram
    PROVE  ConfirmedInv'
<1>1. proc[p] \in Runtimes
  BY DEF TypeInv, TypeOK
<1>2. settled \subseteq settled' /\ proc[p].next \in settled'
  BY DEF Settle
<1>3. 1..proc[p].next \subseteq settled'
  <2>1. \A i \in 1..proc[p].next : i \in 1..proc[p].next - 1 \/ i = proc[p].next
    BY <1>1 DEF Runtimes
  <2>2. QED
    BY <1>2, <2>1 DEF ConfirmedInv, Passed
<1>4. proc'[p] = Settled(p, pc) /\ \A q \in Procs \ {p} : proc'[q] = proc[q]
  BY DEF Settle, TypeInv, TypeOK
<1>5. Settled(p, pc).offset - 1 = proc[p].next
      /\ (Settled(p, pc).next - 1 = proc[p].next \/ Settled(p, pc).next - 1 = 0)
  <2> DEFINE after == IF pc = "dispatch" THEN proc[p].next + 1 ELSE 1
             end == IF pc = "dispatch" THEN proc[p].last ELSE 0
  <2>1. Settled(p, pc) = [proc[p] EXCEPT !.pc = pc, !.offset = proc[p].next + 1, !.via = NoRoute,
                                         !.next = after, !.last = end]
    BY DEF Settled, Offset
  <2>2. proc[p].next \in Int /\ after \in Int /\ (after = proc[p].next + 1 \/ after = 1)
    BY <1>1 DEF Runtimes
  <2> HIDE DEF after, end
  <2>3. Settled(p, pc).offset = proc[p].next + 1 /\ Settled(p, pc).next = after
    BY <1>1, <2>1 DEF Runtimes
  <2>4. QED
    BY <2>2, <2>3
<1>6. Passed'
  <2>1. 1..0 = {}
    OBVIOUS
  <2>2. 1..proc'[p].offset - 1 \subseteq settled' /\ 1..proc'[p].next - 1 \subseteq settled'
    BY <1>3, <1>4, <1>5, <2>1
  <2>3. QED
    BY <1>2, <1>4, <2>2 DEF ConfirmedInv, Passed
<1>7. QED
  BY <1>2, <1>6 DEF ConfirmedInv, ConfirmedSettled

LEMMA NextConfirmed == TypeInv /\ ConfirmedInv /\ [Next]_vars => ConfirmedInv'
<1> SUFFICES ASSUME TypeInv, ConfirmedInv, [Next]_vars PROVE ConfirmedInv'
  OBVIOUS
<1>1. ASSUME NEW p \in Procs, Lease(p) \/ Route(p) \/ Receive(p), ~Advances(p)
      PROVE  ConfirmedInv'
  BY <1>1, WorkQuiet, QuietConfirmed
<1>2. ASSUME NEW p \in Procs, Advances(p)
      PROVE  ConfirmedInv'
  BY <1>2, PollConfirmed, SettleConfirmed
     DEF Advances, Handled, ReplyBlocked, ReplyFails, ReplyLimited
<1>3. ASSUME NEW p \in Procs, Crash(p)
      PROVE  ConfirmedInv'
  BY <1>3, OutsideKeeps, QuietConfirmed DEF Crash, Quiet
<1>4. ASSUME NEW p \in Procs, Stall(p) \/ Resume(p)
      PROVE  ConfirmedInv'
  BY <1>4, QuietConfirmed DEF Stall, Resume, Quiet, Keeps, history
<1>5. ASSUME NEW s \in Slots, WorkerFails(s)
      PROVE  ConfirmedInv'
  BY <1>5, QuietConfirmed DEF WorkerFails, Quiet, Keeps, history
<1>6. CASE Tick \/ UNCHANGED vars
  BY <1>6, QuietConfirmed DEF Tick, vars, Quiet, Keeps, history
<1>7. QED
  BY <1>1, <1>2, <1>3, <1>4, <1>5, <1>6 DEF Next

(* No update is confirmed to Telegram before a handler attempt settled for  *)
(* it, whatever failures, stalls and takeovers happen: none is lost unseen. *)
THEOREM ConfirmedCorrect == Spec => []ConfirmedSettled
<1>1. Init => ConfirmedInv
  <2>1. 1..0 = {} /\ 1..0 - 1 = {} /\ 1..1 - 1 = {}
    OBVIOUS
  <2>2. Init => telegram.confirmed = 0
    BY DEF Init
  <2>3. Init => \A p \in Procs : proc[p].offset = 0 /\ proc[p].next = 1
    BY DEF Init, Outside
  <2>4. QED
    BY <2>1, <2>2, <2>3 DEF ConfirmedInv, ConfirmedSettled, Passed
<1>2. ConfirmedInv => ConfirmedSettled
  BY DEF ConfirmedInv
<1>3. QED
  BY InitType, NextType, NextConfirmed, <1>1, <1>2, PTL DEF Spec

-----------------------------------------------------------------------------
(* What one process has registered and taken *)

(* What one runtime record says of its process, whatever the others do. *)
Local(p, r) ==
    /\ r.registered # NoRoute \/ r.taken # {} => r.pc \in Inside
    /\ r.pc \in {"poll", "owned", "publish"} => r.registered # NoRoute
    /\ mode[p] = "polling" /\ r.active # NoRoute => r.registered # NoRoute
    /\ r.pc \in {"dispatch", "handle", "reply"} => mode[p] = "polling"
    /\ r.pc \in {"owned", "publish", "dispatch", "handle", "reply"} /\ mode[p] = "polling" =>
          r.offset <= r.next
    /\ \A u \in r.taken : u < r.offset \/ (r.pc \in {"handle", "reply"} /\ u = r.next)

(* It is so of every process. *)
AllLocal == \A p \in Procs : Local(p, proc[p])

(* A step that moves one process leaves the records of the others as they   *)
(* are.                                                                     *)
LEMMA LocalMove ==
    ASSUME TypeInv, AllLocal, NEW p \in Procs, NEW new, Moves(p, new), Local(p, new), UNCHANGED mode
    PROVE  AllLocal'
<1>1. proc'[p] = new /\ \A q \in Procs \ {p} : proc'[q] = proc[q]
  BY DEF Moves, TypeInv, TypeOK
<1>2. QED
  BY <1>1 DEF AllLocal, Local

(* Going on, away from a handler, keeps what was taken and registered.      *)
LEMMA LocalGoto ==
    ASSUME TypeInv, AllLocal, NEW p \in Procs, NEW pc \in Counters, Goto(p, pc), UNCHANGED mode,
           proc[p].pc \in Inside => pc \in Inside,
           pc \in {"poll", "owned", "publish"} => proc[p].registered # NoRoute,
           pc \in {"owned", "publish", "dispatch"} =>
              proc[p].pc \in {"owned", "publish", "dispatch"},
           pc = "dispatch" => mode[p] = "polling",
           pc \notin {"handle", "reply"}, proc[p].pc \notin {"handle", "reply"}
    PROVE  AllLocal'
<1> DEFINE new == [proc[p] EXCEPT !.pc = pc]
<1>1. proc[p] \in Runtimes /\ Local(p, proc[p])
  BY DEF TypeInv, TypeOK, AllLocal
<1>2. /\ new.pc = pc /\ new.registered = proc[p].registered /\ new.active = proc[p].active
      /\ new.taken = proc[p].taken /\ new.offset = proc[p].offset /\ new.next = proc[p].next
  BY <1>1 DEF Runtimes
<1>3. Moves(p, new)
  BY DEF Goto, Moves
<1> HIDE DEF new
<1>4. Local(p, new)
  BY <1>1, <1>2 DEF Local
<1>5. QED
  BY <1>3, <1>4, LocalMove

(* Outside the task group nothing is taken and nothing registered.          *)
LEMMA LocalOutside ==
    ASSUME TypeInv, AllLocal, NEW p \in Procs, NEW pc \in {"idle", "release", "dead"},
           NEW stopping, UNCHANGED mode, proc' = [proc EXCEPT ![p] = Outside(pc, stopping)]
    PROVE  AllLocal'
<1>1. Moves(p, Outside(pc, stopping))
  BY DEF Moves
<1>2. Local(p, Outside(pc, stopping))
  BY DEF Local, Outside
<1>3. QED
  BY <1>1, <1>2, LocalMove

(* The actions of the lease.                                                *)
LEMMA LeaseLocal ==
    ASSUME TypeInv, AllLocal, NEW p \in Procs, Lease(p)
    PROVE  AllLocal'
<1>1. UNCHANGED mode
  BY DEF Lease, Acquire, AcquireUnheard, Renew, LoseLease, LoseValkey, Stop, Release, ReleaseFails, config
<1>2. CASE Renew(p)
  BY <1>1, <1>2 DEF Renew, AllLocal, Local
<1>3. CASE End(p, TRUE) \/ End(p, FALSE)
  BY <1>1, <1>3, LocalOutside DEF End
<1>4. CASE /\ proc[p].pc \in {"idle", "release"}
           /\ \E pc \in {"idle", "dead", "check"} : Goto(p, pc)
  BY <1>1, <1>4, LocalGoto DEF Counters, Inside
<1>5. QED
  BY <1>2, <1>3, <1>4 DEF Lease, Acquire, AcquireUnheard, LoseLease, LoseValkey, Stop, Release,
     ReleaseFails, AfterRelease, Awake

(* The loop: every route it forgets or makes active it also unregisters or  *)
(* registers.                                                               *)
LEMMA RouteLocal ==
    ASSUME TypeInv, AllLocal, NEW p \in Procs, Route(p)
    PROVE  AllLocal'
<1>1. UNCHANGED mode /\ proc[p] \in Runtimes /\ Local(p, proc[p]) /\ mode[p] \in {"polling", "webhook"}
  BY ConstantAssumption DEF Route, Check, ConnectFails, Refuse, Backup, Recover, Withdraw, Announce,
                MonitorFails, Connect, TryNext, config, TypeInv, TypeOK, AllLocal
<1>2. CASE Check(p)
  <2>1. CASE mode[p] = "polling" /\ proc[p].active # NoRoute /\ Goto(p, "poll")
    BY <1>1, <1>2, <2>1, LocalGoto DEF Check, Awake, Local, Counters, Inside
  <2>2. CASE proc' = [proc EXCEPT ![p].pc = "connect", ![p].active = NoRoute]
    <3> DEFINE new == [proc[p] EXCEPT !.pc = "connect", !.active = NoRoute]
    <3>1. Moves(p, new)
      BY <2>2 DEF Moves, TypeInv, TypeOK
    <3>2. /\ new.pc = "connect" /\ new.registered = proc[p].registered /\ new.active = NoRoute
          /\ new.taken = proc[p].taken /\ new.offset = proc[p].offset /\ new.next = proc[p].next
      BY <1>1 DEF Runtimes
    <3> HIDE DEF new
    <3>3. Local(p, new)
      BY <1>1, <1>2, <3>2 DEF Check, Awake, Local, Inside
    <3>4. QED
      BY <1>1, <3>1, <3>3, LocalMove
  <2>3. CASE Goto(p, "connect")
    BY <1>1, <1>2, <2>3, LocalGoto DEF Check, Awake, Counters, Inside
  <2>4. QED
    BY <1>2, <2>1, <2>2, <2>3 DEF Check
<1>3. CASE ConnectFails(p)
  BY <1>1, <1>3, LocalGoto DEF ConnectFails, Awake, Counters, Inside
<1>4. CASE Refuse(p)
  <2>1. CASE End(p, FALSE)
    BY <1>1, <2>1, LocalOutside DEF End
  <2>2. CASE Goto(p, "failed")
    BY <1>1, <1>4, <2>2, LocalGoto DEF Refuse, Counters, Inside
  <2>3. QED
    BY <1>4, <2>1, <2>2 DEF Refuse
<1>5. CASE Backup(p)
  BY <1>1, <1>5, LocalGoto DEF Backup, Awake, Counters, Inside
<1>6. CASE Announce(p)
  BY <1>1, <1>6, LocalGoto DEF Announce, Awake, Counters, Inside
<1>7. CASE MonitorFails(p)
  BY <1>1, <1>7, LocalGoto DEF MonitorFails, Counters, Inside
<1>8. ASSUME proc[p].pc \in {"failed", "limited", "withdraw"} PROVE Local(p, Forgotten(p, "announce"))
  <2> DEFINE new == Forgotten(p, "announce")
  <2>1. /\ new.pc = "announce" /\ new.registered = NoRoute
        /\ mode[p] = "polling" => new.active = NoRoute
        /\ new.taken = proc[p].taken /\ new.offset = proc[p].offset /\ new.next = proc[p].next
    BY <1>1 DEF Forgotten, Runtimes
  <2> HIDE DEF new
  <2>2. Local(p, new)
    BY <1>1, <1>8, <2>1 DEF Local, Inside
  <2>3. QED
    BY <2>2 DEF new
<1>9. CASE Recover(p)
  <2>1. CASE proc' = [proc EXCEPT ![p] = Forgotten(p, "announce")]
    BY <1>1, <1>8, <1>9, <2>1, LocalMove DEF Recover, Moves
  <2>2. CASE Goto(p, "withdraw")
    BY <1>1, <1>9, <2>2, LocalGoto DEF Recover, Counters, Inside
  <2>3. QED
    BY <1>9, <2>1, <2>2 DEF Recover, Goto, TypeInv, TypeOK
<1>10. CASE Withdraw(p)
  BY <1>1, <1>8, <1>10, LocalMove DEF Withdraw, Awake, Moves
<1>11. ASSUME NEW r \in Routes, Connect(p, r) PROVE AllLocal'
  <2> DEFINE new == AfterConnect(p, r)
  <2>1. /\ new.pc = IF mode[p] = "polling" THEN "poll" ELSE "owned"
        /\ new.registered = r /\ new.active = r
        /\ new.taken = proc[p].taken /\ new.offset = proc[p].offset /\ new.next = proc[p].next
    BY <1>1 DEF AfterConnect, Runtimes
  <2>2. r # NoRoute /\ proc[p].pc = "connect" /\ Moves(p, new)
    BY <1>11, ConstantAssumption DEF Connect, Awake, Moves
  <2> HIDE DEF new
  <2>3. Local(p, new)
    BY <1>1, <2>1, <2>2 DEF Local, Inside
  <2>4. QED
    BY <1>1, <2>2, <2>3, LocalMove
<1>12. ASSUME NEW r \in Routes, TryNext(p, r) PROVE AllLocal'
  BY <1>1, <1>12 DEF TryNext, AllLocal, Local
<1>13. QED
  BY <1>2, <1>3, <1>4, <1>5, <1>6, <1>7, <1>9, <1>10, <1>11, <1>12 DEF Route

(* A handler that is over, whatever came of it, is passed by the offset.     *)
LEMMA SettleLocal ==
    ASSUME TypeInv, AllLocal, NEW p \in Procs, NEW pc \in {"dispatch", "failed", "limited"},
           proc[p].pc \in {"handle", "reply"}, Settle(p, pc), UNCHANGED mode
    PROVE  AllLocal'
<1> DEFINE new == Settled(p, pc)
           after == IF pc = "dispatch" THEN proc[p].next + 1 ELSE 1
           end == IF pc = "dispatch" THEN proc[p].last ELSE 0
<1>1. proc[p] \in Runtimes /\ Local(p, proc[p])
  BY DEF TypeInv, TypeOK, AllLocal
<1>2. new = [proc[p] EXCEPT !.pc = pc, !.offset = proc[p].next + 1, !.via = NoRoute,
                            !.next = after, !.last = end]
  BY DEF Settled, Offset
<1>3. Moves(p, new)
  BY DEF Settle, Moves
<1>4. (pc = "dispatch" => after = proc[p].next + 1) /\ proc[p].next \in Int /\ proc[p].offset \in Int
      /\ \A u \in proc[p].taken : u \in Int
  BY <1>1, ConstantAssumption DEF Runtimes, Updates
<1> HIDE DEF new, after, end
<1>5. /\ new.pc = pc /\ new.registered = proc[p].registered /\ new.active = proc[p].active
      /\ new.taken = proc[p].taken /\ new.offset = proc[p].next + 1 /\ new.next = after
  BY <1>1, <1>2 DEF Runtimes
<1>6. mode[p] = "polling" /\ proc[p].offset <= proc[p].next
  BY <1>1 DEF Local
<1>7. \A u \in new.taken : u < new.offset
  BY <1>1, <1>4, <1>5, <1>6 DEF Local
<1>8. Local(p, new)
  BY <1>1, <1>4, <1>5, <1>6, <1>7 DEF Local, Inside
<1>9. QED
  BY <1>3, <1>8, LocalMove

(* The updates: what a poll returns lies at or beyond the offset, and what a *)
(* handler takes next is the first of it.                                   *)
LEMMA ReceiveLocal ==
    ASSUME TypeInv, AllLocal, NEW p \in Procs, Receive(p)
    PROVE  AllLocal'
<1>1. UNCHANGED mode /\ proc[p] \in Runtimes /\ Local(p, proc[p]) /\ mode[p] \in {"polling", "webhook"}
  BY ConstantAssumption DEF Receive, Poll, PollFails, Owned, Publish, Begin, EndBatch, Reply, Handled,
                ReplyBlocked, ReplyFails, ReplyLimited, config, TypeInv, TypeOK, AllLocal
<1>2. proc[p].offset \in Int /\ proc[p].next \in Int /\ telegram.confirmed \in Int
  BY ConstantAssumption DEF Runtimes, TypeInv, TypeOK
<1>3. CASE Poll(p)
  <2>1. PICK last \in Confirmed(p)..MaxUpdates :
            proc' = [proc EXCEPT ![p].pc = "owned", ![p].next = Confirmed(p) + 1, ![p].last = last]
    BY <1>3 DEF Poll
  <2> DEFINE new == [proc[p] EXCEPT !.pc = "owned", !.next = Confirmed(p) + 1, !.last = last]
  <2>2. Moves(p, new)
    BY <2>1 DEF Moves, TypeInv, TypeOK
  <2>3. /\ new.pc = "owned" /\ new.registered = proc[p].registered /\ new.active = proc[p].active
        /\ new.taken = proc[p].taken /\ new.offset = proc[p].offset
        /\ new.next = Confirmed(p) + 1
    BY <1>1 DEF Runtimes
  <2>4. proc[p].offset <= Confirmed(p) + 1
    BY <1>2 DEF Confirmed
  <2>5. proc[p].pc = "poll"
    BY <1>3 DEF Poll, Awake
  <2> HIDE DEF new
  <2>6. Local(p, new)
    BY <1>1, <2>3, <2>4, <2>5 DEF Local, Inside
  <2>7. QED
    BY <1>1, <2>2, <2>6, LocalMove
<1>4. CASE PollFails(p)
  BY <1>1, <1>4, LocalGoto DEF PollFails, Awake, Counters, Inside
<1>5. CASE Owned(p)
  BY <1>1, <1>5, LocalGoto DEF Owned, Awake, Local, Counters, Inside
<1>6. CASE Publish(p)
  BY <1>1, <1>6, LocalGoto DEF Publish, Awake, Local, Counters, Inside
<1>7. CASE Begin(p)
  <2> DEFINE taken == proc[p].taken \cup {proc[p].next}
             new == [proc[p] EXCEPT !.pc = "handle", !.taken = taken]
  <2>1. Moves(p, new)
    BY <1>7 DEF Begin, Moves, taken, TypeInv, TypeOK
  <2> HIDE DEF taken
  <2>2. /\ new.pc = "handle" /\ new.registered = proc[p].registered /\ new.active = proc[p].active
        /\ new.taken = taken /\ new.offset = proc[p].offset /\ new.next = proc[p].next
    BY <1>1 DEF Runtimes
  <2>3. proc[p].pc = "dispatch"
    BY <1>7 DEF Begin, Awake
  <2>4. \A u \in taken : u \in proc[p].taken \/ u = proc[p].next
    BY DEF taken
  <2> HIDE DEF new
  <2>5. Local(p, new)
    BY <1>1, <2>2, <2>3, <2>4 DEF Local, Inside
  <2>6. QED
    BY <1>1, <2>1, <2>5, LocalMove
<1>8. CASE EndBatch(p)
  <2> DEFINE new == [proc[p] EXCEPT !.pc = "backup", !.next = 1, !.last = 0]
  <2>1. Moves(p, new)
    BY <1>8 DEF EndBatch, Moves, TypeInv, TypeOK
  <2>2. /\ new.pc = "backup" /\ new.registered = proc[p].registered /\ new.active = proc[p].active
        /\ new.taken = proc[p].taken /\ new.offset = proc[p].offset
    BY <1>1 DEF Runtimes
  <2>3. proc[p].pc = "dispatch"
    BY <1>8 DEF EndBatch, Awake
  <2> HIDE DEF new
  <2>4. Local(p, new)
    BY <1>1, <2>2, <2>3 DEF Local, Inside
  <2>5. QED
    BY <1>1, <2>1, <2>4, LocalMove
<1>9. CASE Reply(p)
  <2> DEFINE new == [proc[p] EXCEPT !.pc = "reply", !.via = ReadyRoute(slot[p])]
  <2>1. Moves(p, new)
    BY <1>9 DEF Reply, Moves, TypeInv, TypeOK
  <2>2. /\ new.pc = "reply" /\ new.registered = proc[p].registered /\ new.active = proc[p].active
        /\ new.taken = proc[p].taken /\ new.offset = proc[p].offset /\ new.next = proc[p].next
    BY <1>1 DEF Runtimes
  <2>3. proc[p].pc = "handle"
    BY <1>9 DEF Reply, Awake
  <2> HIDE DEF new
  <2>4. Local(p, new)
    BY <1>1, <2>2, <2>3 DEF Local, Inside
  <2>5. QED
    BY <1>1, <2>1, <2>4, LocalMove
<1>10. CASE Handled(p) \/ ReplyBlocked(p) \/ ReplyFails(p) \/ ReplyLimited(p)
  BY <1>1, <1>10, SettleLocal DEF Handled, ReplyBlocked, ReplyFails, ReplyLimited, Awake
<1>11. QED
  BY <1>3, <1>4, <1>5, <1>6, <1>7, <1>8, <1>9, <1>10 DEF Receive

(* Every step keeps it.                                                     *)
LEMMA NextLocal == TypeInv /\ AllLocal /\ [Next]_vars => AllLocal'
<1> SUFFICES ASSUME TypeInv, AllLocal, [Next]_vars PROVE AllLocal'
  OBVIOUS
<1>1. ASSUME NEW p \in Procs, Crash(p) PROVE AllLocal'
  BY <1>1, LocalOutside DEF Crash, config
<1>2. CASE UNCHANGED <<proc, mode>>
  BY <1>2 DEF AllLocal, Local
<1>3. ASSUME NEW p \in Procs, Stall(p) \/ Resume(p) PROVE AllLocal'
  BY <1>2, <1>3 DEF Stall, Resume, config
<1>4. ASSUME NEW s \in Slots, WorkerFails(s) PROVE AllLocal'
  BY <1>2, <1>4 DEF WorkerFails, config
<1>5. CASE Tick \/ UNCHANGED vars
  BY <1>2, <1>5 DEF Tick, vars, config
<1>6. QED
  BY <1>1, <1>3, <1>4, <1>5, LeaseLocal, RouteLocal, ReceiveLocal DEF Next

(* It holds in every state, with the types and the ownership of the lease.  *)
LEMMA AlwaysLocal == Spec => [](TypeInv /\ OwnerInv /\ AllLocal)
<1>1. Init => AllLocal
  BY DEF Init, Outside, AllLocal, Local
<1>2. Init => OwnerInv
  BY DEF Init, Outside, Holding, Running, Inside, OwnerInv, OwnerUnlessStalled
<1>3. QED
  BY InitType, NextType, NextOwner, NextLocal, <1>1, <1>2, PTL DEF Spec

(* No update is handed to a handler while a receiver that was never stalled *)
(* and took it before is alive.                                             *)
THEOREM TakenOnceCorrect == Spec => TakenOnce
<1>1. ASSUME TypeInv, OwnerInv, AllLocal, NEW p \in Procs, NEW q \in Procs, Begin(p), q \notin suspect
      PROVE  proc[p].next \notin proc[q].taken
  <2>1. proc[p].pc = "dispatch" /\ Owns(p) /\ Local(p, proc[p]) /\ Local(q, proc[q])
    BY <1>1 DEF Begin, Awake, AllLocal
  <2>2. CASE q = p
    <3>1. \A u \in proc[p].taken : u < proc[p].offset
      BY <2>1 DEF Local
    <3>2. proc[p].offset <= proc[p].next
      BY <2>1 DEF Local
    <3>3. proc[p].offset \in Int /\ proc[p].next \in Int
      BY <1>1 DEF TypeInv, TypeOK, Runtimes
    <3>4. QED
      BY <2>2, <3>1, <3>2, <3>3
  <2>3. CASE q # p
    <3>1. ~Owns(q)
      BY <2>1, <2>3 DEF Owns
    <3>2. ~Holding(q)
      BY <1>1, <3>1 DEF OwnerInv, OwnerUnlessStalled
    <3>3. proc[q].taken = {}
      BY <2>1, <3>2 DEF Local, Holding, Running
    <3>4. QED
      BY <3>3
  <2>4. QED
    BY <2>2, <2>3
<1>2. TypeInv /\ OwnerInv /\ AllLocal =>
        [\A p, q \in Procs : Begin(p) /\ q \notin suspect => proc[p].next \notin proc[q].taken]_vars
  BY <1>1
<1>3. QED
  BY <1>2, AlwaysLocal, PTL DEF TakenOnce

-----------------------------------------------------------------------------
(* Readiness *)

(* The webhook is set just if the mode of the process needs it.             *)
Matches(p) == telegram.webhook = (mode[p] = "webhook")

(* A route counts as registered while it lasts as the one whose webhook     *)
(* setting is in force.                                                     *)
WebhookOf(p) == proc[p].registered # NoRoute /\ suspect = {} => Matches(p)

(* The record of a slot is by a process of the slot that is at work, or     *)
(* that could not withdraw it.                                              *)
RecordOf(s) ==
    ReadyRoute(s) # NoRoute =>
        /\ status[s].by \in Procs
        /\ slot[status[s].by] = s
        /\ Holding(status[s].by) \/ status[s].by \in suspect
        /\ suspect = {} => Matches(status[s].by)

(* What readiness rests on.                                                 *)
ReadyInv == (\A p \in Procs : WebhookOf(p)) /\ (\A s \in Slots : RecordOf(s))

(* As long as nobody is suspect, the process that holds is the only one.    *)
LEMMA OneHolder ==
    ASSUME OwnerInv, NEW p \in Procs, NEW q \in Procs, suspect = {}, Holding(p), Holding(q)
    PROVE  p = q
  BY DEF OwnerInv, OwnerUnlessStalled, Owns

(* Of a step that leaves Telegram alone, only what becomes of the holders,  *)
(* of the routes registered and of the records matters.                     *)
LEMMA ReadyKept ==
    ASSUME TypeInv, ReadyInv, UNCHANGED <<mode, slot>>, telegram'.webhook = telegram.webhook,
           suspect \subseteq suspect',
           \A p \in Procs : proc'[p].registered # NoRoute => proc[p].registered # NoRoute,
           \A p \in Procs : Holding(p) => Holding(p)' \/ p \in suspect',
           \A s \in Slots : status'[s].route # NoRoute =>
              status[s].route # NoRoute /\ status'[s].by = status[s].by
    PROVE  ReadyInv'
<1>1. ASSUME NEW p \in Procs PROVE WebhookOf(p)'
  BY DEF ReadyInv, WebhookOf, Matches
<1>2. ASSUME NEW s \in Slots PROVE RecordOf(s)'
  <2> DEFINE c == status'[s].by
  <2> SUFFICES ASSUME status'[s].route # NoRoute
               PROVE  /\ c \in Procs
                      /\ slot'[c] = s
                      /\ proc'[c].pc \in Inside \/ proc'[c].pc = "release" \/ c \in suspect'
                      /\ suspect' = {} => telegram'.webhook = (mode'[c] = "webhook")
    BY DEF RecordOf, ReadyRoute, Holding, Running, Matches
  <2>1. status'[s].by = status[s].by /\ RecordOf(s) /\ ReadyRoute(s) # NoRoute
    BY DEF ReadyInv, ReadyRoute
  <2> DEFINE b == status[s].by
  <2>2. /\ b \in Procs /\ slot[b] = s
        /\ Holding(b) \/ b \in suspect
        /\ suspect = {} => Matches(b)
    BY <2>1 DEF RecordOf
  <2>3. Holding(b) => proc'[b].pc \in Inside \/ proc'[b].pc = "release" \/ b \in suspect'
    BY <2>2 DEF Holding, Running
  <2>4. proc'[b].pc \in Inside \/ proc'[b].pc = "release" \/ b \in suspect'
    BY <2>2, <2>3
  <2>5. suspect' = {} => telegram'.webhook = (mode[b] = "webhook")
    BY <2>2 DEF Matches
  <2>6. c = b
    BY <2>1
  <2> HIDE DEF b, c
  <2>7. QED
    BY <2>2, <2>4, <2>5, <2>6
<1>3. QED
  BY <1>1, <1>2 DEF ReadyInv

(* A step registers no route and ends no hold, but of a suspect. *)
Steady ==
    /\ \A q \in Procs : proc'[q].registered # NoRoute => proc[q].registered # NoRoute
    /\ \A q \in Procs : Holding(q) => Holding(q)' \/ q \in suspect'

(* A step publishes nothing. *)
Unpublished ==
    \A s \in Slots : status'[s].route # NoRoute =>
        status[s].route # NoRoute /\ status'[s].by = status[s].by

(* A process that goes on inside, or to the release, and registers nothing. *)
LEMMA MoveSteady ==
    ASSUME TypeInv, NEW p \in Procs, NEW new, Moves(p, new),
           new.registered # NoRoute => proc[p].registered # NoRoute,
           Holding(p) => new.pc \in Inside \cup {"release"} \/ p \in suspect'
    PROVE  Steady
<1>1. proc'[p] = new /\ \A q \in Procs \ {p} : proc'[q] = proc[q]
  BY DEF Moves, TypeInv, TypeOK
<1>2. QED
  BY <1>1 DEF Steady, Holding, Running

(* The same of a step that only changes where it is.                        *)
LEMMA GotoSteady ==
    ASSUME TypeInv, NEW p \in Procs, NEW pc, Goto(p, pc),
           Holding(p) => pc \in Inside \cup {"release"} \/ p \in suspect'
    PROVE  Steady
<1> DEFINE new == [proc[p] EXCEPT !.pc = pc]
<1>1. proc[p] \in Runtimes /\ Moves(p, new)
  BY DEF Goto, Moves, TypeInv, TypeOK
<1>2. new.pc = pc /\ new.registered = proc[p].registered
  BY <1>1 DEF Runtimes
<1> HIDE DEF new
<1>3. QED
  BY <1>1, <1>2, MoveSteady

(* The same of one that leaves the task group.                              *)
LEMMA OutsideSteady ==
    ASSUME TypeInv, NEW p \in Procs, NEW pc, NEW stopping,
           proc' = [proc EXCEPT ![p] = Outside(pc, stopping)],
           Holding(p) => pc = "release" \/ p \in suspect'
    PROVE  Steady
  BY MoveSteady DEF Outside, Moves

(* Records are withdrawn, by anyone, but never rewritten.                   *)
LEMMA StatusUnpublished ==
    ASSUME TypeInv
    PROVE  /\ status' = status => Unpublished
           /\ \A s \in Slots : status' = [status EXCEPT ![s] = NotReady] => Unpublished
           /\ \A s \in Slots, r \in MaybeRoute : status' = Marked(s, r) => Unpublished
           /\ \A p \in Procs, r \in MaybeRoute : MarkFailed(p, r) => Unpublished
<1>1. status' = status => Unpublished
  BY DEF Unpublished
<1>2. \A s \in Slots : status' = [status EXCEPT ![s] = NotReady] => Unpublished
  BY DEF Unpublished, NotReady, TypeInv, TypeOK
<1>3. \A s \in Slots, r \in MaybeRoute : status' = Marked(s, r) => Unpublished
  BY <1>1, <1>2 DEF Marked
<1>4. \A p \in Procs, r \in MaybeRoute : MarkFailed(p, r) => Unpublished
  BY <1>1, <1>3 DEF MarkFailed, TypeInv, TypeOK
<1>5. QED
  BY <1>1, <1>2, <1>3, <1>4

(* The lease: an owner that releases it withdraws its own record with it,   *)
(* and one that is no longer the owner is suspect.                          *)
LEMMA LeaseReady ==
    ASSUME TypeInv, OwnerInv, ReadyInv, NEW p \in Procs, Lease(p)
    PROVE  ReadyInv'
<1>1. UNCHANGED <<mode, slot>> /\ telegram'.webhook = telegram.webhook /\ suspect \subseteq suspect'
  BY DEF Lease, Acquire, AcquireUnheard, Renew, LoseLease, LoseValkey, Stop, Release, ReleaseFails,
         config, history
<1>2. CASE Renew(p) \/ Acquire(p) \/ AcquireUnheard(p) \/ LoseLease(p) \/ LoseValkey(p) \/ Stop(p)
  <2>1. status' = status
    BY <1>2 DEF Acquire, AcquireUnheard, Renew, LoseLease, LoseValkey, Stop
  <2>2. Steady
    <3>1. CASE Renew(p)
      BY <3>1 DEF Renew, Steady, Holding, Running
    <3>2. CASE End(p, TRUE) \/ End(p, FALSE)
      BY <3>2, OutsideSteady DEF End
    <3>3. CASE proc[p].pc = "idle" /\ \E pc : Goto(p, pc)
      BY <3>3, GotoSteady DEF Holding, Running, Inside
    <3>4. QED
      BY <1>2, <3>1, <3>2, <3>3 DEF Acquire, AcquireUnheard, LoseLease, LoseValkey, Stop, Awake
  <2>3. QED
    BY <1>1, <2>1, <2>2, StatusUnpublished, ReadyKept DEF Steady, Unpublished
<1>3. CASE ReleaseFails(p)
  <2>1. status' = status /\ Steady
    BY <1>3, GotoSteady DEF ReleaseFails
  <2>2. QED
    BY <1>1, <2>1, StatusUnpublished, ReadyKept DEF Steady, Unpublished
<1>4. CASE Release(p) /\ ~Owns(p)
  <2>1. p \in suspect'
    BY <1>1, <1>4 DEF Release, Awake, Holding, OwnerInv, OwnerUnlessStalled
  <2>2. status' = status /\ Steady
    BY <1>4, <2>1, GotoSteady DEF Release, Released
  <2>3. QED
    BY <1>1, <2>2, StatusUnpublished, ReadyKept DEF Steady, Unpublished
<1>5. CASE Release(p) /\ Owns(p)
  <2>1. status' = [status EXCEPT ![slot[p]] = NotReady] /\ telegram' = telegram /\ suspect' = suspect
    BY <1>5 DEF Release, Released, history
  <2>2. /\ \A q \in Procs \ {p} : proc'[q] = proc[q]
        /\ \A q \in Procs : proc'[q].registered = proc[q].registered
    <3>1. proc[p] \in Runtimes /\ Goto(p, AfterRelease(p))
      BY <1>5 DEF Release, TypeInv, TypeOK
    <3>2. proc'[p] = [proc[p] EXCEPT !.pc = AfterRelease(p)]
          /\ \A q \in Procs \ {p} : proc'[q] = proc[q]
      BY <3>1 DEF Goto, TypeInv, TypeOK
    <3>3. QED
      BY <3>1, <3>2 DEF Runtimes
  <2>3. ASSUME NEW q \in Procs PROVE WebhookOf(q)'
    BY <1>1, <2>1, <2>2 DEF ReadyInv, WebhookOf, Matches
  <2>4. ASSUME NEW s \in Slots PROVE RecordOf(s)'
    <3>1. status \in [Slots -> Records] /\ slot[p] \in Slots
      BY DEF TypeInv, TypeOK
    <3>2. CASE s = slot[p]
      BY <2>1, <3>1, <3>2 DEF RecordOf, ReadyRoute, NotReady
    <3>3. CASE s # slot[p]
      <4>1. status'[s] = status[s]
        BY <2>1, <3>1, <3>3
      <4>2. RecordOf(s)
        BY DEF ReadyInv
      <4>3. status[s].route # NoRoute => status[s].by # p
        BY <3>3, <4>2 DEF RecordOf, ReadyRoute
      <4>4. QED
        BY <1>1, <2>1, <2>2, <4>1, <4>2, <4>3 DEF RecordOf, ReadyRoute, Holding, Running, Matches
    <3>4. QED
      BY <3>2, <3>3
  <2>5. QED
    BY <2>3, <2>4 DEF ReadyInv
<1>6. QED
  BY <1>2, <1>3, <1>4, <1>5 DEF Lease

(* Setting the webhook concerns nobody else while nobody is suspect. *)
LEMMA RegisterReady ==
    ASSUME TypeInv, OwnerInv, AllLocal, ReadyInv, NEW p \in Procs, NEW r \in Routes,
           Connect(p, r) \/ TryNext(p, r)
    PROVE  ReadyInv'
<1>1. /\ UNCHANGED <<mode, slot>> /\ suspect' = suspect /\ Holding(p)
      /\ telegram' \in {telegram, Registered(p)}
      /\ \A q \in Procs \ {p} : proc'[q] = proc[q]
  BY DEF Connect, TryNext, config, history, Awake, Holding, Running, Inside, TypeInv, TypeOK
<1>2. Registered(p).webhook = (mode[p] = "webhook")
  BY DEF Registered, TypeInv, TypeOK
<1>3. \A q \in Procs : Holding(q) => Holding(q)'
  <2>1. \/ proc' = proc
        \/ proc'[p].pc \in {"poll", "owned"}
    <3>1. AfterConnect(p, r).pc \in {"poll", "owned"}
      BY DEF AfterConnect, TypeInv, TypeOK, Runtimes
    <3>2. QED
      BY <3>1 DEF Connect, TryNext, TypeInv, TypeOK
  <2>2. QED
    BY <1>1, <2>1 DEF Holding, Running, Inside
<1>4. Unpublished
  BY StatusUnpublished DEF Connect, TryNext, MaybeRoute
<1>5. ASSUME NEW q \in Procs, proc[q].registered # NoRoute, suspect = {}
      PROVE  telegram'.webhook = (mode[q] = "webhook")
  <2>1. Holding(q) /\ WebhookOf(q)
    BY <1>5 DEF AllLocal, Local, Holding, Running, ReadyInv
  <2>2. q = p
    BY <1>1, <1>5, <2>1, OneHolder
  <2>3. QED
    BY <1>1, <1>2, <1>5, <2>1, <2>2 DEF WebhookOf, Matches
<1>6. ASSUME NEW q \in Procs PROVE WebhookOf(q)'
  <2> SUFFICES ASSUME proc'[q].registered # NoRoute, suspect = {}
               PROVE  telegram'.webhook = (mode[q] = "webhook")
    BY <1>1 DEF WebhookOf, Matches
  <2>1. CASE proc[q].registered # NoRoute
    BY <1>5, <2>1
  <2>2. CASE proc[q].registered = NoRoute
    <3>1. q = p /\ Connect(p, r)
      BY <1>1, <2>2 DEF TryNext
    <3>2. telegram' = Registered(p)
      BY <2>2, <3>1, ConstantAssumption DEF Connect
    <3>3. QED
      BY <1>2, <3>1, <3>2
  <2>3. QED
    BY <2>1, <2>2
<1>7. ASSUME NEW s \in Slots PROVE RecordOf(s)'
  <2> DEFINE c == status'[s].by
  <2> SUFFICES ASSUME status'[s].route # NoRoute
               PROVE  /\ c \in Procs
                      /\ slot'[c] = s
                      /\ proc'[c].pc \in Inside \/ proc'[c].pc = "release" \/ c \in suspect'
                      /\ suspect' = {} => telegram'.webhook = (mode'[c] = "webhook")
    BY DEF RecordOf, ReadyRoute, Holding, Running, Matches
  <2> DEFINE b == status[s].by
  <2>1. ReadyRoute(s) # NoRoute /\ c = b /\ RecordOf(s)
    BY <1>4 DEF Unpublished, ReadyInv, ReadyRoute
  <2>2. /\ b \in Procs /\ slot[b] = s
        /\ Holding(b) \/ b \in suspect
        /\ suspect = {} => Matches(b)
    BY <2>1 DEF RecordOf
  <2>3. ASSUME suspect = {} PROVE telegram'.webhook = (mode[b] = "webhook")
    <3>1. b = p
      BY <1>1, <2>2, <2>3, OneHolder
    <3>2. QED
      BY <1>1, <1>2, <2>2, <2>3, <3>1 DEF Matches
  <2>4. Holding(b) => proc'[b].pc \in Inside \/ proc'[b].pc = "release"
    BY <1>3, <2>2 DEF Holding, Running
  <2>5. proc'[b].pc \in Inside \/ proc'[b].pc = "release" \/ b \in suspect'
    BY <1>1, <2>2, <2>4
  <2>6. suspect' = {} => telegram'.webhook = (mode'[b] = "webhook")
    BY <1>1, <2>3
  <2>7. slot'[b] = s
    BY <1>1, <2>2
  <2> HIDE DEF b, c
  <2>8. QED
    BY <2>1, <2>2, <2>5, <2>6, <2>7
<1>8. QED
  BY <1>6, <1>7 DEF ReadyInv

(* Of the other actions of the loop none sets the webhook or publishes.     *)
LEMMA RouteReady ==
    ASSUME TypeInv, OwnerInv, AllLocal, ReadyInv, NEW p \in Procs, Route(p)
    PROVE  ReadyInv'
<1>1. CASE \E r \in Routes : Connect(p, r) \/ TryNext(p, r)
  BY <1>1, RegisterReady
<1>2. CASE \/ Check(p) \/ ConnectFails(p) \/ Refuse(p) \/ Backup(p)
           \/ Recover(p) \/ Withdraw(p) \/ Announce(p) \/ MonitorFails(p)
  <2>1. UNCHANGED <<mode, slot>> /\ telegram' = telegram /\ suspect' = suspect
    BY <1>2 DEF Check, ConnectFails, Refuse, Backup, Recover, Withdraw, Announce, MonitorFails,
                config, history
  <2>2. proc[p] \in Runtimes /\ slot[p] \in Slots
    BY DEF TypeInv, TypeOK
  <2>3. Unpublished
    <3>1. CASE Check(p) \/ ConnectFails(p) \/ Refuse(p) \/ Recover(p) \/ MonitorFails(p)
      BY <3>1, StatusUnpublished DEF Check, ConnectFails, Refuse, Recover, MonitorFails
    <3>2. CASE Backup(p)
      BY <3>2, StatusUnpublished DEF Backup, MaybeRoute
    <3>3. CASE Withdraw(p)
      BY <2>2, <3>3, StatusUnpublished DEF Withdraw, Runtimes
    <3>4. CASE Announce(p)
      BY <2>2, <3>4, StatusUnpublished DEF Announce
    <3>5. QED
      BY <1>2, <3>1, <3>2, <3>3, <3>4
  <2>4. Steady
    <3>1. CASE \E pc \in Inside : Goto(p, pc)
      BY <3>1, GotoSteady
    <3>2. CASE End(p, FALSE)
      BY <3>2, OutsideSteady DEF End
    <3>3. CASE proc' = [proc EXCEPT ![p] = Forgotten(p, "announce")]
      <4> DEFINE new == Forgotten(p, "announce")
      <4>1. new.pc = "announce" /\ new.registered = NoRoute
        BY <2>2 DEF Forgotten, Runtimes
      <4>2. Moves(p, new)
        BY <3>3 DEF Moves
      <4> HIDE DEF new
      <4>3. QED
        BY <4>1, <4>2, MoveSteady DEF Inside
    <3>4. CASE Check(p)
      <4>1. CASE proc' = [proc EXCEPT ![p].pc = "connect", ![p].active = NoRoute]
        <5> DEFINE new == [proc[p] EXCEPT !.pc = "connect", !.active = NoRoute]
        <5>1. new.pc = "connect" /\ new.registered = proc[p].registered
          BY <2>2 DEF Runtimes
        <5>2. Moves(p, new)
          BY <4>1 DEF Moves, TypeInv, TypeOK
        <5> HIDE DEF new
        <5>3. QED
          BY <5>1, <5>2, MoveSteady DEF Inside
      <4>2. QED
        BY <3>1, <3>4, <4>1 DEF Check, Inside
    <3>5. CASE Recover(p)
      BY <3>1, <3>3, <3>5 DEF Recover, Goto, Inside, TypeInv, TypeOK
    <3>6. CASE ConnectFails(p) \/ Refuse(p) \/ Backup(p) \/ Withdraw(p) \/ Announce(p)
               \/ MonitorFails(p)
      BY <3>1, <3>2, <3>3, <3>6 DEF ConnectFails, Refuse, Backup, Withdraw, Announce, MonitorFails,
         Inside
    <3>7. QED
      BY <1>2, <3>4, <3>5, <3>6
  <2>5. QED
    BY <2>1, <2>3, <2>4, ReadyKept DEF Steady, Unpublished
<1>3. QED
  BY <1>1, <1>2 DEF Route

(* A process publishes what it has registered itself.                       *)
LEMMA PublishReady ==
    ASSUME TypeInv, AllLocal, ReadyInv, NEW p \in Procs, Publish(p)
    PROVE  ReadyInv'
<1>1. /\ UNCHANGED <<mode, slot, suspect, telegram>> /\ proc[p].pc = "publish"
      /\ status' = [status EXCEPT ![slot[p]] = Ready(p, proc[p].active)]
      /\ Goto(p, IF mode[p] = "polling" THEN "dispatch" ELSE "backup")
  BY DEF Publish, Awake, config, history
<1>2. /\ proc[p] \in Runtimes /\ slot[p] \in Slots
      /\ status \in [Slots -> Records]
  BY DEF TypeInv, TypeOK
<1>3. Steady
  BY <1>1, GotoSteady DEF Inside
<1>4. Holding(p) /\ proc[p].registered # NoRoute
  BY <1>1 DEF AllLocal, Local, Holding, Running, Inside
<1>5. ASSUME NEW q \in Procs PROVE WebhookOf(q)'
  BY <1>1, <1>3 DEF Steady, ReadyInv, WebhookOf, Matches
<1>6. ASSUME NEW q \in Procs, Holding(q)
      PROVE  proc'[q].pc \in Inside \/ proc'[q].pc = "release" \/ q \in suspect'
  BY <1>3, <1>6 DEF Steady, Holding, Running
<1>7. ASSUME NEW s \in Slots PROVE RecordOf(s)'
  <2> DEFINE c == status'[s].by
  <2> SUFFICES ASSUME status'[s].route # NoRoute
               PROVE  /\ c \in Procs
                      /\ slot'[c] = s
                      /\ proc'[c].pc \in Inside \/ proc'[c].pc = "release" \/ c \in suspect'
                      /\ suspect' = {} => telegram'.webhook = (mode'[c] = "webhook")
    BY DEF RecordOf, ReadyRoute, Holding, Running, Matches
  <2>1. CASE s = slot[p]
    <3>1. c = p
      BY <1>1, <1>2, <2>1 DEF Ready
    <3>2. suspect = {} => telegram.webhook = (mode[p] = "webhook")
      BY <1>4 DEF ReadyInv, WebhookOf, Matches
    <3> HIDE DEF c
    <3>3. QED
      BY <1>1, <1>4, <1>6, <2>1, <3>1, <3>2
  <2>2. CASE s # slot[p]
    <3>1. c = status[s].by /\ ReadyRoute(s) # NoRoute /\ RecordOf(s)
      BY <1>1, <1>2, <2>2 DEF ReadyRoute, ReadyInv
    <3> HIDE DEF c
    <3>2. /\ c \in Procs /\ slot[c] = s
          /\ Holding(c) \/ c \in suspect
          /\ suspect = {} => telegram.webhook = (mode[c] = "webhook")
      BY <3>1 DEF RecordOf, Matches
    <3>3. QED
      BY <1>1, <1>6, <3>2
  <2>3. QED
    BY <2>1, <2>2
<1>8. QED
  BY <1>5, <1>7 DEF ReadyInv

(* The updates: apart from publishing, answers of Telegram and handlers      *)
(* leave the records to stand or withdraw them.                             *)
LEMMA ReceiveReady ==
    ASSUME TypeInv, OwnerInv, AllLocal, ReadyInv, NEW p \in Procs, Receive(p)
    PROVE  ReadyInv'
<1>1. CASE Publish(p)
  BY <1>1, PublishReady
<1>2. CASE \/ Poll(p) \/ PollFails(p) \/ Owned(p) \/ Begin(p) \/ EndBatch(p) \/ Handled(p)
           \/ Reply(p) \/ ReplyBlocked(p) \/ ReplyFails(p) \/ ReplyLimited(p)
  <2>1. /\ UNCHANGED <<mode, slot>> /\ telegram'.webhook = telegram.webhook /\ suspect' = suspect
    BY <1>2 DEF Poll, PollFails, Owned, Begin, EndBatch, Handled, Reply, ReplyBlocked, ReplyFails,
                ReplyLimited, Confirm, Settle, config, history, TypeInv, TypeOK
  <2>2. proc[p] \in Runtimes
    BY DEF TypeInv, TypeOK
  <2>3. Unpublished
    <3>1. CASE ReplyFails(p)
      BY <2>2, <3>1, StatusUnpublished DEF ReplyFails, Runtimes
    <3>2. CASE ~ReplyFails(p)
      BY <1>2, <3>2, StatusUnpublished DEF Poll, PollFails, Owned, Begin, EndBatch, Handled, Reply,
         ReplyBlocked, ReplyLimited
    <3>3. QED
      BY <3>1, <3>2
  <2>4. Steady
    <3>1. CASE \E pc \in Inside : Goto(p, pc)
      BY <3>1, GotoSteady
    <3>2. ASSUME NEW new, Moves(p, new), new.pc \in Inside, new.registered = proc[p].registered
          PROVE  Steady
      BY <3>2, MoveSteady
    <3>3. CASE Poll(p)
      <4>1. PICK last \in Confirmed(p)..MaxUpdates :
               proc' = [proc EXCEPT ![p].pc = "owned", ![p].next = Confirmed(p) + 1, ![p].last = last]
        BY <3>3 DEF Poll
      <4> DEFINE new == [proc[p] EXCEPT !.pc = "owned", !.next = Confirmed(p) + 1, !.last = last]
      <4>2. new.pc = "owned" /\ new.registered = proc[p].registered
        BY <2>2 DEF Runtimes
      <4>3. Moves(p, new)
        BY <4>1 DEF Moves, TypeInv, TypeOK
      <4> HIDE DEF new
      <4>4. QED
        BY <3>2, <4>2, <4>3 DEF Inside
    <3>4. CASE Begin(p)
      <4> DEFINE new == [proc[p] EXCEPT !.pc = "handle", !.taken = @ \cup {proc[p].next}]
      <4>1. new.pc = "handle" /\ new.registered = proc[p].registered
        BY <2>2 DEF Runtimes
      <4>2. Moves(p, new)
        BY <3>4 DEF Begin, Moves, TypeInv, TypeOK
      <4> HIDE DEF new
      <4>3. QED
        BY <3>2, <4>1, <4>2 DEF Inside
    <3>5. CASE EndBatch(p)
      <4> DEFINE new == [proc[p] EXCEPT !.pc = "backup", !.next = 1, !.last = 0]
      <4>1. new.pc = "backup" /\ new.registered = proc[p].registered
        BY <2>2 DEF Runtimes
      <4>2. Moves(p, new)
        BY <3>5 DEF EndBatch, Moves, TypeInv, TypeOK
      <4> HIDE DEF new
      <4>3. QED
        BY <3>2, <4>1, <4>2 DEF Inside
    <3>6. CASE Reply(p)
      <4> DEFINE new == [proc[p] EXCEPT !.pc = "reply", !.via = ReadyRoute(slot[p])]
      <4>1. new.pc = "reply" /\ new.registered = proc[p].registered
        BY <2>2 DEF Runtimes
      <4>2. Moves(p, new)
        BY <3>6 DEF Reply, Moves, TypeInv, TypeOK
      <4> HIDE DEF new
      <4>3. QED
        BY <3>2, <4>1, <4>2 DEF Inside
    <3>7. ASSUME NEW pc \in {"dispatch", "failed", "limited"}, Settle(p, pc) PROVE Steady
      <4> DEFINE new == Settled(p, pc)
                 after == IF pc = "dispatch" THEN proc[p].next + 1 ELSE 1
                 end == IF pc = "dispatch" THEN proc[p].last ELSE 0
      <4>1. new = [proc[p] EXCEPT !.pc = pc, !.offset = Offset(p), !.via = NoRoute,
                                  !.next = after, !.last = end]
        BY DEF Settled
      <4>2. Moves(p, new)
        BY <3>7 DEF Settle, Moves
      <4> HIDE DEF new, after, end
      <4>3. new.pc = pc /\ new.registered = proc[p].registered
        BY <2>2, <4>1 DEF Runtimes
      <4>4. QED
        BY <3>2, <4>2, <4>3 DEF Inside
    <3>8. CASE Handled(p) \/ ReplyBlocked(p) \/ ReplyFails(p) \/ ReplyLimited(p)
      BY <3>7, <3>8 DEF Handled, ReplyBlocked, ReplyFails, ReplyLimited
    <3>9. CASE PollFails(p) \/ Owned(p)
      BY <3>1, <3>9 DEF PollFails, Owned, Inside
    <3>10. QED
      BY <1>2, <3>3, <3>4, <3>5, <3>6, <3>8, <3>9
  <2>5. QED
    BY <2>1, <2>3, <2>4, ReadyKept DEF Steady, Unpublished
<1>3. QED
  BY <1>1, <1>2 DEF Receive

(* Every step keeps it: a crash and a stall make suspect, a record that      *)
(* ages disappears.                                                         *)
LEMMA NextReady == TypeInv /\ OwnerInv /\ AllLocal /\ ReadyInv /\ [Next]_vars => ReadyInv'
<1> SUFFICES ASSUME TypeInv, OwnerInv, AllLocal, ReadyInv, [Next]_vars PROVE ReadyInv'
  OBVIOUS
<1>1. ASSUME NEW p \in Procs, Crash(p) PROVE ReadyInv'
  <2>1. /\ UNCHANGED <<status, mode, slot>> /\ telegram' = telegram
        /\ suspect' = suspect \cup {p}
        /\ proc' = [proc EXCEPT ![p] = Outside("dead", FALSE)]
    BY <1>1 DEF Crash, config
  <2>2. Steady
    BY <2>1, OutsideSteady
  <2>3. QED
    BY <2>1, <2>2, StatusUnpublished, ReadyKept DEF Steady, Unpublished
<1>2. ASSUME UNCHANGED <<proc, mode, slot, telegram>>, suspect \subseteq suspect', Unpublished
      PROVE ReadyInv'
  <2>1. Steady
    BY <1>2 DEF Steady, Holding, Running
  <2>2. QED
    BY <1>2, <2>1, ReadyKept DEF Steady, Unpublished
<1>3. ASSUME NEW p \in Procs, Stall(p) \/ Resume(p) PROVE ReadyInv'
  BY <1>2, <1>3, StatusUnpublished DEF Stall, Resume, config, history
<1>4. ASSUME NEW s \in Slots, WorkerFails(s) PROVE ReadyInv'
  <2>1. ReadyRoute(s) \in MaybeRoute
    BY DEF ReadyRoute, Records, TypeInv, TypeOK
  <2>2. Unpublished
    BY <1>4, <2>1, StatusUnpublished DEF WorkerFails
  <2>3. QED
    BY <1>2, <1>4, <2>2 DEF WorkerFails, config, history
<1>5. CASE Tick
  <2>1. ASSUME NEW s \in Slots, status'[s].route # NoRoute
        PROVE  status[s].route # NoRoute /\ status'[s].by = status[s].by
    <3>1. status'[s] = Aged(status[s], NotReady) /\ status[s] \in Records
      BY <1>5 DEF Tick, TypeInv, TypeOK
    <3>2. QED
      BY <2>1, <3>1 DEF Aged, NotReady, Records
  <2>2. QED
    BY <1>2, <1>5, <2>1 DEF Unpublished, Tick, config, history
<1>6. CASE UNCHANGED vars
  BY <1>2, <1>6, StatusUnpublished DEF vars, config, history
<1>7. QED
  BY <1>1, <1>3, <1>4, <1>5, <1>6, LeaseReady, RouteReady, ReceiveReady DEF Next

(* Readiness names a process of the slot that holds, or that was stalled,   *)
(* killed or unable to withdraw it; and its webhook setting is in force     *)
(* unless a stalled process woke up to change it.                           *)
THEOREM ReadyHonestCorrect == Spec => []ReadyHonest
<1>1. Init => ReadyInv
  BY DEF Init, Outside, NotReady, ReadyInv, WebhookOf, RecordOf, ReadyRoute
<1>2. ReadyInv => ReadyHonest
  BY DEF ReadyInv, RecordOf, ReadyHonest, Matches
<1>3. QED
  BY AlwaysLocal, NextReady, <1>1, <1>2, PTL DEF Spec
=============================================================================
