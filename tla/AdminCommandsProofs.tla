------------------------ MODULE AdminCommandsProofs -------------------------
(***************************************************************************)
(* The slot estimate for every clock, every time and every average, and    *)
(* what follows for set-enable-slot-by-time; then, for every folder and    *)
(* every list of claim statuses, that the setters and clawback set what    *)
(* they were asked and that close-claim-status passes over nothing and     *)
(* gets as far as a claim status of another admin.                         *)
(***************************************************************************)
EXTENDS AdminCommands, ArithmeticLemmas, TLAPS

\* get_average_slot_time never returns anything but half to twice the default,
\* whatever the samples are: in particular the estimate never divides by zero.
THEOREM AverageIsPlausible ==
    ASSUME NEW samples
    PROVE  /\ AverageSlotTime(samples) \in Nat
           /\ AverageSlotTime(samples) > 0
           /\ AverageSlotTime(samples)
                \in (DEFAULT_MS_PER_SLOT \div 2)..(2 * DEFAULT_MS_PER_SLOT)
  <1> DEFINE half == DEFAULT_MS_PER_SLOT \div 2
             range == half..(DEFAULT_MS_PER_SLOT * 2)
  <1>1. half \in Nat /\ half > 0 /\ half <= DEFAULT_MS_PER_SLOT
    BY SlotTimeAssumption
  <1>2. AverageSlotTime(samples) \in range
    <2> HIDE DEF half
    <2>1. DEFAULT_MS_PER_SLOT \in range
      BY <1>1, SlotTimeAssumption
    <2> QED
      BY <2>1 DEF AverageSlotTime, half
  <1>3. range = half..(2 * DEFAULT_MS_PER_SLOT)
    BY SlotTimeAssumption
  <1> QED
    BY <1>1, <1>2, <1>3, SlotTimeAssumption

\* SlotFor errs by less than one average slot, and on the side that
\* NearestSlot says, for every clock and every time.
THEOREM EstimateIsNear ==
    ASSUME NEW time \in Nat, NEW ts \in Nat, NEW s \in Nat,
           NEW average \in Nat, average > 0
    PROVE  NearestSlot(SlotFor(time, ts, s, average), time, ts, s, average)
  <1>1. CASE time > ts
    <2> DEFINE ms == (time - ts) * 1000
               n == ms \div average
    <2>1. ms \in Nat /\ (time - ts) * 1000 = ms
      BY <1>1
    <2>2. n \in Nat /\ average * n <= ms /\ ms < average * (n + 1)
      BY <2>1, QuotientBounds
    <2>3. SlotFor(time, ts, s, average) = s + n
      BY <1>1 DEF SlotFor
    <2> HIDE DEF ms, n
    <2>4. (SlotFor(time, ts, s, average) - s) * average = average * n
      BY <2>2, <2>3
    <2>5. average * (n + 1) = average * n + average
      BY <2>2
    <2>6. average * n \in Nat
      BY <2>2
    <2>7. average * n - ms <= 0 /\ (average * n - ms) + average > 0
      BY <2>1, <2>2, <2>5, <2>6
    <2>8. /\ (SlotFor(time, ts, s, average) - s) * average - ms <= 0
          /\ ((SlotFor(time, ts, s, average) - s) * average - ms) + average > 0
      BY <2>4, <2>7
    <2> QED
      BY <1>1, <2>1, <2>8 DEF NearestSlot
  <1>2. CASE ~(time > ts)
    <2> DEFINE ms == (ts - time) * 1000
               n == ms \div average
    <2>1. ms \in Nat /\ (time - ts) * 1000 = -ms
      BY <1>2
    <2>2. n \in Nat /\ average * n <= ms /\ ms < average * (n + 1)
      BY <2>1, QuotientBounds
    <2>3. SlotFor(time, ts, s, average) = s - n
      BY <1>2 DEF SlotFor
    <2> HIDE DEF ms, n
    <2>4. (SlotFor(time, ts, s, average) - s) * average = -(average * n)
      BY <2>2, <2>3
    <2>5. average * (n + 1) = average * n + average
      BY <2>2
    <2>6. average * n \in Nat
      BY <2>2
    <2>7. -(average * n) - (-ms) >= 0 /\ -(average * n) - (-ms) < average
      BY <2>1, <2>2, <2>5, <2>6
    <2>8. /\ (SlotFor(time, ts, s, average) - s) * average - (-ms) >= 0
          /\ (SlotFor(time, ts, s, average) - s) * average - (-ms) < average
      BY <2>4, <2>7
    <2> QED
      BY <1>2, <2>1, <2>8 DEF NearestSlot
  <1> QED
    BY <1>1, <1>2

\* A later time never gets an earlier slot, also across the present moment.
THEOREM EstimateIsMonotone ==
    ASSUME NEW time \in Nat, NEW later \in Nat, time <= later,
           NEW ts \in Nat, NEW s \in Nat, NEW average \in Nat, average > 0
    PROVE  SlotFor(time, ts, s, average) <= SlotFor(later, ts, s, average)
  <1>1. CASE time > ts
    <2>1. ((time - ts) * 1000) \div average <= ((later - ts) * 1000) \div average
      <3>1. /\ (time - ts) * 1000 \in Nat
            /\ (later - ts) * 1000 \in Nat
            /\ (time - ts) * 1000 <= (later - ts) * 1000
        BY <1>1
      <3> QED
        BY <3>1, QuotientMonotone
    <2>2. /\ ((time - ts) * 1000) \div average \in Int
          /\ ((later - ts) * 1000) \div average \in Int
      BY <1>1
    <2> QED
      BY <1>1, <2>1, <2>2 DEF SlotFor
  <1>2. CASE ~(time > ts) /\ later > ts
    <2>1. /\ ((ts - time) * 1000) \div average \in Nat
          /\ ((later - ts) * 1000) \div average \in Nat
      BY <1>2, QuotientBounds
    <2> QED
      BY <1>2, <2>1 DEF SlotFor
  <1>3. CASE ~(time > ts) /\ ~(later > ts)
    <2>1. ((ts - later) * 1000) \div average <= ((ts - time) * 1000) \div average
      <3>1. /\ (ts - later) * 1000 \in Nat
            /\ (ts - time) * 1000 \in Nat
            /\ (ts - later) * 1000 <= (ts - time) * 1000
        BY <1>3
      <3> QED
        BY <3>1, QuotientMonotone
    <2>2. /\ ((ts - later) * 1000) \div average \in Int
          /\ ((ts - time) * 1000) \div average \in Int
      BY <1>3
    <2> QED
      BY <1>3, <2>1, <2>2 DEF SlotFor
  <1> QED
    BY <1>1, <1>2, <1>3

-----------------------------------------------------------------------------
(* What a running command remembers. *)

Remembered == {"pc", "command", "value", "estimate"}

\* The inductive invariant behind SlotMeetsTime: the clock shows natural
\* numbers, and a running command has the fields that SlotMeetsTime reads.
EstimateInv ==
    /\ now \in Nat
    /\ slot \in Nat
    /\ cli.pc # "idle" => Remembered \subseteq DOMAIN cli
    /\ SlotMeetsTime

\* A step of the command line ends the command or keeps what it was asked.
CommandKept ==
    \/ cli' = Idle
    \/ /\ cli'.pc # "idle"
       /\ DOMAIN cli' = DOMAIN cli
       /\ cli'.command = cli.command
       /\ cli'.value = cli.value
       /\ cli'.estimate = cli.estimate

\* Whatever a way of sending returned.
LEMMA ReturnedKeeps ==
    ASSUME Remembered \subseteq DOMAIN cli,
           NEW ok \in BOOLEAN, NEW expired \in BOOLEAN,
           NEW delivered \in BOOLEAN,
           Returned(ok, expired, delivered)
    PROVE  CommandKept
  <1>1. CASE Again(ok, expired)
    BY <1>1 DEF Again, CommandKept, Remembered
  <1>2. CASE Unwrapped(ok)
    BY <1>2 DEF Unwrapped, End, CommandKept, Remembered
  <1>3. CASE Printed
    BY <1>3 DEF Printed, CommandKept, Remembered
  <1>4. CASE BatchDone(ok)
    <2> DEFINE after == [cli EXCEPT !.pc = "next",
                    !.batch = IF ok THEN <<>> ELSE @,
                    !.accepted = IF ok THEN @ \cup ToSet(cli.batch) ELSE @]
    <2>1. cli' = after \/ cli' = Idle
      BY <1>4 DEF BatchDone, End
    <2> QED
      BY <2>1 DEF CommandKept, Remembered
  <1> QED
    BY <1>1, <1>2, <1>3, <1>4 DEF Returned

\* One turn of a loop.
LEMMA InspectKeeps ==
    ASSUME Remembered \subseteq DOMAIN cli, Inspect
    PROVE  CommandKept
  <1>1. ASSUME NEW way, NEW version, NEW value, way # "idle",
               Sign(way, version, value)
        PROVE  CommandKept
    BY <1>1 DEF Sign, CommandKept, Remembered
  <1>2. ASSUME NextVersion PROVE CommandKept
    BY <1>2 DEF NextVersion, CommandKept, Remembered
  <1>3. ASSUME Panic PROVE CommandKept
    BY <1>3 DEF Panic, End, CommandKept
  <1>4. ASSUME NEW v, NEW field, NEW way, way # "idle", SetField(v, field, way)
        PROVE  CommandKept
    BY <1>1, <1>2, <1>3, <1>4 DEF SetField
  <1> DEFINE v == Head(cli.queue)
  <1>5. CASE SetAdminOf(v)
    BY <1>4, <1>5 DEF SetAdminOf
  <1>6. CASE SetClawbackReceiverOf(v)
    BY <1>4, <1>6 DEF SetClawbackReceiverOf
  <1>7. CASE SetClawbackStartTsOf(v)
    BY <1>4, <1>7 DEF SetClawbackStartTsOf
  <1>8. CASE SetEnableSlotOf(v)
    BY <1>4, <1>8 DEF SetEnableSlotOf
  <1>9. CASE SetEnableSlotByTimeOf(v)
    BY <1>1, <1>9 DEF SetEnableSlotByTimeOf
  <1>10. CASE ClawbackOf(v)
    BY <1>1, <1>2, <1>3, <1>10 DEF ClawbackOf
  <1>11. CASE CloseDistributorOf(v)
    BY <1>1, <1>2, <1>11 DEF CloseDistributorOf
  <1>12. CASE TakeClaimStatus(v)
    <2> DEFINE batch == Append(cli.batch, v)
    <2>1. \/ cli' = [cli EXCEPT !.queue = Tail(@), !.batch = batch]
          \/ cli' = [cli EXCEPT !.pc = "submit", !.queue = Tail(@),
                                !.batch = batch]
      BY <1>12 DEF TakeClaimStatus
    <2>2. cli.pc = "next"
      BY DEF Inspect
    <2> QED
      BY <2>1, <2>2 DEF CommandKept, Remembered
  <1> QED
    BY <1>2, <1>3, <1>5, <1>6, <1>7, <1>8, <1>9, <1>10, <1>11, <1>12 DEF Inspect

\* The steps of the three ways of sending.
LEMMA SendingKeeps ==
    ASSUME Remembered \subseteq DOMAIN cli,
           Finish \/ Submit \/ SendAndConfirm \/ Spin
             \/ Simulate \/ SendLoop \/ Confirm
    PROVE  CommandKept
  <1>1. CASE Finish
    BY <1>1 DEF Finish, Sign, End, CommandKept, Remembered
  <1>2. CASE Submit
    BY <1>2, ReturnedKeeps DEF Submit
  <1>3. CASE SendAndConfirm
    <2>1. CASE cli' = [cli EXCEPT !.pc = "spin"]
      BY <2>1 DEF CommandKept, Remembered
    <2> QED
      BY <1>3, <2>1, ReturnedKeeps DEF SendAndConfirm
  <1>4. CASE Spin
    BY <1>4, ReturnedKeeps DEF Spin
  <1>5. CASE Simulate
    <2>1. CASE cli' = [cli EXCEPT !.pc = "loop"]
      BY <2>1 DEF CommandKept, Remembered
    <2> QED
      BY <1>5, <2>1, ReturnedKeeps DEF Simulate
  <1>6. CASE SendLoop
    <2>1. CASE cli' = [cli EXCEPT !.pc = "confirm"]
      BY <2>1 DEF CommandKept, Remembered
    <2> QED
      BY <1>6, <2>1, ReturnedKeeps DEF SendLoop
  <1>7. CASE Confirm
    <2>1. CASE cli' = [cli EXCEPT !.pc = "loop"]
      BY <2>1 DEF CommandKept, Remembered
    <2> QED
      BY <1>7, <2>1, ReturnedKeeps DEF Confirm
  <1> QED
    BY <1>1, <1>2, <1>3, <1>4, <1>5, <1>6, <1>7

\* A command starts with an estimate that fits the clock.
LEMMA BeginEstimates ==
    ASSUME EstimateInv, Begin
    PROVE  EstimateInv'
  <1>1. PICK keypair \in scenario.keypairs :
          \/ \E bs58 \in BOOLEAN : StartSetter(keypair, bs58)
          \/ StartSetEnableSlotByTime(keypair)
          \/ Start("clawback", keypair, Absent, FALSE, scenario.folder, Absent)
          \/ \E trees \in Trees :
                Start("close_distributor", keypair, Absent, FALSE, trees, Absent)
          \/ StartCloseClaimStatus(keypair)
    BY DEF Begin
  <1>2. ASSUME NEW command, NEW value, NEW bs58, NEW trees,
               command # "set_enable_slot_by_time",
               Start(command, keypair, value, bs58, trees, Absent)
        PROVE  EstimateInv'
    BY <1>2 DEF Start, EstimateInv, SlotMeetsTime, Remembered, clock
  <1>3. CASE \E bs58 \in BOOLEAN : StartSetter(keypair, bs58)
    BY <1>2, <1>3 DEF StartSetter
  <1>4. CASE StartSetEnableSlotByTime(keypair)
    <2>1. PICK time \in EnableTimes, samples \in SampleLists, trees \in Trees :
            Start("set_enable_slot_by_time", keypair,
                  SlotFor(time, now, slot, AverageSlotTime(samples)), FALSE, trees,
                  [time |-> time, now |-> now, slot |-> slot,
                   average |-> AverageSlotTime(samples)])
      BY <1>4 DEF StartSetEnableSlotByTime
    <2> DEFINE average == AverageSlotTime(samples)
               chosen == SlotFor(time, now, slot, average)
    <2>2. time \in Nat /\ now \in Nat /\ slot \in Nat
      BY AdminAssumption DEF EstimateInv
    <2>3. /\ average \in Nat /\ average > 0
          /\ average \in (DEFAULT_MS_PER_SLOT \div 2)..(2 * DEFAULT_MS_PER_SLOT)
      BY AverageIsPlausible
    <2> HIDE DEF average
    <2>4. NearestSlot(chosen, time, now, slot, average)
      BY <2>2, <2>3, EstimateIsNear
    <2> HIDE DEF chosen
    <2>5. /\ cli'.value = chosen
          /\ cli'.estimate = [time |-> time, now |-> now, slot |-> slot,
                              average |-> average]
          /\ Remembered \subseteq DOMAIN cli'
          /\ now' = now /\ slot' = slot
      BY <2>1 DEF Start, Remembered, chosen, average, clock
    <2>6. SlotMeetsTime'
      BY <2>3, <2>4, <2>5 DEF SlotMeetsTime, NearestSlot
    <2> QED
      BY <2>2, <2>5, <2>6 DEF EstimateInv
  <1>5. CASE Start("clawback", keypair, Absent, FALSE, scenario.folder, Absent)
    BY <1>2, <1>5
  <1>6. CASE \E trees \in Trees :
               Start("close_distributor", keypair, Absent, FALSE, trees, Absent)
    BY <1>2, <1>6
  <1>7. CASE StartCloseClaimStatus(keypair)
    BY <1>2, <1>7 DEF StartCloseClaimStatus
  <1> QED
    BY <1>1, <1>3, <1>4, <1>5, <1>6, <1>7

\* Where the command is kept and the clock does not run back, so is the
\* estimate.
LEMMA EstimateCarriesOver ==
    ASSUME EstimateInv, CommandKept, cli.pc # "idle",
           now' \in Nat, slot' \in Nat
    PROVE  EstimateInv'
  <1>1. CASE cli' = Idle
    BY <1>1 DEF EstimateInv, SlotMeetsTime, Idle
  <1>2. CASE cli' # Idle
    BY <1>2 DEF EstimateInv, SlotMeetsTime, CommandKept, NearestSlot
  <1> QED
    BY <1>1, <1>2

\* The slot set by set-enable-slot-by-time misses the time it was given by less
\* than one average slot, for every clock, time, sample list and folder,
\* through all failures and interruptions.
THEOREM SlotsMeetTimes == Spec => []SlotMeetsTime
  <1>1. Init => EstimateInv
    BY DEF Init, Idle, EstimateInv, SlotMeetsTime
  <1>2. EstimateInv /\ [Next]_vars => EstimateInv'
    <2> SUFFICES ASSUME EstimateInv, [Next]_vars PROVE EstimateInv'
      OBVIOUS
    <2> USE DEF EstimateInv
    <2>1. CASE Begin
      BY <2>1, BeginEstimates
    <2>2. CASE CliStep
      <3>1. now' = now /\ slot' = slot /\ cli.pc # "idle"
        BY <2>2 DEF CliStep, Inspect, Finish, Submit, SendAndConfirm, Spin,
                    Simulate, SendLoop, Confirm, clock
      <3>2. CommandKept
        BY <2>2, <3>1, InspectKeeps, SendingKeeps DEF CliStep
      <3> QED
        BY <3>1, <3>2, EstimateCarriesOver
    <2>3. CASE Interrupt
      BY <2>3 DEF Interrupt, Panic, End, Idle, SlotMeetsTime, clock
    <2>4. CASE Land \/ Expire \/ Finalize \/ \E i \in DOMAIN orphans : LandOrphan(i)
      BY <2>4 DEF Land, Expire, Finalize, LandOrphan, SlotMeetsTime, NearestSlot,
                  clock
    <2>5. CASE Tick
      <3>1. now' \in Nat /\ slot' \in Nat /\ cli' = cli
        BY <2>5, AdminAssumption DEF Tick
      <3> QED
        BY <3>1 DEF SlotMeetsTime, NearestSlot
    <2>6. CASE UNCHANGED vars
      BY <2>6 DEF vars, clock, SlotMeetsTime, NearestSlot
    <2> QED
      BY <2>1, <2>2, <2>3, <2>4, <2>5, <2>6 DEF Next
  <1>3. EstimateInv => SlotMeetsTime
    BY DEF EstimateInv
  <1> QED
    BY <1>1, <1>2, <1>3, PTL DEF Spec

-----------------------------------------------------------------------------
(* Sequences. *)

\* The first element and the others.
LEMMA Splits ==
    ASSUME NEW S, NEW s \in Seq(S), s # <<>>
    PROVE  /\ Head(s) \in S /\ Tail(s) \in Seq(S)
           /\ Len(Tail(s)) = Len(s) - 1
           /\ \A k \in 1..Len(Tail(s)) : Tail(s)[k] = s[k + 1]
           /\ ToSet(s) = {Head(s)} \cup ToSet(Tail(s))
  <1>1. /\ Head(s) \in S /\ Tail(s) \in Seq(S) /\ Len(s) \in Nat /\ Len(s) > 0
        /\ Len(Tail(s)) = Len(s) - 1
        /\ \A k \in 1..Len(Tail(s)) : Tail(s)[k] = s[k + 1]
    OBVIOUS
  <1>2. DOMAIN s = 1..Len(s) /\ DOMAIN Tail(s) = 1..Len(Tail(s)) /\ Head(s) = s[1]
    BY <1>1
  <1>3. ASSUME NEW x \in ToSet(s) PROVE x \in {Head(s)} \cup ToSet(Tail(s))
    <2>1. PICK k \in 1..Len(s) : x = s[k]
      BY <1>2 DEF ToSet
    <2>2. CASE k = 1
      BY <1>2, <2>1, <2>2
    <2>3. CASE k # 1
      <3>1. k - 1 \in 1..Len(Tail(s)) /\ (k - 1) + 1 = k
        BY <1>1, <2>3
      <3>2. Tail(s)[k - 1] = s[k]
        BY <1>1, <3>1
      <3> QED
        BY <1>2, <2>1, <3>1, <3>2 DEF ToSet
    <2> QED
      BY <2>2, <2>3
  <1>4. ASSUME NEW x \in {Head(s)} \cup ToSet(Tail(s)) PROVE x \in ToSet(s)
    <2>1. CASE x = Head(s)
      <3>1. 1 \in DOMAIN s
        BY <1>1, <1>2
      <3> QED
        BY <1>2, <2>1, <3>1 DEF ToSet
    <2>2. CASE x \in ToSet(Tail(s))
      <3>1. PICK k \in 1..Len(Tail(s)) : x = Tail(s)[k]
        BY <1>2, <2>2 DEF ToSet
      <3>2. k + 1 \in 1..Len(s) /\ x = s[k + 1]
        BY <1>1, <3>1
      <3> QED
        BY <1>2, <3>2 DEF ToSet
    <2> QED
      BY <1>4, <2>1, <2>2
  <1> QED
    BY <1>1, <1>3, <1>4

\* One element more at the end.
Grown(s, e, r) ==
    /\ Len(r) = Len(s) + 1
    /\ r[Len(s) + 1] = e
    /\ \A k \in 1..Len(s) : r[k] = s[k]
    /\ ToSet(r) = ToSet(s) \cup {e}

LEMMA Appends ==
    ASSUME NEW S, NEW s \in Seq(S), NEW e \in S
    PROVE  Append(s, e) \in Seq(S) /\ Grown(s, e, Append(s, e))
  <1> DEFINE t == Append(s, e)
  <1>1. /\ t \in Seq(S) /\ Len(s) \in Nat /\ Len(t) = Len(s) + 1
        /\ t[Len(s) + 1] = e /\ \A k \in 1..Len(s) : t[k] = s[k]
        /\ DOMAIN s = 1..Len(s)
    OBVIOUS
  <1>2. DOMAIN t = 1..(Len(s) + 1)
    BY <1>1
  <1> HIDE DEF t
  <1>3. \A k \in 1..(Len(s) + 1) : k \in 1..Len(s) \/ k = Len(s) + 1
    BY <1>1
  <1>4. /\ \A k \in 1..Len(s) : k \in 1..(Len(s) + 1)
        /\ Len(s) + 1 \in 1..(Len(s) + 1)
    BY <1>1
  <1>5. ToSet(t) = ToSet(s) \cup {e}
    BY <1>1, <1>2, <1>3, <1>4 DEF ToSet
  <1> QED
    BY <1>1, <1>5 DEF t, Grown

\* One element less.
Removed(s, r, i) ==
    /\ Len(r) = Len(s) - 1
    /\ \A k \in 1..Len(r) : r[k] = IF k < i THEN s[k] ELSE s[k + 1]
    /\ \A k \in 1..Len(s) : k # i => \E j \in 1..Len(r) : r[j] = s[k]

LEMMA Removes ==
    ASSUME NEW S, NEW s \in Seq(S), NEW i \in DOMAIN s
    PROVE  RemoveAt(s, i) \in Seq(S) /\ Removed(s, RemoveAt(s, i), i)
  <1> DEFINE len == Len(s)
             a == SubSeq(s, 1, i - 1)
             b == SubSeq(s, i + 1, len)
             r == RemoveAt(s, i)
  <1>1. len \in Nat /\ i \in 1..len
    OBVIOUS
  <1>2. a \in Seq(S) /\ Len(a) = i - 1 /\ \A k \in 1..(i - 1) : a[k] = s[k]
    BY <1>1
  <1>3. /\ b \in Seq(S) /\ Len(b) = len - i
        /\ \A k \in 1..(len - i) : b[k] = s[i + k]
    BY <1>1
  <1>4. r = a \o b
    BY DEF RemoveAt
  <1> HIDE DEF a, b, r, len
  <1>8. /\ r \in Seq(S) /\ Len(r) = Len(a) + Len(b)
        /\ \A k \in 1..(Len(a) + Len(b)) :
              r[k] = IF k <= Len(a) THEN a[k] ELSE b[k - Len(a)]
    BY <1>2, <1>3, <1>4
  <1>5. r \in Seq(S) /\ Len(r) = len - 1
    <2>1. Len(a) + Len(b) = len - 1
      BY <1>1, <1>2, <1>3
    <2> QED
      BY <1>8, <2>1
  <1>6. ASSUME NEW k \in 1..(len - 1)
        PROVE  r[k] = IF k < i THEN s[k] ELSE s[k + 1]
    <2>1. CASE k < i
      <3>1. k \in 1..(i - 1)
        BY <1>1, <2>1
      <3>2. r[k] = a[k]
        BY <1>1, <1>2, <1>3, <1>4, <3>1
      <3> QED
        BY <1>2, <2>1, <3>1, <3>2
    <2>2. CASE ~(k < i)
      <3>1. k - (i - 1) \in 1..(len - i) /\ i + (k - (i - 1)) = k + 1
        BY <1>1, <2>2
      <3>3. ~(k <= Len(a)) /\ k - Len(a) = k - (i - 1) /\ k \in 1..(Len(a) + Len(b))
        BY <1>1, <1>2, <1>3, <2>2
      <3>2. r[k] = b[k - (i - 1)]
        BY <1>8, <3>3
      <3> QED
        BY <1>3, <2>2, <3>1, <3>2
    <2> QED
      BY <2>1, <2>2
  <1>7. ASSUME NEW k \in 1..len, k # i
        PROVE  \E j \in 1..(len - 1) : r[j] = s[k]
    <2>1. CASE k < i
      <3>1. k \in 1..(len - 1)
        BY <1>1, <2>1
      <3> QED
        BY <1>6, <2>1, <3>1
    <2>2. CASE ~(k < i)
      <3>1. k - 1 \in 1..(len - 1) /\ ~(k - 1 < i) /\ (k - 1) + 1 = k
        BY <1>1, <1>7, <2>2
      <3>2. r[k - 1] = s[k]
        BY <1>6, <3>1
      <3> QED
        BY <3>1, <3>2
    <2> QED
      BY <2>1, <2>2
  <1> QED
    BY <1>5, <1>6, <1>7 DEF r, len, Removed

LEMMA Indexed ==
    ASSUME NEW S, NEW s \in Seq(S)
    PROVE  /\ Len(s) \in Nat /\ DOMAIN s = 1..Len(s)
           /\ \A k \in 1..Len(s) : s[k] \in S
  OBVIOUS

\* Where an element of the rest was before.
Index(k, i) == IF k < i THEN k ELSE k + 1

LEMMA RemovedIndex ==
    ASSUME NEW S, NEW s \in Seq(S), NEW r \in Seq(S), NEW i \in DOMAIN s,
           Removed(s, r, i)
    PROVE  /\ \A k \in DOMAIN r :
                 Index(k, i) \in DOMAIN s \ {i} /\ r[k] = s[Index(k, i)]
           /\ \A j, k \in DOMAIN r : j # k => Index(j, i) # Index(k, i)
           /\ \A j \in DOMAIN s \ {i} : \E k \in DOMAIN r : r[k] = s[j]
  <1>1. /\ DOMAIN s = 1..Len(s) /\ DOMAIN r = 1..Len(r)
        /\ Len(s) \in Nat /\ Len(r) \in Nat /\ Len(r) = Len(s) - 1
    BY DEF Removed
  <1>2. ASSUME NEW k \in DOMAIN r
        PROVE  Index(k, i) \in DOMAIN s \ {i} /\ r[k] = s[Index(k, i)]
    <2>1. r[k] = IF k < i THEN s[k] ELSE s[k + 1]
      BY <1>1 DEF Removed
    <2>2. Index(k, i) \in 1..Len(s) /\ Index(k, i) # i
      BY <1>1 DEF Index
    <2> QED
      BY <1>1, <2>1, <2>2 DEF Index
  <1>3. \A j, k \in DOMAIN r : j # k => Index(j, i) # Index(k, i)
    BY <1>1 DEF Index
  <1> QED
    BY <1>1, <1>2, <1>3 DEF Removed

\* What is left was there before.
LEMMA FromRemoved ==
    ASSUME NEW S, NEW s \in Seq(S), NEW r \in Seq(S), NEW i \in DOMAIN s,
           Removed(s, r, i)
    PROVE  /\ \A k \in DOMAIN r : \E j \in DOMAIN s : r[k] = s[j]
           /\ \A j \in DOMAIN s \ {i} : \E k \in DOMAIN r : r[k] = s[j]
  <1>1. /\ DOMAIN s = 1..Len(s) /\ DOMAIN r = 1..Len(r)
        /\ Len(s) \in Nat /\ Len(r) \in Nat
    OBVIOUS
  <1>2. ASSUME NEW k \in DOMAIN r PROVE \E j \in DOMAIN s : r[k] = s[j]
    <2>1. /\ k \in DOMAIN s /\ k + 1 \in DOMAIN s
          /\ r[k] = IF k < i THEN s[k] ELSE s[k + 1]
      BY <1>1 DEF Removed
    <2> QED
      BY <2>1
  <1> QED
    BY <1>1, <1>2 DEF Removed

Extended(s, e, r) ==
    /\ \A i \in DOMAIN s : \E k \in DOMAIN r : r[k] = s[i]
    /\ \A k \in DOMAIN r : r[k] = e \/ \E i \in DOMAIN s : r[k] = s[i]
    /\ \E k \in DOMAIN r : r[k] = e

LEMMA FromAppend ==
    ASSUME NEW S, NEW s \in Seq(S), NEW e \in S
    PROVE  Append(s, e) \in Seq(S) /\ Extended(s, e, Append(s, e))
  <1> DEFINE r == Append(s, e)
  <1>1. r \in Seq(S) /\ Grown(s, e, r)
    BY Appends
  <1> HIDE DEF r
  <1>2. DOMAIN s = 1..Len(s) /\ Len(s) \in Nat /\ DOMAIN r = 1..Len(r)
    BY <1>1
  <1>3. DOMAIN r = 1..(Len(s) + 1)
    BY <1>1, <1>2 DEF Grown
  <1>4. \A k \in 1..(Len(s) + 1) : k \in 1..Len(s) \/ k = Len(s) + 1
    BY <1>2
  <1>5. /\ \A k \in 1..Len(s) : k \in 1..(Len(s) + 1)
        /\ Len(s) + 1 \in 1..(Len(s) + 1)
    BY <1>2
  <1>6. Extended(s, e, r)
    BY <1>1, <1>2, <1>3, <1>4, <1>5 DEF Grown, Extended
  <1> QED
    BY <1>1, <1>6 DEF r

LEMMA FromTail ==
    ASSUME NEW S, NEW s \in Seq(S), s # <<>>
    PROVE  \A k \in DOMAIN Tail(s) : \E j \in DOMAIN s : Tail(s)[k] = s[j]
  <1>1. /\ DOMAIN s = 1..Len(s) /\ Len(s) \in Nat
        /\ Tail(s) \in Seq(S) /\ Len(Tail(s)) = Len(s) - 1
        /\ DOMAIN Tail(s) = 1..Len(Tail(s))
    OBVIOUS
  <1>2. ASSUME NEW k \in DOMAIN Tail(s) PROVE k + 1 \in DOMAIN s /\ Tail(s)[k] = s[k + 1]
    BY <1>1, <1>2
  <1> QED
    BY <1>2

\* A list of members of a set is one of members of a larger set.
LEMMA Widens ==
    ASSUME NEW S, NEW T, S \subseteq T, NEW s \in Seq(S)
    PROVE  s \in Seq(T)
  <1>1. /\ Len(s) \in Nat /\ DOMAIN s = 1..Len(s)
        /\ \A k \in 1..Len(s) : s[k] \in S
        /\ s = [k \in 1..Len(s) |-> s[k]]
    OBVIOUS
  <1> QED
    BY <1>1

\* A finite set as a list.
LEMMA Lists ==
    ASSUME NEW S, IsFiniteSet(S)
    PROVE  /\ SetToSeq(S) \in Seq(S)
           /\ \A j, k \in 1..Len(SetToSeq(S)) :
                 SetToSeq(S)[j] = SetToSeq(S)[k] => j = k
  <1> DEFINE n == Cardinality(S)
             F == [1..n -> S]
  <1>1. n \in Nat /\ \E f \in Injection(1..n, S) : TRUE
    <2>1. n \in Nat /\ \E f : f \in Bijection(1..n, S)
      BY FS_CardinalityType DEF ExistsBijection
    <2> QED
      BY <2>1 DEF Bijection
  <1>2. PICK f \in F : IsInjective(f)
    BY <1>1 DEF Injection, IsInjective
  <1>3. SetToSeq(S) = CHOOSE g \in F : IsInjective(g)
    BY DEF SetToSeq
  <1>4. SetToSeq(S) \in F /\ IsInjective(SetToSeq(S))
    <2> HIDE DEF F
    <2> QED
      BY <1>2, <1>3
  <1> QED
    BY <1>1, <1>4 DEF IsInjective

-----------------------------------------------------------------------------
(* The shape of the state. *)

Ways == {"submit", "send_and_confirm", "spin", "simulate", "loop", "confirm"}
Closing == "close_claim_status"
WaysOf(command) ==
    CASE command \in {"set_admin", "clawback"} -> {"simulate", "loop", "confirm"}
      [] command \in {"set_clawback_receiver", "close_distributor"} -> {"submit"}
      [] command = Closing -> {"submit", "send_and_confirm", "spin"}
      [] OTHER -> {"send_and_confirm", "spin"}
KindOf(command) ==
    IF command = "set_enable_slot_by_time" THEN "set_enable_slot" ELSE command
Kinds == Commands \ {"set_enable_slot_by_time"}

Values == Wallets \cup Receivers \cup TokenAccounts \cup Nat \cup {Absent}
            \cup Seq(1..ClaimStatuses)
Body == [kind : Kinds, version : Versions \cup {Absent}, signer : Wallets,
         value : Values]
Bodies ==
    {t \in Body :
        /\ IF t.kind = Closing THEN t.value \in Seq(1..ClaimStatuses)
                               ELSE t.version \in Versions
        /\ t.kind = "set_admin" => t.value \in Wallets
        /\ t.kind \in {"set_clawback_start_ts", "set_enable_slot"} =>
              t.value \in Nat}

\* A command at work.
Form(c) ==
    [pc |-> c.pc, command |-> c.command, keypair |-> c.keypair,
     value |-> c.value, bs58 |-> c.bs58, trees |-> c.trees, queue |-> c.queue,
     batch |-> c.batch, accepted |-> c.accepted, expired |-> c.expired,
     before |-> c.before, estimate |-> c.estimate]

Running(c) ==
    /\ c = Form(c)
    /\ c.command \in Commands
    /\ c.pc \in WaysOf(c.command) \cup {"next"}
    /\ c.keypair \in Wallets
    /\ c.bs58 \in BOOLEAN
    /\ c.expired \in BOOLEAN
    /\ c.before \in Nat
    /\ LET listed == IF c.command = Closing THEN 1..ClaimStatuses ELSE Versions
       IN  c.trees \in Seq(listed) /\ c.queue \in Seq(listed)
    /\ c.batch \in Seq(1..ClaimStatuses)
    /\ c.command = "set_admin" => c.value \in Wallets
    /\ c.command = "set_clawback_receiver" => c.value \in Receivers
    /\ c.command \in {"set_clawback_start_ts", "set_enable_slot",
                      "set_enable_slot_by_time"} => c.value \in Nat

\* The transaction at hand is the one the command asks for.
OwnTx(c, t) ==
    /\ t.kind = KindOf(c.command)
    /\ t.signer = c.keypair
    /\ c.command \in Setters \cup {"set_enable_slot_by_time"} => t.value = c.value
    /\ IF c.command = Closing
       THEN t.value = c.batch
       ELSE c.queue # <<>> /\ t.version = Head(c.queue)

ChainOK(state) ==
    /\ state = [dist |-> state.dist, statuses |-> state.statuses]
    /\ state.dist \in [Versions -> Distributor \cup {Absent}]
    /\ state.statuses \in [1..ClaimStatuses -> Wallets \cup {Absent}]

TxOK ==
    \/ tx = NoTx /\ (cli = Idle \/ cli.pc = "next")
    \/ /\ tx = [status |-> tx.status, body |-> tx.body]
       /\ tx.status \in {"signed", "sent", "ok", "failed", "expired"}
       /\ tx.body \in Bodies
       /\ cli # Idle /\ cli.pc \in Ways
       /\ cli.pc \in {"submit", "send_and_confirm", "simulate"} =>
             tx.status \in {"signed", "expired"}
       /\ OwnTx(cli, tx.body)

CliOK ==
    \/ cli = Idle
    \/ /\ Running(cli)
       /\ cli.command = Closing /\ cli.pc \in Ways =>
             IF cli.pc = "submit" THEN Len(cli.batch) >= BatchSize
                                  ELSE cli.queue = <<>>

ShapeInv ==
    /\ scenario \in Scenario
    /\ ChainOK(processed)
    /\ ChainOK(finalized)
    /\ now \in Nat
    /\ slot \in 0..MaxU64
    /\ CliOK
    /\ TxOK
    /\ orphans \in Seq(Bodies)
    /\ last.result \in {"none", "done", "panicked"}
    /\ faults \in 0..MaxFaults

-----------------------------------------------------------------------------
(* The moves of a command. *)

\* The command goes on: what it was asked for stays.
CliNow(pc, queue, batch, accepted, expired) ==
    cli' = [pc |-> pc, command |-> cli.command, keypair |-> cli.keypair,
            value |-> cli.value, bs58 |-> cli.bs58, trees |-> cli.trees,
            queue |-> queue, batch |-> batch, accepted |-> accepted,
            expired |-> expired, before |-> cli.before,
            estimate |-> cli.estimate]

\* Or it ends.
Ended(result, batch, accepted, expired) ==
    /\ cli' = Idle
    /\ last' = [command |-> cli.command, keypair |-> cli.keypair,
                value |-> cli.value, bs58 |-> cli.bs58, trees |-> cli.trees,
                before |-> cli.before, expired |-> expired,
                accepted |-> accepted, batch |-> batch, result |-> result]

Panicking ==
    /\ Ended("panicked", cli.batch, cli.accepted, cli.expired)
    /\ orphans' = InFlight
    /\ tx' = NoTx

\* What a job asks for holds of a distributor.
Asks(job, d) ==
    CASE job.command = "clawback" -> d.clawed_back
      [] job.command = "set_enable_slot_by_time" -> d.enable_slot = job.value
      [] job.command \in Setters -> d[FieldOf[job.command]] = job.value

Skipping ==
    /\ cli.pc = "next" /\ cli.queue # <<>> /\ cli.command # Closing
    /\ \/ cli.command = "close_distributor"
       \/ cli.bs58
       \/ LET d == finalized.dist[Head(cli.queue)]
          IN  d # Absent /\ Asks(cli, d) /\ cli.command # "set_enable_slot_by_time"
    /\ CliNow("next", Tail(cli.queue), cli.batch, cli.accepted, cli.expired)
    /\ UNCHANGED <<tx, orphans, last>>

Signed(version, value) ==
    tx' = [status |-> "signed",
           body |-> [kind |-> KindOf(cli.command), version |-> version,
                     signer |-> cli.keypair, value |-> value]]

Signing ==
    /\ cli.pc = "next" /\ cli.queue # <<>> /\ cli.command # Closing
    /\ \E way \in {"simulate", "submit", "send_and_confirm"}, value \in Values :
          /\ way \in WaysOf(cli.command)
          /\ cli.command \in Setters \cup {"set_enable_slot_by_time"} =>
                value = cli.value
          /\ CliNow(way, cli.queue, cli.batch, cli.accepted, cli.expired)
          /\ Signed(Head(cli.queue), value)
    /\ UNCHANGED <<orphans, last>>

Taking ==
    LET batch == Append(cli.batch, Head(cli.queue))
    IN  /\ cli.pc = "next" /\ cli.queue # <<>> /\ cli.command = Closing
        /\ \/ /\ Len(batch) < BatchSize
              /\ CliNow("next", Tail(cli.queue), batch, cli.accepted, cli.expired)
              /\ UNCHANGED tx
           \/ /\ Len(batch) >= BatchSize
              /\ CliNow("submit", Tail(cli.queue), batch, cli.accepted, cli.expired)
              /\ Signed(Absent, batch)
        /\ UNCHANGED <<orphans, last>>

Finishing ==
    /\ cli.pc = "next" /\ cli.queue = <<>>
    /\ \/ /\ cli.command = Closing /\ cli.batch # <<>>
          /\ CliNow("send_and_confirm", cli.queue, cli.batch, cli.accepted,
                    cli.expired)
          /\ Signed(Absent, cli.batch)
          /\ UNCHANGED last
       \/ /\ cli.command = Closing => cli.batch = <<>>
          /\ Ended("done", cli.batch, cli.accepted, cli.expired)
          /\ UNCHANGED tx
    /\ UNCHANGED orphans

\* From one step of a way of sending to the next.
Sending ==
    /\ cli.pc \in Ways \ {"submit"}
    /\ \E pc \in WaysOf(cli.command) \cap {"spin", "loop", "confirm"} :
          CliNow(pc, cli.queue, cli.batch, cli.accepted, cli.expired)
    /\ \E status \in {tx.status, "sent"} :
          /\ tx' = [tx EXCEPT !.status = status]
          /\ status # tx.status =>
                /\ tx.status = "signed"
                /\ cli.pc = "send_and_confirm" =>
                      \E state \in Preflights : Accepted(state)
    /\ UNCHANGED <<orphans, last>>

\* From a way of sending back to the loop.
Outcome(ok, expired) ==
    \/ /\ cli.command \in Setters \cup {"clawback", "set_enable_slot_by_time"}
       /\ \E flag \in BOOLEAN :
             /\ CliNow("next", IF ok THEN Tail(cli.queue) ELSE cli.queue,
                       cli.batch, cli.accepted, flag)
             /\ cli.expired \/ expired => flag
       /\ UNCHANGED last
    \/ /\ cli.command = "set_enable_slot_by_time"
       /\ Ended("panicked", cli.batch, cli.accepted, cli.expired)
    \/ /\ cli.command = "close_distributor"
       /\ CliNow("next", Tail(cli.queue), cli.batch, cli.accepted, cli.expired)
       /\ UNCHANGED last
    \/ LET batch == IF ok THEN <<>> ELSE cli.batch
           accepted == IF ok THEN cli.accepted \cup ToSet(cli.batch)
                             ELSE cli.accepted
       IN  /\ cli.command = Closing
           /\ \/ /\ cli.pc = "submit"
                 /\ CliNow("next", cli.queue, batch, accepted, cli.expired)
                 /\ UNCHANGED last
              \/ /\ cli.pc # "submit"
                 /\ Ended("done", batch, accepted, cli.expired)

Returning(ok, expired, delivered) ==
    /\ cli.pc \in Ways
    /\ ok /\ ~expired =>
          IF cli.pc = "submit" THEN delivered ELSE tx.status = "ok"
    /\ expired => cli.pc = "loop"
    /\ delivered => tx.status = "sent" \/ \E state \in Preflights : Accepted(state)
    /\ ~ok => \/ faults' # faults
              \/ cli.pc = "simulate"
              \/ tx.status \in {"failed", "expired"}
              \/ /\ cli.pc \in {"submit", "send_and_confirm"}
                 /\ \E state \in Preflights : ~Accepted(state)
    /\ faults' = faults => (delivered => cli.pc = "submit")
    /\ orphans' = IF delivered THEN Append(orphans, tx.body) ELSE orphans
    /\ tx' = NoTx
    /\ Outcome(ok, expired)

FaultStep == faults' = faults \/ Fault
Quiet == UNCHANGED <<scenario, chain, clock, runs, hasty>>

Move ==
    /\ Quiet
    /\ FaultStep
    /\ cli # Idle
    /\ \/ Panicking
       \/ Skipping
       \/ Signing
       \/ Taking
       \/ Finishing
       \/ Sending
       \/ \E ok, expired, delivered \in BOOLEAN : Returning(ok, expired, delivered)

LEMMA Returns ==
    ASSUME ShapeInv, cli # Idle, cli.pc \in Ways, NEW ok \in BOOLEAN,
           NEW expired \in BOOLEAN, NEW delivered \in BOOLEAN,
           expired => cli.pc = "loop",
           Returned(ok, expired, delivered)
    PROVE  Outcome(ok, expired)
  <1>1. Running(cli) /\ cli = Form(cli)
    BY DEF ShapeInv, CliOK, Running
  <1>2. CASE Again(ok, expired)
    <2>1. CliNow("next", IF ok THEN Tail(cli.queue) ELSE cli.queue, cli.batch,
                 cli.accepted, cli.expired \/ expired)
      BY <1>1, <1>2 DEF Again, CliNow, Form
    <2>2. (cli.expired \/ expired) \in BOOLEAN
      OBVIOUS
    <2>3. UNCHANGED last /\ cli.command \in Setters \cup {"clawback"}
      BY <1>2 DEF Again
    <2> QED
      BY <2>1, <2>2, <2>3 DEF Outcome
  <1>3. CASE Unwrapped(ok)
    <2>1. cli.command = "set_enable_slot_by_time"
      BY <1>3 DEF Unwrapped
    <2>2. ~expired
      BY <1>1, <2>1 DEF Running, WaysOf, Closing
    <2>3. CASE ok
      <3>1. CliNow("next", Tail(cli.queue), cli.batch, cli.accepted, cli.expired)
        BY <1>1, <1>3, <2>3 DEF Unwrapped, CliNow, Form
      <3>2. UNCHANGED last /\ cli.expired \in BOOLEAN
        BY <1>1, <1>3, <2>3 DEF Unwrapped, Running
      <3> QED
        BY <2>1, <2>2, <2>3, <3>1, <3>2 DEF Outcome
    <2>4. CASE ~ok
      <3>1. Ended("panicked", cli.batch, cli.accepted, cli.expired)
        BY <1>3, <2>4 DEF Unwrapped, End, Ended
      <3> QED
        BY <2>1, <3>1 DEF Outcome
    <2> QED
      BY <2>3, <2>4
  <1>4. CASE Printed
    <2>1. CliNow("next", Tail(cli.queue), cli.batch, cli.accepted, cli.expired)
      BY <1>1, <1>4 DEF Printed, CliNow, Form
    <2> QED
      BY <1>4, <2>1 DEF Printed, Outcome
  <1>5. CASE BatchDone(ok)
    <2> DEFINE batch == IF ok THEN <<>> ELSE cli.batch
               accepted == IF ok THEN cli.accepted \cup ToSet(cli.batch)
                                 ELSE cli.accepted
               after == [cli EXCEPT !.pc = "next",
                           !.batch = IF ok THEN <<>> ELSE @,
                           !.accepted = IF ok THEN @ \cup ToSet(cli.batch) ELSE @]
    <2>1. after = [Form(cli) EXCEPT !.pc = "next", !.batch = batch,
                                    !.accepted = accepted]
      BY <1>1 DEF Form
    <2>2. cli.command = Closing
      BY <1>5 DEF BatchDone, Closing
    <2>3. CASE cli.pc = "submit"
      <3>1. cli' = after /\ UNCHANGED last
        BY <1>5, <2>3 DEF BatchDone
      <3>2. CliNow("next", cli.queue, batch, accepted, cli.expired)
        BY <2>1, <3>1 DEF CliNow, Form
      <3> QED
        BY <2>2, <2>3, <3>1, <3>2 DEF Outcome
    <2>4. CASE cli.pc # "submit"
      <3>1. End("done", after)
        BY <1>5, <2>4 DEF BatchDone
      <3> HIDE DEF after
      <3>2. Ended("done", batch, accepted, cli.expired)
        BY <2>1, <3>1 DEF End, Ended, Form
      <3> QED
        BY <2>2, <2>4, <3>2 DEF Outcome
    <2> QED
      BY <2>3, <2>4
  <1> QED
    BY <1>2, <1>3, <1>4, <1>5 DEF Returned

LEMMA InspectMoves ==
    ASSUME ShapeInv, Inspect
    PROVE  Move
  <1> DEFINE v == Head(cli.queue)
             d == finalized.dist[v]
             Went == Panicking \/ Skipping \/ Signing \/ Taking
  <1>1. cli.pc = "next" /\ cli.queue # <<>> /\ Quiet
    BY DEF Inspect, Quiet
  <1>2. cli # Idle
    BY <1>1 DEF Idle
  <1>3. Running(cli) /\ cli = Form(cli)
    BY <1>2 DEF ShapeInv, CliOK, Running
  <1>4. ASSUME Panic PROVE Panicking
    BY <1>4 DEF Panic, End, Panicking, Ended
  <1>5. ASSUME NextVersion
        PROVE  /\ CliNow("next", Tail(cli.queue), cli.batch, cli.accepted,
                         cli.expired)
               /\ UNCHANGED <<tx, orphans, last>>
    BY <1>3, <1>5 DEF NextVersion, CliNow, Form
  <1>6. ASSUME NEW way, NEW version, NEW value, Sign(way, version, value)
        PROVE  /\ CliNow(way, cli.queue, cli.batch, cli.accepted, cli.expired)
               /\ Signed(version, value)
               /\ UNCHANGED <<orphans, last>>
    BY <1>3, <1>6 DEF Sign, CliNow, Form, Signed, KindOf
  <1>7. ASSUME NEW way \in {"simulate", "submit", "send_and_confirm"},
               cli.command \in Setters, way \in WaysOf(cli.command),
               SetField(v, FieldOf[cli.command], way)
        PROVE  Panicking \/ Skipping \/ Signing
    <2>1. CASE Panic
      BY <1>4, <2>1
    <2>2. CASE /\ d # Absent
               /\ d[FieldOf[cli.command]] = cli.value \/ cli.bs58
               /\ NextVersion
      <3>1. cli.bs58 \/ Asks(cli, d)
        BY <1>7, <2>2 DEF Asks, Setters
      <3>2. cli.command # Closing /\ cli.command # "set_enable_slot_by_time"
        BY <1>7 DEF Setters, Closing
      <3>3. /\ CliNow("next", Tail(cli.queue), cli.batch, cli.accepted,
                      cli.expired)
            /\ UNCHANGED <<tx, orphans, last>>
        BY <1>5, <2>2
      <3> QED
        BY <1>1, <2>2, <3>1, <3>2, <3>3 DEF Skipping
    <2>3. CASE Sign(way, v, cli.value)
      <3>1. cli.value \in Values /\ cli.command # Closing
        BY <1>3, <1>7 DEF Running, Values, Setters, Closing
      <3> QED
        BY <1>1, <1>6, <1>7, <2>3, <3>1 DEF Signing
    <2> QED
      BY <1>7, <2>1, <2>2, <2>3 DEF SetField
  <1>8. ASSUME SetAdminOf(v) PROVE Went
    BY <1>7, <1>8 DEF SetAdminOf, Setters, FieldOf, WaysOf, Closing
  <1>9. ASSUME SetClawbackReceiverOf(v) PROVE Went
    BY <1>7, <1>9 DEF SetClawbackReceiverOf, Setters, FieldOf, WaysOf, Closing
  <1>10. ASSUME SetClawbackStartTsOf(v) PROVE Went
    BY <1>7, <1>10 DEF SetClawbackStartTsOf, Setters, FieldOf, WaysOf, Closing
  <1>11. ASSUME SetEnableSlotOf(v) PROVE Went
    BY <1>7, <1>11 DEF SetEnableSlotOf, Setters, FieldOf, WaysOf, Closing
  <1>12. ASSUME SetEnableSlotByTimeOf(v) PROVE Went
    <2>1. cli.command = "set_enable_slot_by_time"
          /\ Sign("send_and_confirm", v, cli.value)
      BY <1>12 DEF SetEnableSlotByTimeOf
    <2>2. /\ cli.value \in Values /\ cli.command # Closing
          /\ "send_and_confirm" \in WaysOf(cli.command)
      BY <1>3, <2>1 DEF Running, Values, Closing, WaysOf
    <2> QED
      BY <1>1, <1>6, <2>1, <2>2 DEF Signing
  <1>13. ASSUME ClawbackOf(v) PROVE Went
    <2>1. cli.command = "clawback" /\ cli.command # Closing
          /\ cli.command \notin Setters \cup {"set_enable_slot_by_time"}
      BY <1>13 DEF ClawbackOf, Closing, Setters
    <2>2. CASE Panic
      BY <1>4, <2>2
    <2>3. CASE d # Absent /\ d.clawed_back /\ NextVersion
      <3>1. Asks(cli, d)
        BY <2>1, <2>3 DEF Asks
      <3> QED
        BY <1>1, <1>5, <2>1, <2>3, <3>1 DEF Skipping
    <2>4. CASE d # Absent /\ Sign("simulate", v, d.clawback_receiver)
      <3>1. d \in Distributor
        <4>1. v \in Versions
          BY <1>1, <1>3, <2>1, Splits DEF Running
        <4> QED
          BY <2>4, <4>1 DEF ShapeInv, ChainOK
      <3>2. d.clawback_receiver \in Values /\ "simulate" \in WaysOf(cli.command)
        BY <2>1, <3>1 DEF Distributor, Values, WaysOf
      <3> QED
        BY <1>1, <1>6, <2>1, <2>4, <3>2 DEF Signing
    <2> QED
      BY <1>13, <2>2, <2>3, <2>4 DEF ClawbackOf
  <1>14. ASSUME CloseDistributorOf(v) PROVE Went
    <2>1. cli.command = "close_distributor" /\ cli.command # Closing
          /\ cli.command \notin Setters \cup {"set_enable_slot_by_time"}
      BY <1>14 DEF CloseDistributorOf, Closing, Setters
    <2>2. CASE NextVersion
      BY <1>1, <1>5, <2>1, <2>2 DEF Skipping
    <2>3. CASE Sign("submit", v, Absent)
      <3>1. Absent \in Values /\ "submit" \in WaysOf(cli.command)
        BY <2>1 DEF Values, WaysOf
      <3> QED
        BY <1>1, <1>6, <2>1, <2>3, <3>1 DEF Signing
    <2> QED
      BY <1>14, <2>2, <2>3 DEF CloseDistributorOf
  <1>15. ASSUME TakeClaimStatus(v) PROVE Went
    <2> DEFINE batch == Append(cli.batch, v)
    <2>1. cli.command = Closing /\ KindOf(cli.command) = cli.command
      BY <1>15 DEF TakeClaimStatus, Closing, KindOf
    <2>2. CASE Len(batch) < BatchSize
      <3>1. CliNow("next", Tail(cli.queue), batch, cli.accepted, cli.expired)
        BY <1>1, <1>3, <1>15, <2>2 DEF TakeClaimStatus, CliNow, Form
      <3> QED
        BY <1>1, <1>15, <2>1, <2>2, <3>1 DEF TakeClaimStatus, Taking
    <2>3. CASE ~(Len(batch) < BatchSize)
      <3>1. CliNow("submit", Tail(cli.queue), batch, cli.accepted, cli.expired)
        BY <1>1, <1>3, <1>15, <2>3 DEF TakeClaimStatus, CliNow, Form
      <3>2. Signed(Absent, batch) /\ UNCHANGED <<orphans, last>>
        BY <1>15, <2>1, <2>3 DEF TakeClaimStatus, Signed
      <3>3. Len(batch) >= BatchSize
        <4>1. batch \in Seq(1..ClaimStatuses)
          <5>1. cli.queue \in Seq(1..ClaimStatuses) /\ cli.batch \in Seq(1..ClaimStatuses)
            BY <1>3, <2>1 DEF Running
          <5>2. v \in 1..ClaimStatuses
            BY <1>1, <5>1, Splits
          <5> HIDE DEF v
          <5> QED
            BY <5>1, <5>2
        <4>2. Len(batch) \in Nat
          BY <4>1
        <4> HIDE DEF batch
        <4> QED
          BY <2>3, <4>2, AdminAssumption
      <3> QED
        BY <1>1, <2>1, <3>1, <3>2, <3>3 DEF Taking
    <2> QED
      BY <2>2, <2>3
  <1>16. CASE Fault /\ Panic
    BY <1>1, <1>2, <1>4, <1>16 DEF Move, FaultStep
  <1>17. CASE Fault /\ cli.command = "close_distributor" /\ NextVersion
    <2>1. Skipping
      BY <1>1, <1>5, <1>17 DEF Skipping, Closing
    <2> QED
      BY <1>1, <1>2, <1>17, <2>1 DEF Move, FaultStep
  <1>18. CASE faults' = faults /\ Went
    BY <1>1, <1>2, <1>18 DEF Move, FaultStep
  <1> QED
    BY <1>8, <1>9, <1>10, <1>11, <1>12, <1>13, <1>14, <1>15, <1>16, <1>17, <1>18
    DEF Inspect

LEMMA SendMoves ==
    ASSUME ShapeInv,
           Finish \/ Submit \/ SendAndConfirm \/ Spin
             \/ Simulate \/ SendLoop \/ Confirm
    PROVE  Move
  <1>1. /\ cli.pc \in Ways \cup {"next"} /\ Quiet
        /\ FaultStep
    BY DEF Finish, Submit, SendAndConfirm, Spin, Simulate, SendLoop, Confirm,
           Ways, Quiet, FaultStep
  <1>2. cli # Idle
    BY <1>1 DEF Idle, Ways
  <1>3. Running(cli) /\ cli = Form(cli)
    BY <1>2 DEF ShapeInv, CliOK, Running
  <1> DEFINE Back == \E ok, expired, delivered \in BOOLEAN :
                        Returning(ok, expired, delivered)
  <1>4. ASSUME cli.pc \in Ways, NEW ok \in BOOLEAN, NEW expired \in BOOLEAN,
               NEW delivered \in BOOLEAN, Returned(ok, expired, delivered),
               ok /\ ~expired =>
                  IF cli.pc = "submit" THEN delivered ELSE tx.status = "ok",
               expired => cli.pc = "loop",
               delivered =>
                  tx.status = "sent" \/ \E state \in Preflights : Accepted(state),
               ~ok => \/ faults' # faults
                      \/ cli.pc = "simulate"
                      \/ tx.status \in {"failed", "expired"}
                      \/ /\ cli.pc \in {"submit", "send_and_confirm"}
                         /\ \E state \in Preflights : ~Accepted(state),
               faults' = faults => (delivered => cli.pc = "submit")
        PROVE  Back
    <2>1. Outcome(ok, expired)
      BY <1>2, <1>4, Returns
    <2>2. /\ orphans' = IF delivered THEN Append(orphans, tx.body) ELSE orphans
          /\ tx' = NoTx
      BY <1>4 DEF Returned
    <2>3. Returning(ok, expired, delivered)
      BY <1>4, <2>1, <2>2 DEF Returning
    <2> QED
      BY <2>3
  <1>5. Fault => faults' # faults
    BY DEF Fault, ShapeInv
  <1>6. cli.pc \in Ways => tx = [status |-> tx.status, body |-> tx.body]
    BY <1>2 DEF ShapeInv, TxOK, Ways
  <1> DEFINE Went == Finishing \/ Sending \/ Back
  <1>7. ASSUME Finish PROVE Went
    <2>1. cli.pc = "next" /\ cli.queue = <<>>
      BY <1>7 DEF Finish
    <2>2. CASE cli.command = Closing /\ cli.batch # <<>>
      <3>1. Sign("send_and_confirm", Absent, cli.batch)
        BY <1>7, <2>2 DEF Finish, Closing
      <3>2. CliNow("send_and_confirm", cli.queue, cli.batch, cli.accepted,
                   cli.expired)
        BY <1>3, <3>1 DEF Sign, CliNow, Form
      <3>3. Signed(Absent, cli.batch) /\ UNCHANGED <<orphans, last>>
        BY <3>1 DEF Sign, Signed, KindOf
      <3> QED
        BY <2>1, <2>2, <3>2, <3>3 DEF Finishing
    <2>3. CASE ~(cli.command = Closing /\ cli.batch # <<>>)
      <3>1. End("done", cli) /\ UNCHANGED <<tx, orphans>>
        BY <1>7, <2>3 DEF Finish, Closing
      <3>2. Ended("done", cli.batch, cli.accepted, cli.expired)
        BY <3>1 DEF End, Ended
      <3> QED
        BY <2>1, <2>3, <3>1, <3>2 DEF Finishing
    <2> QED
      BY <2>2, <2>3
  <1>8. ASSUME Submit PROVE Went
    <2>1. cli.pc = "submit" /\ cli.pc \in Ways
      BY <1>8 DEF Submit, Ways
    <2>2. CASE /\ \E state \in Preflights :
                     IF Accepted(state) THEN Returned(TRUE, FALSE, TRUE)
                                        ELSE Returned(FALSE, FALSE, FALSE)
               /\ UNCHANGED faults
      BY <1>4, <2>1, <2>2
    <2>3. CASE Fault /\ Returned(FALSE, FALSE, FALSE)
      BY <1>4, <1>5, <2>1, <2>3
    <2>4. CASE /\ Fault
               /\ \E state \in Preflights : Accepted(state)
               /\ Returned(FALSE, FALSE, TRUE)
      BY <1>4, <1>5, <2>1, <2>4
    <2> QED
      BY <1>8, <2>2, <2>3, <2>4 DEF Submit
  <1>9. ASSUME SendAndConfirm PROVE Went
    <2>1. cli.pc = "send_and_confirm" /\ cli.pc \in Ways
      BY <1>9 DEF SendAndConfirm, Ways
    <2>2. ASSUME NEW state \in Preflights, Accepted(state),
                 tx' = [tx EXCEPT !.status = "sent"],
                 cli' = [cli EXCEPT !.pc = "spin"], UNCHANGED <<orphans, last>>
          PROVE  Sending
      <3>1. CliNow("spin", cli.queue, cli.batch, cli.accepted, cli.expired)
        BY <1>3, <2>2 DEF CliNow, Form
      <3>2. "spin" \in WaysOf(cli.command)
        BY <1>3, <2>1 DEF Running, WaysOf, Closing
      <3>3. tx.status \in {"signed", "expired"} /\ tx.status # "expired"
        BY <1>2, <2>1, <2>2 DEF ShapeInv, TxOK, Accepted, NoTx
      <3> QED
        BY <2>1, <2>2, <3>1, <3>2, <3>3 DEF Sending
    <2>3. CASE \E state \in Preflights : ~Accepted(state)
                 /\ Returned(FALSE, FALSE, FALSE)
      BY <1>4, <2>1, <2>3
    <2>4. CASE Fault /\ Returned(FALSE, FALSE, FALSE)
      BY <1>4, <1>5, <2>1, <2>4
    <2>5. CASE /\ Fault
               /\ \E state \in Preflights : Accepted(state)
               /\ Returned(FALSE, FALSE, TRUE)
      BY <1>4, <1>5, <2>1, <2>5
    <2> QED
      BY <1>9, <2>2, <2>3, <2>4, <2>5 DEF SendAndConfirm
  <1>10. ASSUME Spin PROVE Went
    <2>1. cli.pc = "spin" /\ cli.pc \in Ways
      BY <1>10 DEF Spin, Ways
    <2>2. CASE /\ tx.status \in {"ok", "failed", "expired"}
               /\ Returned(tx.status = "ok", FALSE, FALSE)
      BY <1>4, <2>1, <2>2
    <2>3. CASE Fault /\ Returned(FALSE, FALSE, tx.status = "sent")
      BY <1>4, <1>5, <2>1, <2>3
    <2> QED
      BY <1>10, <2>2, <2>3 DEF Spin
  <1>11. ASSUME Simulate PROVE Went
    <2>1. cli.pc = "simulate" /\ cli.pc \in Ways
      BY <1>11 DEF Simulate, Ways
    <2>2. CASE cli' = [cli EXCEPT !.pc = "loop"] /\ UNCHANGED <<tx, orphans, last>>
      <3>1. CliNow("loop", cli.queue, cli.batch, cli.accepted, cli.expired)
        BY <1>3, <2>2 DEF CliNow, Form
      <3>2. "loop" \in WaysOf(cli.command)
        BY <1>3, <2>1 DEF Running, WaysOf, Closing
      <3>3. tx' = [tx EXCEPT !.status = tx.status]
        BY <1>6, <2>1, <2>2
      <3> QED
        BY <2>1, <2>2, <3>1, <3>2, <3>3 DEF Sending
    <2>3. CASE Returned(FALSE, FALSE, FALSE)
      BY <1>4, <2>1, <2>3
    <2> QED
      BY <1>11, <2>2, <2>3 DEF Simulate
  <1>12. ASSUME SendLoop PROVE Went
    <2>1. cli.pc = "loop" /\ cli.pc \in Ways
      BY <1>12 DEF SendLoop, Ways
    <2>2. CASE Returned(TRUE, TRUE, FALSE)
      BY <1>4, <2>1, <2>2
    <2>3. CASE /\ tx' = [tx EXCEPT !.status = IF @ = "signed" THEN "sent" ELSE @]
               /\ cli' = [cli EXCEPT !.pc = "confirm"]
               /\ UNCHANGED <<orphans, last>>
      <3>1. CliNow("confirm", cli.queue, cli.batch, cli.accepted, cli.expired)
        BY <1>3, <2>3 DEF CliNow, Form
      <3>2. "confirm" \in WaysOf(cli.command)
        BY <1>3, <2>1 DEF Running, WaysOf, Closing
      <3>3. tx' = [tx EXCEPT !.status = IF tx.status = "signed" THEN "sent"
                                                                ELSE tx.status]
        BY <1>6, <2>1, <2>3
      <3> QED
        BY <2>1, <2>3, <3>1, <3>2, <3>3 DEF Sending
    <2>4. CASE Fault /\ Returned(FALSE, FALSE, tx.status = "sent")
      BY <1>4, <1>5, <2>1, <2>4
    <2> QED
      BY <1>12, <2>2, <2>3, <2>4 DEF SendLoop
  <1>13. ASSUME Confirm PROVE Went
    <2>1. cli.pc = "confirm" /\ cli.pc \in Ways
      BY <1>13 DEF Confirm, Ways
    <2>2. CASE tx.status = "ok" /\ Returned(TRUE, FALSE, FALSE)
      BY <1>4, <2>1, <2>2
    <2>3. CASE cli' = [cli EXCEPT !.pc = "loop"] /\ UNCHANGED <<tx, orphans, last>>
      <3>1. CliNow("loop", cli.queue, cli.batch, cli.accepted, cli.expired)
        BY <1>3, <2>3 DEF CliNow, Form
      <3>2. "loop" \in WaysOf(cli.command)
        BY <1>3, <2>1 DEF Running, WaysOf, Closing
      <3>3. tx' = [tx EXCEPT !.status = tx.status]
        BY <1>6, <2>1, <2>3
      <3> QED
        BY <2>1, <2>3, <3>1, <3>2, <3>3 DEF Sending
    <2>4. CASE Fault /\ Returned(FALSE, FALSE, tx.status = "sent")
      BY <1>4, <1>5, <2>1, <2>4
    <2> QED
      BY <1>13, <2>2, <2>3, <2>4 DEF Confirm
  <1> HIDE DEF Back
  <1>14. Went
    BY <1>7, <1>8, <1>9, <1>10, <1>11, <1>12, <1>13
  <1> QED
    BY <1>1, <1>2, <1>14 DEF Move, Back

\* Every step of a command is one of these.
LEMMA Moves ==
    ASSUME ShapeInv, CliStep
    PROVE  Move
  BY InspectMoves, SendMoves DEF CliStep

LEMMA Interrupts ==
    ASSUME Interrupt
    PROVE  Move
  <1>1. cli # Idle
    BY DEF Interrupt, Idle
  <1>2. Panicking
    BY DEF Interrupt, Panic, End, Panicking, Ended
  <1> QED
    BY <1>1, <1>2 DEF Interrupt, Move, Quiet, FaultStep

-----------------------------------------------------------------------------
(* The shape is kept. *)

\* What a command that goes on looks like.
Goes(pc, queue, batch, accepted, expired) ==
    /\ cli' # Idle
    /\ Running(cli')
    /\ cli'.pc = pc /\ cli'.queue = queue /\ cli'.batch = batch
    /\ cli'.accepted = accepted /\ cli'.expired = expired
    /\ cli'.command = cli.command /\ cli'.keypair = cli.keypair
    /\ cli'.value = cli.value /\ cli'.bs58 = cli.bs58
    /\ cli'.trees = cli.trees /\ cli'.before = cli.before

LEMMA GoesOn ==
    ASSUME Running(cli), NEW pc \in WaysOf(cli.command) \cup {"next"}, NEW queue,
           IF cli.command = Closing THEN queue \in Seq(1..ClaimStatuses)
                                    ELSE queue \in Seq(Versions),
           NEW batch \in Seq(1..ClaimStatuses), NEW accepted,
           NEW expired \in BOOLEAN,
           CliNow(pc, queue, batch, accepted, expired)
    PROVE  Goes(pc, queue, batch, accepted, expired)
  <1>1. pc # "idle"
    BY DEF WaysOf
  <1>2. cli' # Idle
    BY <1>1 DEF CliNow, Idle
  <1>3. /\ cli'.pc = pc /\ cli'.queue = queue /\ cli'.batch = batch
        /\ cli'.accepted = accepted /\ cli'.expired = expired
        /\ cli'.command = cli.command /\ cli'.keypair = cli.keypair
        /\ cli'.value = cli.value /\ cli'.bs58 = cli.bs58
        /\ cli'.trees = cli.trees /\ cli'.before = cli.before
        /\ cli' = Form(cli')
    BY DEF CliNow, Form
  <1>4. Running(cli')
    BY <1>3 DEF Running
  <1> QED
    BY <1>2, <1>3, <1>4 DEF Goes

\* What is sent and left is a transaction like the others.
LEMMA OrphansGrow ==
    ASSUME orphans \in Seq(Bodies), TxOK
    PROVE  /\ InFlight \in Seq(Bodies)
           /\ cli # Idle /\ cli.pc \in Ways =>
                 /\ tx.body \in Bodies
                 /\ Append(orphans, tx.body) \in Seq(Bodies)
                 /\ OwnTx(cli, tx.body)
                 /\ tx = [status |-> tx.status, body |-> tx.body]
  <1>1. cli # Idle /\ cli.pc \in Ways => tx.body \in Bodies
    BY DEF TxOK, Ways
  <1>2. tx.status = "sent" => tx.body \in Bodies
    BY DEF TxOK, NoTx
  <1>3. cli # Idle /\ cli.pc \in Ways =>
            tx = [status |-> tx.status, body |-> tx.body] /\ OwnTx(cli, tx.body)
    BY DEF TxOK, Ways
  <1> QED
    BY <1>1, <1>2, <1>3, Appends DEF InFlight

\* The signed transaction is the command's own.
LEMMA Signs ==
    ASSUME Running(cli), NEW way, NEW version, NEW value \in Values,
           cli.command \in Setters \cup {"set_enable_slot_by_time"} =>
              value = cli.value,
           IF cli.command = Closing
           THEN /\ version = Absent /\ value = cli'.batch
                /\ value \in Seq(1..ClaimStatuses)
           ELSE /\ version \in Versions /\ cli'.queue # <<>>
                /\ version = Head(cli'.queue),
           cli'.command = cli.command, cli'.keypair = cli.keypair,
           cli'.value = cli.value,
           Signed(version, value)
    PROVE  /\ tx' = [status |-> "signed", body |-> tx'.body]
           /\ tx'.status = "signed"
           /\ tx'.body \in Bodies
           /\ OwnTx(cli', tx'.body)
  <1> DEFINE body == [kind |-> KindOf(cli.command), version |-> version,
                      signer |-> cli.keypair, value |-> value]
  <1>1. tx'.body = body /\ tx'.status = "signed"
        /\ tx' = [status |-> "signed", body |-> tx'.body]
    BY DEF Signed
  <1>2. body \in Body
    <2>1. KindOf(cli.command) \in Kinds
      BY DEF Running, KindOf, Kinds, Commands, Setters
    <2> QED
      BY <2>1 DEF Body, Running
  <1>3. body \in Bodies
    BY <1>2 DEF Bodies, Running, KindOf, Closing, Setters
  <1>4. OwnTx(cli', body)
    BY DEF OwnTx, KindOf
  <1> HIDE DEF body
  <1> QED
    BY <1>1, <1>3, <1>4

\* A transaction that sets a field of a distributor.
FieldSet(t) == IF t.kind = "clawback" THEN "clawed_back" ELSE FieldOf[t.kind]
ValueSet(t) == IF t.kind = "clawback" THEN TRUE ELSE t.value
After(t, d) == [d EXCEPT ![FieldSet(t)] = ValueSet(t)]

LEMMA Sets ==
    ASSUME NEW state, ChainOK(state), NEW t \in Bodies, Succeeds(t, state),
           t.kind \in Setters \cup {"clawback"}
    PROVE  /\ t.version \in Versions
           /\ state.dist[t.version] \in Distributor
           /\ After(t, state.dist[t.version]) \in Distributor
           /\ Effect(t, state) =
                 [dist |-> [state.dist EXCEPT ![t.version] =
                              After(t, state.dist[t.version])],
                  statuses |-> state.statuses]
  <1> DEFINE v == t.version
             d == state.dist[v]
             next == Effect(t, state)
             field == FieldOf[t.kind]
  <1>1. /\ state = [dist |-> state.dist, statuses |-> state.statuses]
        /\ state.dist \in [Versions -> Distributor \cup {Absent}]
    BY DEF ChainOK
  <1>2. t.kind # Closing /\ t.kind # "close_claim_status"
    BY DEF Closing, Setters
  <1>3. v \in Versions /\ d \in Distributor
    BY <1>1, <1>2 DEF Bodies, Succeeds
  <1>4. CASE t.kind = "clawback"
    <2>1. next = [state EXCEPT !.dist[v].clawed_back = TRUE]
      BY <1>4 DEF Effect, Setters
    <2>2. [d EXCEPT !.clawed_back = TRUE] \in Distributor
      BY <1>3 DEF Distributor
    <2> HIDE DEF next
    <2>3. next = [dist |-> [state.dist EXCEPT ![v] = [d EXCEPT !.clawed_back = TRUE]],
                  statuses |-> state.statuses]
      BY <1>1, <1>3, <2>1
    <2>4. After(t, d) = [d EXCEPT !.clawed_back = TRUE]
      BY <1>4 DEF After, FieldSet, ValueSet
    <2> QED
      BY <1>3, <2>2, <2>3, <2>4 DEF next
  <1>5. CASE t.kind # "clawback"
    <2>1. next = [state EXCEPT !.dist[v][field] = t.value]
      BY <1>5 DEF Effect, Setters
    <2>2. [d EXCEPT ![field] = t.value] \in Distributor
      <3>1. CASE t.kind = "set_admin"
        BY <1>3, <3>1 DEF FieldOf, Distributor, Bodies
      <3>2. CASE t.kind = "set_clawback_receiver"
        <4>1. t.value \in TokenAccounts
          BY <1>2, <3>2 DEF Succeeds
        <4> QED
          BY <1>3, <3>2, <4>1 DEF FieldOf, Distributor
      <3>3. CASE t.kind = "set_clawback_start_ts"
        BY <1>3, <3>3 DEF FieldOf, Distributor, Bodies
      <3>4. CASE t.kind = "set_enable_slot"
        BY <1>3, <3>4 DEF FieldOf, Distributor, Bodies
      <3> QED
        BY <1>5, <3>1, <3>2, <3>3, <3>4 DEF Setters
    <2> HIDE DEF next
    <2>4. After(t, d) = [d EXCEPT ![field] = t.value]
      BY <1>5 DEF After, FieldSet, ValueSet
    <2> HIDE DEF field
    <2>3. next = [dist |-> [state.dist EXCEPT ![v] = [d EXCEPT ![field] = t.value]],
                  statuses |-> state.statuses]
      BY <1>1, <1>3, <2>1
    <2> QED
      BY <1>3, <2>2, <2>3, <2>4 DEF next
  <1> QED
    BY <1>4, <1>5

LEMMA EffectOK ==
    ASSUME NEW state, ChainOK(state), NEW t \in Bodies, Succeeds(t, state)
    PROVE  ChainOK(Effect(t, state))
  <1>1. /\ state = [dist |-> state.dist, statuses |-> state.statuses]
        /\ state.dist \in [Versions -> Distributor \cup {Absent}]
        /\ state.statuses \in [1..ClaimStatuses -> Wallets \cup {Absent}]
    BY DEF ChainOK
  <1> DEFINE next == Effect(t, state)
  <1>2. CASE t.kind = Closing
    <2> DEFINE after == [s \in 1..ClaimStatuses |->
                           IF s \in ToSet(t.value) THEN Absent
                                                   ELSE state.statuses[s]]
    <2>1. next = [state EXCEPT !.statuses = after]
      BY <1>1, <1>2 DEF Effect, Closing, Setters
    <2>2. after \in [1..ClaimStatuses -> Wallets \cup {Absent}]
      BY <1>1
    <2> HIDE DEF after
    <2>3. next = [dist |-> state.dist, statuses |-> after]
      BY <1>1, <2>1
    <2> QED
      BY <1>1, <2>2, <2>3 DEF ChainOK
  <1>3. CASE t.kind = "close_distributor"
    <2>1. next = [state EXCEPT !.dist[t.version] = Absent]
      BY <1>3 DEF Effect, Setters
    <2> DEFINE dist == [state.dist EXCEPT ![t.version] = Absent]
    <2>2. next = [dist |-> dist, statuses |-> state.statuses]
      BY <1>1, <2>1
    <2>3. dist \in [Versions -> Distributor \cup {Absent}]
      BY <1>1
    <2> HIDE DEF dist, next
    <2>4. next.dist = dist /\ next.statuses = state.statuses
      BY <2>2
    <2>5. ChainOK(next)
      BY <1>1, <2>2, <2>3, <2>4 DEF ChainOK
    <2> QED
      BY <2>5 DEF next
  <1>4. CASE t.kind \in Setters \cup {"clawback"}
    <2> DEFINE e == After(t, state.dist[t.version])
    <2>1. /\ t.version \in Versions /\ e \in Distributor
          /\ next = [dist |-> [state.dist EXCEPT ![t.version] = e],
                     statuses |-> state.statuses]
      BY <1>4, Sets
    <2> HIDE DEF e, next
    <2> DEFINE dist == [state.dist EXCEPT ![t.version] = e]
    <2>2. dist \in [Versions -> Distributor \cup {Absent}]
      BY <1>1, <2>1
    <2>3. next = [dist |-> dist, statuses |-> state.statuses]
      BY <2>1
    <2> HIDE DEF dist
    <2>4. next.dist = dist /\ next.statuses = state.statuses
      BY <2>3
    <2>5. ChainOK(next)
      BY <1>1, <2>2, <2>3, <2>4 DEF ChainOK
    <2> QED
      BY <2>5 DEF next
  <1> QED
    BY <1>2, <1>3, <1>4 DEF Bodies, Body, Kinds, Commands, Closing

\* The moves of a command keep the shape.
LEMMA MoveShapes ==
    ASSUME ShapeInv, Move
    PROVE  ShapeInv'
  <1>1. /\ Running(cli) /\ cli # Idle
        /\ cli.command = Closing /\ cli.pc \in Ways =>
              IF cli.pc = "submit" THEN Len(cli.batch) >= BatchSize
                                   ELSE cli.queue = <<>>
    BY DEF ShapeInv, Move, CliOK
  <1>2. /\ IF cli.command = Closing THEN cli.queue \in Seq(1..ClaimStatuses)
                                    ELSE cli.queue \in Seq(Versions)
        /\ cli.batch \in Seq(1..ClaimStatuses)
        /\ cli.expired \in BOOLEAN
    BY <1>1 DEF Running
  <1>3. cli.queue # <<>> =>
           IF cli.command = Closing
           THEN /\ Tail(cli.queue) \in Seq(1..ClaimStatuses)
                /\ Head(cli.queue) \in 1..ClaimStatuses
           ELSE Tail(cli.queue) \in Seq(Versions) /\ Head(cli.queue) \in Versions
    BY <1>2, Splits
  <1>4. orphans \in Seq(Bodies) /\ TxOK
        /\ last.result \in {"none", "done", "panicked"}
    BY DEF ShapeInv
  <1>5. /\ InFlight \in Seq(Bodies)
        /\ cli.pc \in Ways =>
              /\ tx.body \in Bodies
              /\ Append(orphans, tx.body) \in Seq(Bodies)
              /\ OwnTx(cli, tx.body)
              /\ tx = [status |-> tx.status, body |-> tx.body]
    BY <1>1, <1>4, OrphansGrow
  <1> DEFINE Kept == CliOK' /\ TxOK' /\ orphans' \in Seq(Bodies)
                     /\ last'.result \in {"none", "done", "panicked"}
  <1>6. ASSUME Kept PROVE ShapeInv'
    <2>1. faults' \in 0..MaxFaults
      BY AdminAssumption DEF ShapeInv, Move, FaultStep, Fault
    <2> QED
      BY <1>6, <2>1 DEF ShapeInv, Move, Quiet, chain, clock
  <1>7. ASSUME NEW result \in {"done", "panicked"}, NEW batch, NEW accepted,
               NEW expired, Ended(result, batch, accepted, expired),
               tx' = NoTx, orphans' \in Seq(Bodies)
        PROVE  Kept
    BY <1>7 DEF Ended, CliOK, TxOK
  <1>8. ASSUME NEW queue, NEW batch \in Seq(1..ClaimStatuses), NEW accepted,
               NEW expired \in BOOLEAN,
               IF cli.command = Closing THEN queue \in Seq(1..ClaimStatuses)
                                        ELSE queue \in Seq(Versions),
               CliNow("next", queue, batch, accepted, expired),
               tx' = NoTx, orphans' \in Seq(Bodies), last' = last
        PROVE  Kept
    <2>1. Goes("next", queue, batch, accepted, expired)
      BY <1>1, <1>8, GoesOn
    <2> QED
      BY <1>4, <1>8, <2>1 DEF Goes, CliOK, TxOK, Ways
  <1>9. cli.pc = "next" => tx = NoTx
    BY <1>1, <1>4 DEF TxOK, Ways
  <1>10. ASSUME Panicking PROVE Kept
    BY <1>5, <1>7, <1>10 DEF Panicking
  <1>11. ASSUME Skipping PROVE Kept
    BY <1>2, <1>3, <1>4, <1>8, <1>9, <1>11 DEF Skipping
  <1>12. ASSUME Signing PROVE Kept
    <2>1. PICK way \in {"simulate", "submit", "send_and_confirm"}, value \in Values :
             /\ way \in WaysOf(cli.command)
             /\ cli.command \in Setters \cup {"set_enable_slot_by_time"} =>
                   value = cli.value
             /\ CliNow(way, cli.queue, cli.batch, cli.accepted, cli.expired)
             /\ Signed(Head(cli.queue), value)
      BY <1>12 DEF Signing
    <2>2. cli.command # Closing /\ cli.queue # <<>> /\ UNCHANGED <<orphans, last>>
      BY <1>12 DEF Signing
    <2>3. Goes(way, cli.queue, cli.batch, cli.accepted, cli.expired)
      BY <1>1, <1>2, <2>1, GoesOn
    <2>4. /\ tx' = [status |-> "signed", body |-> tx'.body]
          /\ tx'.status = "signed"
          /\ tx'.body \in Bodies
          /\ OwnTx(cli', tx'.body)
      BY <1>1, <1>3, <2>1, <2>2, <2>3, Signs DEF Goes
    <2>5. CliOK'
      BY <2>2, <2>3 DEF Goes, CliOK
    <2>6. TxOK'
      BY <2>3, <2>4 DEF Goes, TxOK, Ways
    <2> QED
      BY <1>4, <2>2, <2>5, <2>6
  <1>13. ASSUME cli.command = Closing, NEW way \in {"submit", "send_and_confirm"},
                NEW queue \in Seq(1..ClaimStatuses),
                NEW batch \in Seq(1..ClaimStatuses),
                IF way = "submit" THEN Len(batch) >= BatchSize ELSE queue = <<>>,
                CliNow(way, queue, batch, cli.accepted, cli.expired),
                Signed(Absent, batch), UNCHANGED <<orphans, last>>
         PROVE  Kept
    <2>1. way \in WaysOf(cli.command)
      BY <1>13 DEF WaysOf, Closing
    <2>2. Goes(way, queue, batch, cli.accepted, cli.expired)
      BY <1>1, <1>2, <1>13, <2>1, GoesOn
    <2>3. batch \in Values
      BY DEF Values
    <2>4. cli.command \notin Setters \cup {"set_enable_slot_by_time"}
      BY <1>13 DEF Closing, Setters
    <2>5. /\ tx' = [status |-> "signed", body |-> tx'.body]
          /\ tx'.status = "signed"
          /\ tx'.body \in Bodies
          /\ OwnTx(cli', tx'.body)
      BY <1>1, <1>13, <2>2, <2>3, <2>4, Signs DEF Goes
    <2>6. CliOK'
      BY <1>13, <2>2 DEF Goes, CliOK
    <2>7. TxOK'
      BY <2>2, <2>5 DEF Goes, TxOK, Ways
    <2> QED
      BY <1>4, <1>13, <2>6, <2>7
  <1>14. ASSUME Taking PROVE Kept
    <2> DEFINE batch == Append(cli.batch, Head(cli.queue))
    <2>1. cli.pc = "next" /\ cli.queue # <<>> /\ cli.command = Closing
          /\ UNCHANGED <<orphans, last>>
      BY <1>14 DEF Taking
    <2>2. batch \in Seq(1..ClaimStatuses)
      BY <1>2, <1>3, <2>1, Appends
    <2>3. \/ /\ CliNow("next", Tail(cli.queue), batch, cli.accepted, cli.expired)
             /\ UNCHANGED tx
          \/ /\ Len(batch) >= BatchSize
             /\ CliNow("submit", Tail(cli.queue), batch, cli.accepted, cli.expired)
             /\ Signed(Absent, batch)
      BY <1>14 DEF Taking
    <2> HIDE DEF batch
    <2> QED
      BY <1>2, <1>3, <1>4, <1>8, <1>9, <1>13, <2>1, <2>2, <2>3
  <1>15. ASSUME Finishing PROVE Kept
    BY <1>2, <1>4, <1>7, <1>9, <1>13, <1>15 DEF Finishing
  <1>16. ASSUME Sending PROVE Kept
    <2>1. PICK pc \in WaysOf(cli.command) \cap {"spin", "loop", "confirm"} :
             CliNow(pc, cli.queue, cli.batch, cli.accepted, cli.expired)
      BY <1>16 DEF Sending
    <2>2. PICK status \in {tx.status, "sent"} : tx' = [tx EXCEPT !.status = status]
      BY <1>16 DEF Sending
    <2>3. cli.pc \in Ways /\ cli.pc # "submit" /\ UNCHANGED <<orphans, last>>
      BY <1>16 DEF Sending
    <2>4. Goes(pc, cli.queue, cli.batch, cli.accepted, cli.expired)
      BY <1>1, <1>2, <2>1, GoesOn
    <2>5. /\ tx' = [status |-> status, body |-> tx.body]
          /\ tx'.status = status /\ tx'.body = tx.body
      BY <1>5, <2>2, <2>3
    <2>6. tx'.status \in {"signed", "sent", "ok", "failed", "expired"}
      BY <1>1, <1>4, <2>3, <2>5 DEF TxOK, Ways
    <2>7. OwnTx(cli', tx'.body)
      BY <1>5, <2>3, <2>4, <2>5 DEF OwnTx, Goes
    <2>8. TxOK'
      BY <1>5, <2>3, <2>4, <2>5, <2>6, <2>7 DEF TxOK, Goes, Ways
    <2>9. CliOK'
      BY <1>1, <2>1, <2>3, <2>4 DEF CliOK, Goes
    <2> QED
      BY <1>4, <2>3, <2>8, <2>9
  <1>17. ASSUME NEW ok \in BOOLEAN, NEW expired \in BOOLEAN,
                NEW delivered \in BOOLEAN, Returning(ok, expired, delivered)
         PROVE  Kept
    <2>1. cli.pc \in Ways /\ tx' = NoTx /\ orphans' \in Seq(Bodies)
      BY <1>4, <1>5, <1>17 DEF Returning
    <2>2. cli.command # Closing => cli.queue # <<>>
      BY <1>5, <2>1 DEF OwnTx
    <2>3. Outcome(ok, expired)
      BY <1>17 DEF Returning
    <2>4. ASSUME cli.command \in Setters \cup {"clawback", "set_enable_slot_by_time"},
                 NEW flag \in BOOLEAN,
                 CliNow("next", IF ok THEN Tail(cli.queue) ELSE cli.queue,
                        cli.batch, cli.accepted, flag),
                 UNCHANGED last
          PROVE  Kept
      <3>1. cli.command # Closing
        BY <2>4 DEF Setters, Closing
      <3> QED
        BY <1>2, <1>3, <1>8, <2>1, <2>2, <2>4, <3>1
    <2>5. CASE /\ cli.command = "set_enable_slot_by_time"
               /\ Ended("panicked", cli.batch, cli.accepted, cli.expired)
      BY <1>7, <2>1, <2>5
    <2>6. CASE /\ cli.command = "close_distributor"
               /\ CliNow("next", Tail(cli.queue), cli.batch, cli.accepted,
                         cli.expired)
               /\ UNCHANGED last
      <3>1. cli.command # Closing
        BY <2>6 DEF Closing
      <3> QED
        BY <1>2, <1>3, <1>8, <2>1, <2>2, <2>6, <3>1
    <2> DEFINE batch == IF ok THEN <<>> ELSE cli.batch
               accepted == IF ok THEN cli.accepted \cup ToSet(cli.batch)
                                 ELSE cli.accepted
    <2>10. <<>> \in Seq(1..ClaimStatuses)
      OBVIOUS
    <2>7. batch \in Seq(1..ClaimStatuses)
      BY <1>2, <2>10
    <2>8. CASE /\ cli.command = Closing
               /\ CliNow("next", cli.queue, batch, accepted, cli.expired)
               /\ UNCHANGED last
      <3> HIDE DEF batch, accepted
      <3> QED
        BY <1>2, <1>8, <2>1, <2>7, <2>8
    <2>9. CASE /\ cli.command = Closing
               /\ Ended("done", batch, accepted, cli.expired)
      <3> HIDE DEF batch, accepted
      <3> QED
        BY <1>7, <2>1, <2>9
    <2> QED
      BY <2>3, <2>4, <2>5, <2>6, <2>8, <2>9 DEF Outcome
  <1> QED
    <2> HIDE DEF Kept
    <2> QED
      BY <1>6, <1>10, <1>11, <1>12, <1>14, <1>15, <1>16, <1>17 DEF Move

\* A command starts with all its work ahead.
Listed == {s \in 1..ClaimStatuses : finalized.statuses[s] # Absent}

Beginning ==
    /\ cli = Idle
    /\ cli' # Idle
    /\ Running(cli')
    /\ cli'.pc = "next" /\ cli'.queue = cli'.trees /\ cli'.batch = <<>>
    /\ cli'.accepted = {} /\ cli'.expired = FALSE /\ cli'.before = faults
    /\ cli'.command = Closing => cli'.trees = SetToSeq(Listed)
    /\ last' = [result |-> "none"]
    /\ hasty' = (hasty \/ ~Settled)
    /\ UNCHANGED <<scenario, chain, clock, tx, orphans, faults>>

LEMMA Begins ==
    ASSUME ShapeInv, Begin
    PROVE  Beginning
  <1>1. PICK keypair \in scenario.keypairs :
          \/ \E bs58 \in BOOLEAN : StartSetter(keypair, bs58)
          \/ StartSetEnableSlotByTime(keypair)
          \/ Start("clawback", keypair, Absent, FALSE, scenario.folder, Absent)
          \/ \E trees \in Trees :
                Start("close_distributor", keypair, Absent, FALSE, trees, Absent)
          \/ StartCloseClaimStatus(keypair)
    BY DEF Begin
  <1>2. keypair \in Wallets /\ scenario.folder \in Seq(Versions)
    BY DEF ShapeInv, Scenario
  <1>3. \A trees \in Trees : trees \in Seq(Versions)
    <2>1. ASSUME NEW v \in ToSet(scenario.folder) PROVE <<v>> \in Seq(Versions)
      <3>1. v \in Versions
        BY <1>2 DEF ToSet
      <3> QED
        BY <3>1
    <2> QED
      BY <1>2, <2>1 DEF Trees
  <1>4. ASSUME NEW command \in Commands, NEW value, NEW bs58 \in BOOLEAN,
               NEW trees, NEW estimate,
               IF command = Closing
               THEN trees \in Seq(1..ClaimStatuses) /\ trees = SetToSeq(Listed)
               ELSE trees \in Seq(Versions),
               command = "set_admin" => value \in Wallets,
               command = "set_clawback_receiver" => value \in Receivers,
               command \in {"set_clawback_start_ts", "set_enable_slot",
                            "set_enable_slot_by_time"} => value \in Nat,
               Start(command, keypair, value, bs58, trees, estimate)
        PROVE  Beginning
    <2>1. cli = Idle
      BY <1>4 DEF ShapeInv, CliOK, Running, WaysOf, Start
    <2>2. cli' = [pc |-> "next", command |-> command, keypair |-> keypair,
                  value |-> value, bs58 |-> bs58, trees |-> trees,
                  queue |-> trees, batch |-> <<>>, accepted |-> {},
                  expired |-> FALSE, before |-> faults, estimate |-> estimate]
      BY <1>4 DEF Start
    <2>3. /\ cli'.pc = "next" /\ cli'.command = command
          /\ cli'.keypair = keypair /\ cli'.value = value /\ cli'.bs58 = bs58
          /\ cli'.trees = trees /\ cli'.queue = trees /\ cli'.batch = <<>>
          /\ cli'.accepted = {} /\ cli'.expired = FALSE /\ cli'.before = faults
          /\ cli' = Form(cli')
      BY <2>2 DEF Form
    <2>4. cli' # Idle
      BY <2>3 DEF Idle
    <2>5. <<>> \in Seq(1..ClaimStatuses) /\ faults \in Nat
      BY AdminAssumption DEF ShapeInv
    <2>6. Running(cli')
      BY <1>2, <1>4, <2>3, <2>5 DEF Running
    <2>7. /\ last' = [result |-> "none"]
          /\ hasty' = (hasty \/ ~Settled)
          /\ UNCHANGED <<scenario, chain, clock, tx, orphans, faults>>
      BY <1>4 DEF Start
    <2> QED
      BY <1>4, <2>1, <2>3, <2>4, <2>6, <2>7 DEF Beginning
  <1>5. ASSUME NEW bs58 \in BOOLEAN, StartSetter(keypair, bs58) PROVE Beginning
    <2>1. ASSUME NEW a \in Wallets,
                 Start("set_admin", keypair, a, bs58, scenario.folder, Absent)
          PROVE  Beginning
      BY <1>2, <1>4, <2>1 DEF Commands, Setters, Closing
    <2>2. ASSUME NEW a \in Receivers,
                 Start("set_clawback_receiver", keypair, a, bs58, scenario.folder,
                       Absent)
          PROVE  Beginning
      BY <1>2, <1>4, <2>2 DEF Commands, Setters, Closing
    <2>3. ASSUME NEW ts \in Timestamps, NEW trees \in Trees,
                 Start("set_clawback_start_ts", keypair, ts, bs58, trees, Absent)
          PROVE  Beginning
      <3>1. ts \in Nat /\ trees \in Seq(Versions)
        BY <1>3, AdminAssumption
      <3> QED
        BY <1>4, <2>3, <3>1 DEF Commands, Setters, Closing
    <2>4. ASSUME NEW s \in EnableSlots, NEW trees \in Trees,
                 Start("set_enable_slot", keypair, s, bs58, trees, Absent)
          PROVE  Beginning
      <3>1. s \in Nat /\ trees \in Seq(Versions)
        BY <1>3, AdminAssumption
      <3> QED
        BY <1>4, <2>4, <3>1 DEF Commands, Setters, Closing
    <2> QED
      BY <1>5, <2>1, <2>2, <2>3, <2>4 DEF StartSetter
  <1>6. ASSUME StartSetEnableSlotByTime(keypair) PROVE Beginning
    <2>1. PICK time \in EnableTimes, samples \in SampleLists, trees \in Trees :
            /\ ~SlotPanics(time, now, slot, AverageSlotTime(samples))
            /\ Start("set_enable_slot_by_time", keypair,
                     SlotFor(time, now, slot, AverageSlotTime(samples)), FALSE,
                     trees, [time |-> time, now |-> now, slot |-> slot,
                             average |-> AverageSlotTime(samples)])
      BY <1>6 DEF StartSetEnableSlotByTime
    <2> DEFINE chosen == SlotFor(time, now, slot, AverageSlotTime(samples))
               estimate == [time |-> time, now |-> now, slot |-> slot,
                            average |-> AverageSlotTime(samples)]
    <2>2. chosen \in Nat
      <3>1. chosen \in 0..MaxU64
        BY <2>1 DEF SlotPanics
      <3> HIDE DEF chosen
      <3> QED
        BY <3>1, SlotTimeAssumption
    <2>3. trees \in Seq(Versions)
      BY <1>3
    <2>4. Start("set_enable_slot_by_time", keypair, chosen, FALSE, trees, estimate)
      BY <2>1
    <2> HIDE DEF chosen, estimate
    <2> QED
      BY <1>4, <2>2, <2>3, <2>4 DEF Commands, Setters, Closing
  <1>7. ASSUME Start("clawback", keypair, Absent, FALSE, scenario.folder, Absent)
        PROVE  Beginning
    BY <1>2, <1>4, <1>7 DEF Commands, Setters, Closing
  <1>8. ASSUME NEW trees \in Trees,
               Start("close_distributor", keypair, Absent, FALSE, trees, Absent)
        PROVE  Beginning
    BY <1>3, <1>4, <1>8 DEF Commands, Setters, Closing
  <1>9. ASSUME StartCloseClaimStatus(keypair) PROVE Beginning
    <2>1. Listed \subseteq 1..ClaimStatuses /\ IsFiniteSet(Listed)
      <3>1. Listed \subseteq 1..ClaimStatuses
        BY DEF Listed
      <3>2. IsFiniteSet(1..ClaimStatuses)
        BY AdminAssumption, FS_Interval
      <3> QED
        BY <3>1, <3>2, FS_Subset
    <2>2. SetToSeq(Listed) \in Seq(Listed)
      BY <2>1, Lists
    <2> DEFINE list == SetToSeq(Listed)
    <2>3. Start(Closing, keypair, Absent, FALSE, list, Absent)
      BY <1>9 DEF StartCloseClaimStatus, Listed, Closing
    <2> HIDE DEF list
    <2>4. list \in Seq(1..ClaimStatuses)
      BY <2>1, <2>2, Widens DEF list
    <2>5. list = SetToSeq(Listed)
      BY DEF list
    <2>6. Closing \in Commands \ ({"set_admin", "set_clawback_receiver",
             "set_clawback_start_ts", "set_enable_slot", "set_enable_slot_by_time"})
      BY DEF Commands, Closing
    <2> QED
      BY <1>4, <2>3, <2>4, <2>5, <2>6
  <1> QED
    BY <1>1, <1>5, <1>6, <1>7, <1>8, <1>9

\* The invariant that every step keeps.
THEOREM AdminShape == Spec => []ShapeInv
  <1>1. Init => ShapeInv
    <2> SUFFICES ASSUME Init PROVE ShapeInv
      OBVIOUS
    <2>1. scenario \in Scenario
      BY AdminAssumption DEF Init
    <2>2. ChainOK(processed) /\ ChainOK(finalized)
      BY <2>1 DEF Init, ChainOK, Scenario
    <2>3. CliOK /\ TxOK
      BY DEF Init, CliOK, TxOK
    <2>4. <<>> \in Seq(Bodies)
      OBVIOUS
    <2> QED
      BY <2>1, <2>2, <2>3, <2>4, AdminAssumption, SlotTimeAssumption
      DEF Init, ShapeInv
  <1>2. ShapeInv /\ [Next]_vars => ShapeInv'
    <2> SUFFICES ASSUME ShapeInv, [Next]_vars PROVE ShapeInv'
      OBVIOUS
    <2>1. CASE Begin
      <3>1. Beginning
        BY <2>1, Begins
      <3>2. CliOK' /\ TxOK'
        BY <3>1 DEF Beginning, CliOK, ShapeInv, TxOK, Ways
      <3> QED
        BY <3>1, <3>2 DEF Beginning, ShapeInv, chain, clock
    <2>2. CASE CliStep
      BY <2>2, Moves, MoveShapes
    <2>3. CASE Interrupt
      BY <2>3, Interrupts, MoveShapes
    <2>4. CASE Land
      <3>1. tx = [status |-> tx.status, body |-> tx.body] /\ tx.body \in Bodies
        BY <2>4 DEF Land, ShapeInv, TxOK, NoTx
      <3>2. ChainOK(processed')
        BY <2>4, <3>1, EffectOK DEF Land, ShapeInv
      <3>3. \E status \in {"ok", "failed"} : tx' = [tx EXCEPT !.status = status]
        BY <2>4 DEF Land
      <3>4. tx' = [status |-> tx'.status, body |-> tx'.body]
            /\ tx'.body = tx.body /\ tx'.status \in {"ok", "failed"}
        BY <3>1, <3>3
      <3>5. cli' = cli /\ cli # Idle /\ cli.pc \notin {"submit", "send_and_confirm", "simulate"}
        BY <2>4 DEF Land, ShapeInv, TxOK, NoTx
      <3>6. TxOK'
        BY <2>4, <3>1, <3>4, <3>5 DEF ShapeInv, TxOK, OwnTx, Land, NoTx
      <3>7. CliOK'
        BY <3>5 DEF ShapeInv, CliOK
      <3> QED
        BY <2>4, <3>2, <3>6, <3>7 DEF Land, ShapeInv, clock
    <2>5. ASSUME NEW i \in DOMAIN orphans, LandOrphan(i) PROVE ShapeInv'
      <3>1. orphans \in Seq(Bodies) /\ orphans[i] \in Bodies
        BY DEF ShapeInv
      <3>2. ChainOK(processed')
        BY <2>5, <3>1, EffectOK DEF LandOrphan, ShapeInv
      <3>3. orphans' \in Seq(Bodies)
        BY <2>5, <3>1, Removes DEF LandOrphan
      <3>4. TxOK' /\ CliOK'
        BY <2>5 DEF LandOrphan, ShapeInv, TxOK, CliOK
      <3> QED
        BY <2>5, <3>2, <3>3, <3>4 DEF LandOrphan, ShapeInv, clock
    <2>6. CASE Expire
      <3>1. orphans' \in Seq(Bodies)
        BY <2>6, Splits DEF Expire, ShapeInv
      <3>2. faults' \in 0..MaxFaults
        BY <2>6, AdminAssumption DEF Expire, Fault, ShapeInv
      <3>3. CliOK'
        BY <2>6 DEF Expire, ShapeInv, CliOK
      <3>4. TxOK'
        <4>1. CASE tx' = tx
          BY <2>6, <4>1 DEF Expire, ShapeInv, TxOK
        <4>2. CASE tx' # tx
          <5>1. tx.status # "none" /\ tx' = [tx EXCEPT !.status = "expired"]
            BY <2>6, <4>2 DEF Expire
          <5>2. /\ tx = [status |-> tx.status, body |-> tx.body]
                /\ tx.body \in Bodies /\ cli # Idle /\ cli.pc \in Ways
                /\ OwnTx(cli, tx.body)
            BY <5>1 DEF ShapeInv, TxOK, NoTx
          <5>3. tx' = [status |-> tx'.status, body |-> tx'.body]
                /\ tx'.body = tx.body /\ tx'.status = "expired"
            BY <5>1, <5>2
          <5> QED
            BY <2>6, <5>2, <5>3 DEF Expire, TxOK
        <4> QED
          BY <4>1, <4>2
      <3> QED
        BY <2>6, <3>1, <3>2, <3>3, <3>4 DEF Expire, ShapeInv, chain, clock
    <2>7. CASE Finalize
      BY <2>7 DEF Finalize, ShapeInv, TxOK, CliOK, clock
    <2>8. CASE Tick
      <3>1. now' \in Nat /\ slot' \in 0..MaxU64
        BY <2>8, AdminAssumption, SlotTimeAssumption DEF Tick, ShapeInv
      <3> QED
        BY <2>8, <3>1 DEF Tick, ShapeInv, TxOK, CliOK, chain
    <2>9. CASE UNCHANGED vars
      BY <2>9 DEF vars, chain, clock, ShapeInv, TxOK, CliOK
    <2> QED
      BY <2>1, <2>2, <2>3, <2>4, <2>5, <2>6, <2>7, <2>8, <2>9 DEF Next
  <1> QED
    BY <1>1, <1>2, PTL DEF Spec

\* The command line's records are well formed, and a command holds a
\* transaction exactly while it is sending one.
THEOREM AdminTypes == Spec => []TypeOK
  <1>1. ShapeInv => TypeOK
    <2> SUFFICES ASSUME ShapeInv PROVE TypeOK
      OBVIOUS
    <2>1. cli.pc \in Ways \cup {"idle", "next"}
      BY DEF ShapeInv, CliOK, Running, WaysOf, Ways, Idle
    <2>2. /\ tx.status \in {"none", "signed", "sent", "ok", "failed", "expired"}
          /\ (tx.status = "none") <=> (cli.pc \in {"idle", "next"})
      BY <2>1 DEF ShapeInv, TxOK, NoTx, Ways, Idle
    <2> QED
      BY <2>1, <2>2 DEF ShapeInv, ChainOK, TypeOK, Ways
  <1> QED
    BY <1>1, AdminShape, PTL

-----------------------------------------------------------------------------
(* close-claim-status passes no claim status over. *)

\* Each listed claim status was accepted, is in the batch or still ahead.
DropInv ==
    /\ cli # Idle /\ cli.command = Closing =>
          ToSet(cli.trees) \subseteq
             cli.accepted \cup ToSet(cli.batch) \cup ToSet(cli.queue)
    /\ NothingDropped

LEMMA NoElements == ToSet(<<>>) = {}
  BY DEF ToSet

LEMMA MoveDropsNothing ==
    ASSUME ShapeInv, DropInv, Move
    PROVE  DropInv'
  <1>1. /\ Running(cli) /\ cli # Idle
        /\ cli.command = Closing /\ cli.pc \in Ways =>
              IF cli.pc = "submit" THEN Len(cli.batch) >= BatchSize
                                   ELSE cli.queue = <<>>
    BY DEF ShapeInv, Move, CliOK
  <1>2. /\ cli.command = Closing => cli.queue \in Seq(1..ClaimStatuses)
        /\ cli.batch \in Seq(1..ClaimStatuses)
    BY <1>1 DEF Running
  <1>3. cli.command = Closing =>
           ToSet(cli.trees) \subseteq
              cli.accepted \cup ToSet(cli.batch) \cup ToSet(cli.queue)
    BY <1>1 DEF DropInv
  <1>4. ASSUME NEW result, NEW batch, NEW accepted, NEW expired,
               Ended(result, batch, accepted, expired),
               cli.command = Closing /\ result = "done" =>
                  ToSet(cli.trees) \subseteq accepted \cup ToSet(batch)
        PROVE  DropInv'
    <2>1. /\ cli' = Idle /\ last'.command = cli.command /\ last'.trees = cli.trees
          /\ last'.accepted = accepted /\ last'.batch = batch
          /\ last'.result = result
      BY <1>4 DEF Ended
    <2> QED
      BY <1>4, <2>1 DEF DropInv, NothingDropped, Closing
  <1>5. ASSUME NEW pc, NEW queue, NEW batch, NEW accepted, NEW expired,
               CliNow(pc, queue, batch, accepted, expired), UNCHANGED last,
               cli.command = Closing =>
                  ToSet(cli.trees) \subseteq
                     accepted \cup ToSet(batch) \cup ToSet(queue)
        PROVE  DropInv'
    <2>1. /\ cli'.command = cli.command /\ cli'.trees = cli.trees
          /\ cli'.accepted = accepted /\ cli'.batch = batch /\ cli'.queue = queue
      BY <1>5 DEF CliNow
    <2> QED
      BY <1>5, <2>1 DEF DropInv, NothingDropped
  <1>6. ASSUME Panicking PROVE DropInv'
    BY <1>4, <1>6 DEF Panicking
  <1>7. ASSUME Skipping PROVE DropInv'
    BY <1>5, <1>7 DEF Skipping
  <1>8. ASSUME Signing PROVE DropInv'
    BY <1>5, <1>8 DEF Signing
  <1>9. ASSUME Taking PROVE DropInv'
    <2> DEFINE batch == Append(cli.batch, Head(cli.queue))
    <2>1. cli.command = Closing /\ cli.queue # <<>> /\ UNCHANGED last
      BY <1>9 DEF Taking
    <2>2. ToSet(cli.queue) = {Head(cli.queue)} \cup ToSet(Tail(cli.queue))
          /\ Head(cli.queue) \in 1..ClaimStatuses
      BY <1>2, <2>1, Splits
    <2>3. ToSet(batch) = ToSet(cli.batch) \cup {Head(cli.queue)}
      <3> DEFINE taken == cli.batch
                 e == Head(cli.queue)
      <3>1. taken \in Seq(1..ClaimStatuses) /\ e \in 1..ClaimStatuses
        BY <1>2, <2>2
      <3> HIDE DEF taken, e
      <3>2. Grown(taken, e, Append(taken, e))
        BY <3>1, Appends
      <3> QED
        BY <3>2 DEF taken, e, Grown
    <2>4. \E pc : CliNow(pc, Tail(cli.queue), batch, cli.accepted, cli.expired)
      BY <1>9 DEF Taking
    <2> HIDE DEF batch
    <2> QED
      BY <1>3, <1>5, <2>1, <2>2, <2>3, <2>4
  <1>10. ASSUME Finishing PROVE DropInv'
    BY <1>3, <1>4, <1>5, <1>10, NoElements DEF Finishing
  <1>11. ASSUME Sending PROVE DropInv'
    BY <1>3, <1>5, <1>11 DEF Sending
  <1>12. ASSUME NEW ok \in BOOLEAN, NEW expired \in BOOLEAN,
                NEW delivered \in BOOLEAN, Returning(ok, expired, delivered)
         PROVE  DropInv'
    <2>1. Outcome(ok, expired) /\ cli.pc \in Ways
      BY <1>12 DEF Returning
    <2>2. CASE cli.command # Closing
      BY <1>4, <1>5, <2>1, <2>2 DEF Outcome
    <2>3. CASE cli.command = Closing
      <3> DEFINE batch == IF ok THEN <<>> ELSE cli.batch
                 accepted == IF ok THEN cli.accepted \cup ToSet(cli.batch)
                                   ELSE cli.accepted
      <3>1. ToSet(cli.trees) \subseteq
               accepted \cup ToSet(batch) \cup ToSet(cli.queue)
        BY <1>3, <2>3
      <3>2. \/ /\ CliNow("next", cli.queue, batch, accepted, cli.expired)
               /\ UNCHANGED last
            \/ /\ cli.pc # "submit"
               /\ Ended("done", batch, accepted, cli.expired)
        BY <2>1, <2>3 DEF Outcome, Setters, Closing
      <3> HIDE DEF batch, accepted
      <3> QED
        BY <1>1, <1>4, <1>5, <2>1, <2>3, <3>1, <3>2, NoElements
    <2> QED
      BY <2>2, <2>3
  <1> QED
    BY <1>6, <1>7, <1>8, <1>9, <1>10, <1>11, <1>12 DEF Move

\* Whatever fails, each listed claim status was in a transaction that a node
\* accepted, or is in the last batch, whose transaction failed.
THEOREM NoneDropped == Spec => []NothingDropped
  <1>1. Init => DropInv
    BY DEF Init, DropInv, NothingDropped
  <1>2. ShapeInv /\ DropInv /\ [Next]_vars => DropInv'
    <2> SUFFICES ASSUME ShapeInv, DropInv, [Next]_vars PROVE DropInv'
      OBVIOUS
    <2>1. CASE Begin
      <3>1. Beginning
        BY <2>1, Begins
      <3> QED
        BY <3>1 DEF Beginning, DropInv, NothingDropped
    <2>2. CASE CliStep
      BY <2>2, Moves, MoveDropsNothing
    <2>3. CASE Interrupt
      BY <2>3, Interrupts, MoveDropsNothing
    <2>4. CASE UNCHANGED <<cli, last>>
      BY <2>4 DEF DropInv, NothingDropped
    <2> QED
      BY <2>1, <2>2, <2>3, <2>4
      DEF Next, vars, Land, LandOrphan, Expire, Finalize, Tick
  <1>3. DropInv => NothingDropped
    BY DEF DropInv
  <1> QED
    BY <1>1, <1>2, <1>3, AdminShape, PTL DEF Spec

-----------------------------------------------------------------------------
(* The setters and clawback leave behind what was asked for. *)

Receiver == "set_clawback_receiver"
Asking == Commands \ {"close_distributor", Closing}

Done(job, state, v) == state.dist[v] # Absent /\ Asks(job, state.dist[v])

\* A transaction of this job.
Own(job, t) ==
    /\ t.kind = KindOf(job.command)
    /\ job.command \in Setters \cup {"set_enable_slot_by_time"} =>
          t.value = job.value

\* A transaction that will set the receiver unless it is set.
Sure(t) ==
    /\ processed.dist[t.version] # Absent
    /\ processed.dist[t.version].admin = t.signer
    /\ t.value \in TokenAccounts

\* set-clawback-receiver only submits: what has left the queue is set, in
\* flight, or was lost by a fault.
Submitted(job, ahead) ==
    /\ \A v \in Versions :
          /\ (processed.dist[v] = Absent) <=> (finalized.dist[v] = Absent)
          /\ processed.dist[v] # Absent =>
                processed.dist[v].admin = finalized.dist[v].admin
    /\ \A i \in DOMAIN orphans : Sure(orphans[i])
    /\ faults = job.before =>
          \A v \in ToSet(job.trees) :
             \/ v \in ahead
             \/ Done(job, processed, v)
             \/ \E i \in DOMAIN orphans : orphans[i].version = v

\* What holds of a job of which these distributors are ahead.
Asked(job, ahead) ==
    /\ ToSet(job.trees) \subseteq Versions
    /\ job.before \in Nat
    /\ job.before <= faults
    /\ \A i \in DOMAIN orphans : Own(job, orphans[i])
    /\ \A v \in Versions : Done(job, finalized, v) => Done(job, processed, v)
    /\ tx.status = "ok" => Done(job, processed, tx.body.version)
    /\ IF job.command = Receiver
       THEN Submitted(job, ahead)
       ELSE ~job.expired =>
               \A v \in ToSet(job.trees) : v \in ahead \/ Done(job, processed, v)

\* The job at hand: a running command, or one that has ended well.
AskInv ==
    ~hasty =>
        /\ cli # Idle /\ cli.command \in Asking /\ ~cli.bs58 =>
              Asked(cli, ToSet(cli.queue))
        /\ cli = Idle /\ last.result = "done" /\ last.command \in Asking
             /\ ~last.bs58 => Asked(last, {})

\* From one state of the chain to a later one.
Progress(job, state, next) ==
    \A v \in Versions :
        /\ Done(job, state, v) => Done(job, next, v)
        /\ (next.dist[v] = Absent) <=> (state.dist[v] = Absent)
        /\ job.command = Receiver /\ state.dist[v] # Absent =>
              next.dist[v].admin = state.dist[v].admin

LEMMA OwnLands ==
    ASSUME NEW job, job.command \in Asking, NEW state, ChainOK(state),
           NEW t \in Bodies, Own(job, t), Succeeds(t, state)
    PROVE  /\ Progress(job, state, Effect(t, state))
           /\ Done(job, Effect(t, state), t.version)
  <1> DEFINE ver == t.version
             d == state.dist[ver]
             e == After(t, d)
             dist == Effect(t, state).dist
  <1>1. t.kind \in Setters \cup {"clawback"}
    BY DEF Own, KindOf, Asking, Commands, Setters, Closing
  <1>2. /\ ver \in Versions /\ d \in Distributor /\ e \in Distributor
        /\ Effect(t, state) = [dist |-> [state.dist EXCEPT ![ver] = e],
                               statuses |-> state.statuses]
    BY <1>1, Sets
  <1>3. dist = [state.dist EXCEPT ![ver] = e]
    BY <1>2
  <1>4. state.dist \in [Versions -> Distributor \cup {Absent}]
        /\ Absent \notin Distributor
    BY AdminAssumption DEF ChainOK
  <1>5. /\ Asks(job, e)
        /\ job.command = Receiver => e.admin = d.admin
    <2> DEFINE fields == {"admin", "clawback_receiver", "clawback_start_ts",
                          "enable_slot", "clawed_back", "closable"}
    <2>7. DOMAIN d = fields
      BY <1>2 DEF Distributor
    <2>8. ASSUME NEW field \in fields, FieldSet(t) = field
          PROVE  /\ e[field] = ValueSet(t)
                 /\ \A f \in fields \ {field} : e[f] = d[f]
      BY <2>7, <2>8 DEF After
    <2> HIDE DEF e, d
    <2>1. CASE job.command = "clawback"
      <3>1. FieldSet(t) = "clawed_back" /\ ValueSet(t) = TRUE
        BY <2>1 DEF Own, KindOf, FieldSet, ValueSet, Setters, FieldOf
      <3> QED
        BY <2>8, <2>1, <3>1 DEF Asks, Receiver, Setters, FieldOf
    <2>2. CASE job.command = "set_admin"
      <3>1. FieldSet(t) = "admin" /\ ValueSet(t) = job.value
        BY <2>2 DEF Own, KindOf, FieldSet, ValueSet, Setters, FieldOf
      <3> QED
        BY <2>8, <2>2, <3>1 DEF Asks, Receiver, Setters, FieldOf
    <2>3. CASE job.command = "set_clawback_receiver"
      <3>1. FieldSet(t) = "clawback_receiver" /\ ValueSet(t) = job.value
        BY <2>3 DEF Own, KindOf, FieldSet, ValueSet, Setters, FieldOf
      <3> QED
        BY <2>8, <2>3, <3>1 DEF Asks, Receiver, Setters, FieldOf
    <2>4. CASE job.command = "set_clawback_start_ts"
      <3>1. FieldSet(t) = "clawback_start_ts" /\ ValueSet(t) = job.value
        BY <2>4 DEF Own, KindOf, FieldSet, ValueSet, Setters, FieldOf
      <3> QED
        BY <2>8, <2>4, <3>1 DEF Asks, Receiver, Setters, FieldOf
    <2>5. CASE job.command = "set_enable_slot"
      <3>1. FieldSet(t) = "enable_slot" /\ ValueSet(t) = job.value
        BY <2>5 DEF Own, KindOf, FieldSet, ValueSet, Setters, FieldOf
      <3> QED
        BY <2>8, <2>5, <3>1 DEF Asks, Receiver, Setters, FieldOf
    <2>6. CASE job.command = "set_enable_slot_by_time"
      <3>1. FieldSet(t) = "enable_slot" /\ ValueSet(t) = job.value
        BY <2>6 DEF Own, KindOf, FieldSet, ValueSet, Setters, FieldOf
      <3> QED
        BY <2>8, <2>6, <3>1 DEF Asks, Receiver, Setters, FieldOf
    <2> QED
      BY <2>1, <2>2, <2>3, <2>4, <2>5, <2>6
      DEF Asking, Commands, Setters, Closing
  <1> HIDE DEF e
  <1>6. dist[ver] = e /\ \A v \in Versions \ {ver} : dist[v] = state.dist[v]
    BY <1>2, <1>3, <1>4
  <1>7. Done(job, Effect(t, state), ver)
    BY <1>2, <1>4, <1>5, <1>6 DEF Done
  <1>8. Progress(job, state, Effect(t, state))
    BY <1>2, <1>4, <1>5, <1>6, <1>7 DEF Progress, Done
  <1> QED
    BY <1>7, <1>8

\* Of a job of this kind, a transaction of its own lands.
LEMMA Advances ==
    ASSUME ShapeInv, NEW job, job.command \in Asking, NEW t \in Bodies,
           Own(job, t),
           processed' = IF Succeeds(t, processed) THEN Effect(t, processed)
                                                  ELSE processed
    PROVE  /\ Progress(job, processed, processed')
           /\ Succeeds(t, processed) => Done(job, processed', t.version)
           /\ t.version \in Versions
           /\ job.command = Receiver /\ Sure(t) => Done(job, processed', t.version)
  <1>1. ChainOK(processed)
    BY DEF ShapeInv
  <1>2. CASE Succeeds(t, processed)
    <2>1. t.kind # Closing
      BY DEF Own, KindOf, Asking, Closing
    <2> QED
      BY <1>1, <1>2, <2>1, OwnLands DEF Bodies
  <1>3. CASE ~Succeeds(t, processed)
    <2>1. processed' = processed
      BY <1>3
    <2>2. Progress(job, processed, processed)
      BY DEF Progress
    <2>3. t.version \in Versions
      BY DEF Own, KindOf, Asking, Bodies, Closing
    <2>4. ASSUME job.command = Receiver, Sure(t)
          PROVE  Done(job, processed, t.version)
      <3>1. t.kind = "set_clawback_receiver" /\ t.value = job.value
        BY <2>4 DEF Own, KindOf, Receiver, Setters
      <3>2. t.value = processed.dist[t.version].clawback_receiver
        BY <1>3, <2>4, <3>1 DEF Succeeds, Sure
      <3>3. Asks(job, processed.dist[t.version])
        BY <2>4, <3>1, <3>2 DEF Asks, Receiver, Setters, FieldOf
      <3> QED
        BY <2>4, <3>3 DEF Done, Sure
    <2> QED
      BY <1>3, <2>1, <2>2, <2>3, <2>4
  <1> QED
    BY <1>2, <1>3

\* What goes on around a command disturbs nothing.
LEMMA AskedAround ==
    ASSUME ShapeInv, NEW job, NEW ahead, job.command \in Asking,
           Asked(job, ahead), tx # NoTx => Own(job, tx.body),
           \/ Land
           \/ \E i \in DOMAIN orphans : LandOrphan(i)
           \/ Expire
           \/ Finalize
           \/ Tick
    PROVE  Asked(job, ahead)'
  <1>1. orphans \in Seq(Bodies) /\ faults \in Nat /\ TxOK
    BY AdminAssumption DEF ShapeInv
  <1>2. /\ ToSet(job.trees) \subseteq Versions
        /\ job.before \in Nat
        /\ job.before <= faults
        /\ \A i \in DOMAIN orphans : Own(job, orphans[i])
        /\ \A v \in Versions : Done(job, finalized, v) => Done(job, processed, v)
        /\ tx.status = "ok" => Done(job, processed, tx.body.version)
    BY DEF Asked
  <1>3. \A i \in DOMAIN orphans : orphans[i].version \in Versions
    <2>1. KindOf(job.command) # Closing
      BY DEF Asking, KindOf, Closing
    <2> QED
      BY <1>1, <1>2, <2>1 DEF Own, Bodies
  <1>4. tx.status = "ok" => tx.body.version \in Versions
    <2>1. KindOf(job.command) # Closing
      BY DEF Asking, KindOf, Closing
    <2>2. tx.status = "ok" => tx.body \in Bodies /\ tx # NoTx
      BY <1>1 DEF TxOK, NoTx
    <2> QED
      BY <2>1, <2>2 DEF Own, Bodies
  <1>5. ASSUME Land PROVE Asked(job, ahead)'
    <2> DEFINE t == tx.body
    <2>1. t \in Bodies /\ Own(job, t) /\ tx = [status |-> "sent", body |-> t]
      BY <1>1, <1>5 DEF Land, TxOK, NoTx
    <2>2. processed' = IF Succeeds(t, processed) THEN Effect(t, processed)
                                                 ELSE processed
      BY <1>5 DEF Land
    <2>3. /\ Progress(job, processed, processed')
          /\ Succeeds(t, processed) => Done(job, processed', t.version)
      BY <2>1, <2>2, Advances
    <2>4. tx'.status = "ok" => Succeeds(t, processed) /\ tx'.body = t
      BY <1>5, <2>1 DEF Land
    <2>5. finalized' = finalized /\ orphans' = orphans /\ faults' = faults
      BY <1>5 DEF Land
    <2>6. /\ \A v \in Versions : Done(job, finalized', v) => Done(job, processed', v)
          /\ tx'.status = "ok" => Done(job, processed', tx'.body.version)
      BY <1>2, <2>3, <2>4, <2>5 DEF Progress
    <2>7. CASE job.command = Receiver
      <3>1. Submitted(job, ahead)'
        BY <1>2, <1>3, <2>3, <2>5, <2>7 DEF Asked, Submitted, Sure, Progress
      <3> QED
        BY <1>2, <2>5, <2>6, <2>7, <3>1 DEF Asked
    <2>8. CASE job.command # Receiver
      BY <1>2, <2>3, <2>5, <2>6, <2>8 DEF Asked, Progress
    <2> QED
      BY <2>7, <2>8
  <1>6. ASSUME NEW i \in DOMAIN orphans, LandOrphan(i) PROVE Asked(job, ahead)'
    <2> DEFINE t == orphans[i]
    <2>1. t \in Bodies /\ Own(job, t)
      BY <1>1, <1>2
    <2>2. processed' = IF Succeeds(t, processed) THEN Effect(t, processed)
                                                 ELSE processed
      BY <1>6 DEF LandOrphan
    <2>3. /\ Progress(job, processed, processed')
          /\ job.command = Receiver /\ Sure(t) => Done(job, processed', t.version)
      BY <2>1, <2>2, Advances
    <2>4. finalized' = finalized /\ tx' = tx /\ faults' = faults
      BY <1>6 DEF LandOrphan
    <2>5. orphans' \in Seq(Bodies) /\ Removed(orphans, orphans', i)
      BY <1>1, <1>6, Removes DEF LandOrphan
    <2>6. /\ \A k \in DOMAIN orphans' : \E j \in DOMAIN orphans :
                orphans'[k] = orphans[j]
          /\ \A j \in DOMAIN orphans \ {i} : \E k \in DOMAIN orphans' :
                orphans'[k] = orphans[j]
      BY <1>1, <2>5, FromRemoved
    <2>7. \A k \in DOMAIN orphans' : Own(job, orphans'[k])
      BY <1>2, <2>6
    <2>8. /\ \A v \in Versions : Done(job, finalized', v) => Done(job, processed', v)
          /\ tx'.status = "ok" => Done(job, processed', tx'.body.version)
      BY <1>2, <1>4, <2>3, <2>4 DEF Progress
    <2>9. CASE job.command = Receiver
      <3>1. (\A k \in DOMAIN orphans : Sure(orphans[k]))'
        BY <1>3, <2>3, <2>6, <2>9 DEF Asked, Submitted, Sure, Progress
      <3>2. \A v \in Versions :
               /\ (processed'.dist[v] = Absent) <=> (finalized'.dist[v] = Absent)
               /\ processed'.dist[v] # Absent =>
                     processed'.dist[v].admin = finalized'.dist[v].admin
        BY <2>3, <2>4, <2>9 DEF Asked, Submitted, Progress
      <3>3. ASSUME faults' = job.before, NEW v \in ToSet(job.trees)
            PROVE  \/ v \in ahead
                   \/ Done(job, processed', v)
                   \/ \E k \in DOMAIN orphans' : orphans'[k].version = v
        <4>1. CASE v \in ahead \/ Done(job, processed, v)
          BY <1>2, <2>3, <4>1 DEF Progress
        <4>2. ASSUME NEW j \in DOMAIN orphans, orphans[j].version = v, j # i
              PROVE  \E k \in DOMAIN orphans' : orphans'[k].version = v
          BY <2>6, <4>2
        <4>3. CASE orphans[i].version = v
          BY <2>3, <2>9, <4>3 DEF Asked, Submitted
        <4> QED
          BY <2>4, <2>9, <3>3, <4>1, <4>2, <4>3 DEF Asked, Submitted
      <3>4. Submitted(job, ahead)'
        BY <3>1, <3>2, <3>3 DEF Submitted
      <3> QED
        BY <1>2, <2>4, <2>7, <2>8, <2>9, <3>4 DEF Asked
    <2>10. CASE job.command # Receiver
      BY <1>2, <2>3, <2>4, <2>7, <2>8, <2>10 DEF Asked, Progress
    <2> QED
      BY <2>9, <2>10
  <1>7. ASSUME Expire PROVE Asked(job, ahead)'
    <2>1. processed' = processed /\ finalized' = finalized
      BY <1>7 DEF Expire, chain
    <2>2. /\ faults' \in Nat /\ job.before <= faults'
          /\ orphans' # orphans => faults' # job.before
          /\ faults' = job.before => faults = job.before
      BY <1>1, <1>2, <1>7 DEF Expire, Fault
    <2>3. \A k \in DOMAIN orphans' : \E j \in DOMAIN orphans :
             orphans'[k] = orphans[j]
      <3>1. CASE orphans' = orphans
        BY <3>1
      <3>2. CASE orphans # <<>> /\ orphans' = Tail(orphans)
        BY <1>1, <3>2, FromTail
      <3> QED
        BY <1>7, <3>1, <3>2 DEF Expire
    <2>4. tx'.status = "ok" => tx' = tx
      <3>1. CASE tx' = [tx EXCEPT !.status = "expired"] /\ tx.status # "none"
        BY <1>1, <3>1 DEF TxOK, NoTx
      <3> QED
        BY <1>7, <3>1 DEF Expire
    <2>5. CASE job.command = Receiver
      <3>1. Submitted(job, ahead)'
        BY <2>1, <2>2, <2>3, <2>5 DEF Asked, Submitted, Sure
      <3> QED
        BY <1>2, <2>1, <2>2, <2>3, <2>4, <2>5, <3>1 DEF Asked
    <2>6. CASE job.command # Receiver
      BY <1>2, <2>1, <2>2, <2>3, <2>4, <2>6 DEF Asked
    <2> QED
      BY <2>5, <2>6
  <1>8. ASSUME Finalize PROVE Asked(job, ahead)'
    BY <1>2, <1>8 DEF Finalize, Asked, Submitted, Sure
  <1>9. ASSUME Tick PROVE Asked(job, ahead)'
    BY <1>2, <1>9 DEF Tick, chain, Asked, Submitted, Sure
  <1> QED
    BY <1>5, <1>6, <1>7, <1>8, <1>9

\* The same job a move later.
Same(job, next) ==
    /\ next.command = job.command /\ next.value = job.value
    /\ next.trees = job.trees /\ next.before = job.before
    /\ job.expired => next.expired

\* What a move must show of the distributors that leave the queue.
Behind(job, next, v) ==
    IF job.command = Receiver
    THEN \/ faults' # job.before
         \/ Done(job, processed, v)
         \/ \E k \in DOMAIN orphans' : orphans'[k].version = v
    ELSE next.expired \/ Done(job, processed, v)

LEMMA AskedMoves ==
    ASSUME NEW job, NEW next, Same(job, next), NEW ahead, NEW left,
           Asked(job, ahead), UNCHANGED chain, faults \in Nat,
           faults' = faults \/ faults' = faults + 1,
           tx'.status = "ok" => tx.status = "ok" /\ tx'.body = tx.body,
           \A k \in DOMAIN orphans' : Own(job, orphans'[k]),
           job.command = Receiver => \A k \in DOMAIN orphans' : Sure(orphans'[k]),
           \A i \in DOMAIN orphans : \E k \in DOMAIN orphans' :
              orphans'[k] = orphans[i],
           \A v \in ahead : v \in left \/ Behind(job, next, v)
    PROVE  Asked(next, left)'
  <1>1. processed' = processed /\ finalized' = finalized
    BY DEF chain
  <1>2. \A state, v : Done(next, state, v) <=> Done(job, state, v)
    BY DEF Done, Asks, Same
  <1>3. \A t : Own(next, t) <=> Own(job, t)
    BY DEF Own, Same
  <1>4. /\ ToSet(next.trees) \subseteq Versions
        /\ next.before \in Nat
        /\ next.before <= faults'
    BY DEF Asked, Same
  <1>5. /\ \A k \in DOMAIN orphans' : Own(next, orphans'[k])
        /\ \A v \in Versions : Done(next, finalized', v) => Done(next, processed', v)
        /\ tx'.status = "ok" => Done(next, processed', tx'.body.version)
    BY <1>1, <1>2, <1>3 DEF Asked
  <1>6. CASE job.command = Receiver
    <2>1. (\A k \in DOMAIN orphans : Sure(orphans[k]))'
      BY <1>1, <1>6 DEF Sure
    <2>2. ASSUME faults' = next.before, NEW v \in ToSet(next.trees)
          PROVE  \/ v \in left
                 \/ Done(next, processed', v)
                 \/ \E k \in DOMAIN orphans' : orphans'[k].version = v
      <3>1. faults = job.before /\ faults' = job.before
        BY <2>2 DEF Same, Asked
      <3>2. \/ v \in ahead
            \/ Done(job, processed, v)
            \/ \E i \in DOMAIN orphans : orphans[i].version = v
        BY <1>6, <2>2, <3>1 DEF Asked, Submitted, Same
      <3>3. CASE v \in ahead
        BY <1>1, <1>2, <1>6, <3>1, <3>3 DEF Behind
      <3>4. CASE Done(job, processed, v)
        BY <1>1, <1>2, <3>4
      <3>5. CASE \E i \in DOMAIN orphans : orphans[i].version = v
        BY <3>5
      <3> QED
        BY <3>2, <3>3, <3>4, <3>5
    <2>3. Submitted(next, left)'
      BY <1>1, <1>6, <2>1, <2>2 DEF Asked, Submitted
    <2> QED
      BY <1>4, <1>5, <1>6, <2>3 DEF Asked, Same
  <1>7. CASE job.command # Receiver
    <2>1. ~next.expired => \A v \in ToSet(next.trees) :
             v \in left \/ Done(next, processed', v)
      BY <1>1, <1>2, <1>7 DEF Asked, Same, Behind
    <2> QED
      BY <1>4, <1>5, <1>7, <2>1 DEF Asked, Same
  <1> QED
    BY <1>6, <1>7

\* The moves of a command.
LEMMA MoveAsks ==
    ASSUME ShapeInv, AskInv, Move
    PROVE  AskInv'
  <1>1. /\ Running(cli) /\ cli # Idle /\ hasty' = hasty /\ UNCHANGED chain
        /\ faults \in Nat /\ (faults' = faults \/ faults' = faults + 1)
        /\ orphans \in Seq(Bodies) /\ TxOK
    BY AdminAssumption DEF ShapeInv, Move, CliOK, Quiet, FaultStep, Fault
  <1> SUFFICES ASSUME ~hasty PROVE AskInv'
    BY <1>1 DEF AskInv
  <1>2. PICK job : job = cli
    OBVIOUS
  <1>17. PICK queue : queue = cli.queue
    OBVIOUS
  <1> DEFINE Mine == cli.command \in Asking /\ ~cli.bs58
  <1>3. Mine => Asked(job, ToSet(queue))
    BY <1>1, <1>2, <1>17 DEF AskInv
  <1>4. Mine => /\ \A k \in DOMAIN orphans : Own(job, orphans[k])
                /\ job.command = Receiver =>
                      \A k \in DOMAIN orphans : Sure(orphans[k])
    BY <1>3 DEF Asked, Submitted
  <1>5. /\ cli.pc \in Ways =>
              /\ tx.body \in Bodies
              /\ OwnTx(cli, tx.body)
              /\ tx = [status |-> tx.status, body |-> tx.body]
    BY <1>1, OrphansGrow
  <1>6. Mine => cli.command # Closing /\ queue \in Seq(Versions)
    BY <1>1, <1>17 DEF Asking, Running
  <1>7. ASSUME Mine, NEW left, NEW batch, NEW accepted, NEW expired,
               Ended("done", batch, accepted, expired), cli.expired => expired,
               \A next : Same(job, next) => Asked(next, {})'
        PROVE  AskInv'
    <2>1. PICK next : next = last'
      OBVIOUS
    <2>2. Same(job, next) /\ cli' = Idle
      BY <1>2, <1>7, <2>1 DEF Ended, Same
    <2>3. Asked(next, {})'
      BY <1>7, <2>2
    <2> QED
      BY <2>1, <2>2, <2>3 DEF AskInv, Asked, Submitted, Sure
  <1>8. ASSUME NEW pc, NEW left, NEW batch, NEW accepted, NEW expired,
               CliNow(pc, left, batch, accepted, expired), pc # "idle",
               cli.expired => expired,
               Mine => \A next : Same(job, next) /\ next.expired = expired =>
                          Asked(next, ToSet(left))'
        PROVE  AskInv'
    <2>1. PICK next : next = cli'
      OBVIOUS
    <2>2. /\ Same(job, next) /\ next.expired = expired
          /\ cli'.command = cli.command /\ cli'.bs58 = cli.bs58
          /\ cli'.queue = left /\ cli' # Idle
      BY <1>2, <1>8, <2>1 DEF CliNow, Same, Idle
    <2>3. Mine => Asked(next, ToSet(left))'
      BY <1>8, <2>2
    <2> QED
      BY <2>1, <2>2, <2>3 DEF AskInv, Asked, Submitted, Sure
  <1>9. ASSUME Mine, NEW next, Same(job, next), orphans' = orphans,
               tx'.status = "ok" => tx.status = "ok" /\ tx'.body = tx.body,
               NEW left,
               \A v \in ToSet(queue) : v \in left \/ Behind(job, next, v)
        PROVE  Asked(next, left)'
    BY <1>1, <1>3, <1>4, <1>9, AskedMoves
  <1>10. ASSUME Panicking PROVE AskInv'
    BY <1>10 DEF Panicking, Ended, AskInv
  <1>11. ASSUME Skipping PROVE AskInv'
    <2>1. /\ cli.pc = "next" /\ queue # <<>> /\ tx' = tx /\ orphans' = orphans
          /\ CliNow("next", Tail(queue), cli.batch, cli.accepted, cli.expired)
      BY <1>11, <1>17 DEF Skipping
    <2>2. ASSUME Mine, NEW next, Same(job, next)
          PROVE  Asked(next, ToSet(Tail(queue)))'
      <3>1. /\ ToSet(queue) = {Head(queue)} \cup ToSet(Tail(queue))
            /\ Head(queue) \in Versions
        BY <1>6, <2>1, <2>2, Splits
      <3>2. Done(job, finalized, Head(queue))
        BY <1>2, <1>11, <1>17, <2>2 DEF Skipping, Done, Asking
      <3>3. Done(job, processed, Head(queue))
        BY <1>3, <2>2, <3>1, <3>2 DEF Asked
      <3>4. Behind(job, next, Head(queue))
        BY <3>3 DEF Behind
      <3> QED
        BY <1>9, <2>1, <2>2, <3>1, <3>4
    <2> HIDE DEF Mine
    <2> QED
      BY <1>8, <2>1, <2>2
  <1>12. ASSUME Signing PROVE AskInv'
    <2>1. PICK way \in {"simulate", "submit", "send_and_confirm"} :
             CliNow(way, queue, cli.batch, cli.accepted, cli.expired)
      BY <1>12, <1>17 DEF Signing
    <2>2. tx'.status = "signed" /\ orphans' = orphans
      BY <1>12 DEF Signing, Signed
    <2>3. ASSUME Mine, NEW next, Same(job, next) PROVE Asked(next, ToSet(queue))'
      BY <1>9, <2>2, <2>3
    <2> HIDE DEF Mine
    <2> QED
      BY <1>8, <2>1, <2>3
  <1>13. ASSUME Taking PROVE AskInv'
    <2>1. ~Mine /\ \E pc \in {"next", "submit"} :
             CliNow(pc, Tail(queue), Append(cli.batch, Head(cli.queue)),
                    cli.accepted, cli.expired)
      BY <1>13, <1>17 DEF Taking, Asking
    <2> HIDE DEF Mine
    <2> QED
      BY <1>8, <2>1
  <1>14. ASSUME Finishing PROVE AskInv'
    <2>1. queue = <<>> /\ orphans' = orphans
      BY <1>14, <1>17 DEF Finishing
    <2>2. CASE ~Mine
      <3>1. CASE CliNow("send_and_confirm", queue, cli.batch, cli.accepted,
                        cli.expired)
        <4> HIDE DEF Mine
        <4> QED
          BY <1>8, <2>2, <3>1
      <3>2. CASE Ended("done", cli.batch, cli.accepted, cli.expired)
        BY <2>2, <3>2 DEF Ended, AskInv
      <3> QED
        BY <1>14, <1>17, <3>1, <3>2 DEF Finishing
    <2>3. CASE Mine
      <3>1. tx' = tx /\ Ended("done", cli.batch, cli.accepted, cli.expired)
        BY <1>6, <1>14, <2>3 DEF Finishing
      <3>2. ASSUME NEW next, Same(job, next) PROVE Asked(next, {})'
        BY <1>9, <2>1, <2>3, <3>1, <3>2, NoElements
      <3> HIDE DEF Mine
      <3> QED
        BY <1>7, <2>3, <3>1, <3>2
    <2> QED
      BY <2>2, <2>3
  <1>15. ASSUME Sending PROVE AskInv'
    <2>1. PICK pc \in {"spin", "loop", "confirm"} :
             CliNow(pc, queue, cli.batch, cli.accepted, cli.expired)
      BY <1>15, <1>17 DEF Sending
    <2>2. PICK status \in {tx.status, "sent"} : tx' = [tx EXCEPT !.status = status]
      BY <1>15 DEF Sending
    <2>3. cli.pc \in Ways /\ orphans' = orphans
      BY <1>15 DEF Sending
    <2>4. tx'.status = "ok" => tx.status = "ok" /\ tx'.body = tx.body
      BY <1>5, <2>2, <2>3
    <2>5. ASSUME Mine, NEW next, Same(job, next) PROVE Asked(next, ToSet(queue))'
      BY <1>9, <2>3, <2>4, <2>5
    <2> HIDE DEF Mine
    <2> QED
      BY <1>8, <2>1, <2>5
  <1>16. ASSUME NEW ok \in BOOLEAN, NEW expired \in BOOLEAN,
                NEW delivered \in BOOLEAN, Returning(ok, expired, delivered)
         PROVE  AskInv'
    <2>1. /\ cli.pc \in Ways /\ tx' = NoTx /\ Outcome(ok, expired)
          /\ orphans' = IF delivered THEN Append(orphans, tx.body) ELSE orphans
      BY <1>16 DEF Returning
    <2>2. CASE ~Mine
      <3>1. ASSUME NEW left, NEW batch, NEW accepted, NEW flag,
                   CliNow("next", left, batch, accepted, flag)
            PROVE  AskInv'
        BY <2>2, <3>1 DEF AskInv, CliNow, Idle
      <3>2. ASSUME NEW result, NEW batch, NEW accepted, NEW flag,
                   Ended(result, batch, accepted, flag)
            PROVE  AskInv'
        BY <2>2, <3>2 DEF AskInv, Ended
      <3> HIDE DEF Mine
      <3> QED
        BY <2>1, <3>1, <3>2 DEF Outcome
    <2>3. CASE Mine
      <3> DEFINE v == Head(queue)
                 left == IF ok THEN Tail(queue) ELSE queue
      <3>1. /\ cli.command # Closing /\ queue # <<>> /\ tx.body.version = v
            /\ Own(job, tx.body) /\ tx.body.signer = cli.keypair
            /\ tx.body.kind # Closing /\ v \in Versions
        <4>1. OwnTx(cli, tx.body) /\ tx.body \in Bodies /\ cli.command # Closing
          BY <1>5, <1>6, <2>1, <2>3
        <4>2. KindOf(cli.command) # Closing
          BY <2>3 DEF KindOf, Asking, Closing
        <4> QED
          BY <1>2, <1>17, <4>1, <4>2 DEF OwnTx, Own, Bodies
      <3>2. ToSet(queue) = {v} \cup ToSet(Tail(queue))
        BY <1>6, <2>3, <3>1, Splits
      <3>3. /\ orphans' \in Seq(Bodies)
            /\ \A i \in DOMAIN orphans : \E k \in DOMAIN orphans' :
                  orphans'[k] = orphans[i]
            /\ \A k \in DOMAIN orphans' :
                  \/ \E i \in DOMAIN orphans : orphans'[k] = orphans[i]
                  \/ delivered /\ orphans'[k] = tx.body
            /\ delivered => \E k \in DOMAIN orphans' : orphans'[k] = tx.body
        <4>1. CASE ~delivered
          BY <1>1, <2>1, <4>1
        <4>2. CASE delivered
          <5> DEFINE e == tx.body
                     after == orphans'
          <5>1. /\ orphans \in Seq(Bodies) /\ e \in Bodies
                /\ after = Append(orphans, e)
            BY <1>1, <1>5, <2>1, <4>2
          <5> HIDE DEF e, after
          <5>2. after \in Seq(Bodies) /\ Extended(orphans, e, after)
            BY <5>1, FromAppend
          <5> QED
            BY <4>2, <5>2 DEF Extended, e, after
        <4> QED
          BY <4>1, <4>2
      <3>4. \A k \in DOMAIN orphans' : Own(job, orphans'[k])
        BY <1>4, <2>3, <3>1, <3>3
      <3>5. ASSUME job.command = Receiver, delivered PROVE Sure(tx.body)
        <4>1. cli.pc = "submit" /\ tx.status # "sent"
          BY <1>1, <1>2, <2>1, <3>5
          DEF Running, WaysOf, Receiver, Ways, TxOK, NoTx, Closing
        <4>2. PICK state \in Preflights : Accepted(state)
          BY <1>16, <3>5, <4>1 DEF Returning
        <4>3. state \in {processed, finalized}
          BY <4>2 DEF Preflights, Confirmed
        <4>4. tx.body.kind = "set_clawback_receiver"
          BY <1>2, <3>1, <3>5 DEF Own, KindOf, Receiver
        <4>5. /\ state.dist[v] # Absent /\ state.dist[v].admin = tx.body.signer
              /\ tx.body.value \in TokenAccounts
          BY <3>1, <4>2, <4>4 DEF Accepted, Succeeds
        <4>6. Submitted(job, ToSet(queue))
          BY <1>3, <2>3, <3>5 DEF Asked
        <4> QED
          BY <3>1, <4>3, <4>5, <4>6 DEF Submitted, Sure
      <3>6. job.command = Receiver => \A k \in DOMAIN orphans' : Sure(orphans'[k])
        BY <1>4, <2>3, <3>3, <3>5
      <3>7. ASSUME NEW next, next.expired = TRUE \/ ~expired, ok
            PROVE  Behind(job, next, v)
        <4>1. CASE job.command = Receiver
          <5>1. cli.pc = "submit" /\ ~expired
            BY <1>1, <1>2, <1>16, <2>1, <4>1
            DEF Running, WaysOf, Receiver, Ways, Returning, Closing
          <5>2. delivered
            BY <1>16, <3>7, <5>1 DEF Returning
          <5> QED
            BY <3>1, <3>3, <4>1, <5>2 DEF Behind
        <4>2. CASE job.command # Receiver /\ ~expired
          <5>1. cli.pc # "submit"
            BY <1>1, <1>2, <2>1, <2>3, <4>2
            DEF Running, WaysOf, Receiver, Ways, Asking, Commands, Setters
          <5>2. tx.status = "ok"
            BY <1>16, <3>7, <4>2, <5>1 DEF Returning
          <5>3. Done(job, processed, v)
            BY <1>3, <2>3, <3>1, <5>2 DEF Asked
          <5> QED
            BY <4>2, <5>3 DEF Behind
        <4>3. CASE job.command # Receiver /\ expired
          BY <3>7, <4>3 DEF Behind
        <4> QED
          BY <4>1, <4>2, <4>3
      <3>8. ASSUME NEW next, Same(job, next), next.expired = TRUE \/ ~expired
            PROVE  Asked(next, ToSet(left))'
        <4>1. \A w \in ToSet(queue) : w \in ToSet(left) \/ Behind(job, next, w)
          BY <3>2, <3>7, <3>8
        <4>2. tx'.status # "ok"
          BY <2>1 DEF NoTx
        <4> HIDE DEF left, v
        <4> QED
          BY <1>1, <1>3, <2>3, <3>3, <3>4, <3>6, <3>8, <4>1, <4>2, AskedMoves
      <3>9. \/ \E flag \in BOOLEAN :
                  /\ CliNow("next", left, cli.batch, cli.accepted, flag)
                  /\ cli.expired \/ expired => flag
            \/ Ended("panicked", cli.batch, cli.accepted, cli.expired)
        BY <1>17, <2>1, <2>3 DEF Outcome, Asking
      <3>10. CASE Ended("panicked", cli.batch, cli.accepted, cli.expired)
        BY <3>10 DEF Ended, AskInv
      <3>11. ASSUME NEW flag \in BOOLEAN,
                    CliNow("next", left, cli.batch, cli.accepted, flag),
                    cli.expired \/ expired => flag
             PROVE  AskInv'
        <4> HIDE DEF Mine, left
        <4>1. \A next : Same(job, next) /\ next.expired = flag =>
                 Asked(next, ToSet(left))'
          BY <3>8, <3>11
        <4> QED
          BY <1>8, <3>11, <4>1
      <3> QED
        BY <3>9, <3>10, <3>11
    <2> QED
      BY <2>2, <2>3
  <1> QED
    BY <1>10, <1>11, <1>12, <1>13, <1>14, <1>15, <1>16 DEF Move

\* A setter or clawback that ended well has set what was asked in every one of
\* its distributors, unless a command started before the chain had settled, a
\* blockhash expired in send_transaction, or the transaction of a
\* set-clawback-receiver is in flight or lost.
THEOREM AskedIsDone == Spec => []AskedIsSet
  <1>1. Init => AskInv
    BY DEF Init, AskInv
  <1>2. ShapeInv /\ AskInv /\ [Next]_vars => AskInv'
    <2> SUFFICES ASSUME ShapeInv, AskInv, [Next]_vars PROVE AskInv'
      OBVIOUS
    <2>1. CASE Begin
      <3>1. Beginning
        BY <2>1, Begins
      <3> SUFFICES ASSUME ~hasty', cli'.command \in Asking
                   PROVE  Asked(cli, ToSet(cli.queue))'
        BY <3>1 DEF AskInv, Beginning
      <3>2. processed = finalized /\ orphans = <<>> /\ tx = NoTx
        BY <3>1 DEF Beginning, Settled
      <3>3. /\ processed' = finalized' /\ orphans' = <<>> /\ tx' = NoTx
            /\ faults' = faults /\ faults \in Nat /\ cli'.before = faults
        BY <3>1, <3>2, AdminAssumption DEF Beginning, chain, ShapeInv
      <3>4. cli'.trees \in Seq(Versions) /\ cli'.queue = cli'.trees
        BY <3>1 DEF Beginning, Running, Asking
      <3>5. ToSet(cli'.trees) \subseteq Versions
        BY <3>4 DEF ToSet
      <3>6. DOMAIN orphans' = {}
        BY <3>3
      <3> QED
        BY <3>3, <3>4, <3>5, <3>6 DEF Asked, Submitted, NoTx
    <2>2. CASE CliStep
      BY <2>2, Moves, MoveAsks
    <2>3. CASE Interrupt
      BY <2>3, Interrupts, MoveAsks
    <2>4. CASE \/ Land
               \/ \E i \in DOMAIN orphans : LandOrphan(i)
               \/ Expire
               \/ Finalize
               \/ Tick
      <3>1. cli' = cli /\ last' = last /\ hasty' = hasty
        BY <2>4 DEF Land, LandOrphan, Expire, Finalize, Tick
      <3>2. ASSUME ~hasty, cli # Idle, cli.command \in Asking, ~cli.bs58
            PROVE  Asked(cli, ToSet(cli.queue))'
        <4>1. PICK job : job = cli
          OBVIOUS
        <4>2. PICK ahead : ahead = ToSet(cli.queue)
          OBVIOUS
        <4>3. Asked(job, ahead)
          BY <3>2, <4>1, <4>2 DEF AskInv
        <4>4. tx # NoTx => Own(job, tx.body)
          BY <4>1 DEF ShapeInv, TxOK, OwnTx, Own
        <4>5. Asked(job, ahead)'
          BY <2>4, <3>2, <4>1, <4>3, <4>4, AskedAround
        <4> QED
          BY <3>1, <4>1, <4>2, <4>5 DEF Asked, Submitted, Sure
      <3>3. ASSUME ~hasty, cli = Idle, last.result = "done",
                   last.command \in Asking, ~last.bs58
            PROVE  Asked(last, {})'
        <4>1. PICK job : job = last
          OBVIOUS
        <4>2. Asked(job, {})
          BY <3>3, <4>1 DEF AskInv
        <4>3. tx = NoTx
          BY <3>3 DEF ShapeInv, TxOK
        <4>4. Asked(job, {})'
          BY <2>4, <3>3, <4>1, <4>2, <4>3, AskedAround
        <4> QED
          BY <3>1, <4>1, <4>4 DEF Asked, Submitted, Sure
      <3> QED
        BY <3>1, <3>2, <3>3 DEF AskInv
    <2>5. CASE UNCHANGED vars
      BY <2>5 DEF vars, chain, AskInv, Asked, Submitted, Sure
    <2> QED
      BY <2>1, <2>2, <2>3, <2>4, <2>5 DEF Next
  <1>3. ShapeInv /\ AskInv => AskedIsSet
    <2> SUFFICES ASSUME ShapeInv, AskInv, cli.pc = "idle", last.result = "done",
                        last.command \in Asking, ~last.bs58, ~hasty,
                        ~last.expired,
                        last.command = Receiver =>
                           orphans = <<>> /\ faults = last.before,
                        NEW v \in ToSet(last.trees)
                 PROVE  processed.dist[v] # Absent /\ AskedIs(processed.dist[v])
      BY DEF AskedIsSet, Asking, Receiver, Closing
    <2>1. cli = Idle
      BY DEF ShapeInv, CliOK, Running, WaysOf
    <2>2. Asked(last, {})
      BY <2>1 DEF AskInv
    <2>3. orphans = <<>> => DOMAIN orphans = {}
      OBVIOUS
    <2>4. Done(last, processed, v)
      BY <2>2, <2>3 DEF Asked, Submitted
    <2> QED
      BY <2>4 DEF Done, Asks, AskedIs
  <1> QED
    BY <1>1, <1>2, <1>3, AdminShape, PTL DEF Spec

-----------------------------------------------------------------------------
(* close-claim-status closes what comes before the first foreign status. *)

\* A claim status is never anybody else's, and is never opened again.
StatusInv ==
    \A s \in 1..ClaimStatuses :
        /\ processed.statuses[s] \in {scenario.statuses[s], Absent}
        /\ finalized.statuses[s] \in {scenario.statuses[s], Absent}
        /\ finalized.statuses[s] = Absent => processed.statuses[s] = Absent

Foreign(job, k) == scenario.statuses[job.trees[k]] # job.keypair

\* Of the job's list, the first b have been submitted, and the next up to p
\* are in the batch.
Closes(job, b, p) ==
    /\ job.trees \in Seq(1..ClaimStatuses)
    /\ \A j, k \in 1..Len(job.trees) : job.trees[j] = job.trees[k] => j = k
    /\ b <= p /\ p <= Len(job.trees)
    /\ \A k \in (b + 1)..Len(job.trees) :
          processed.statuses[job.trees[k]] = Absent => tx.status = "ok" /\ k <= p
    /\ tx.status = "ok" =>
          \A k \in (b + 1)..p : processed.statuses[job.trees[k]] = Absent
    /\ tx.status \in {"failed", "expired"} => \E k \in (b + 1)..p : Foreign(job, k)
    /\ \A k \in 1..b :
          \/ processed.statuses[job.trees[k]] = Absent
          \/ \E i \in DOMAIN orphans : job.trees[k] \in ToSet(orphans[i].value)
    /\ \A i \in DOMAIN orphans :
          /\ orphans[i].kind = Closing
          /\ \A s \in ToSet(orphans[i].value) :
                /\ processed.statuses[s] = orphans[i].signer
                /\ \E k \in 1..b : s = job.trees[k]
    /\ \A i, j \in DOMAIN orphans :
          i # j => \A s \in ToSet(orphans[i].value) : s \notin ToSet(orphans[j].value)

Placed(job, b, p) ==
    /\ Len(job.queue) = Len(job.trees) - p
    /\ \A k \in 1..Len(job.queue) : job.queue[k] = job.trees[p + k]
    /\ Len(job.batch) = p - b
    /\ \A k \in 1..Len(job.batch) : job.batch[k] = job.trees[b + k]

\* Batches are full until one has a foreign status among its first.
Even(b) == \E m \in Nat : b = BatchSize * m

Blocked(job, b) ==
    \E k \in (b + 1)..(b + BatchSize) : k <= Len(job.trees) /\ Foreign(job, k)

InTurn(job, b, p) ==
    /\ Even(b)
    /\ p - b > BatchSize \/ (p - b = BatchSize /\ job.pc # "submit") =>
          Blocked(job, b)

CloseInv ==
    ~hasty =>
        /\ cli # Idle /\ cli.command = Closing =>
              /\ cli.before <= faults
              /\ faults = cli.before =>
                    \E b, p \in 0..Len(cli.trees) :
                       /\ Closes(cli, b, p)
                       /\ Placed(cli, b, p)
                       /\ InTurn(cli, b, p)
        /\ cli = Idle /\ last.result = "done" /\ last.command = Closing =>
              /\ last.before \in Nat
              /\ last.before <= faults
              /\ faults = last.before =>
                    \E b \in 0..Len(last.trees) :
                       /\ Closes(last, b, Len(last.trees))
                       /\ b = Len(last.trees) \/ (Even(b) /\ Blocked(last, b))

\* What a transaction does to the claim statuses.
ClosedBy(t, before, after) ==
    \A s \in 1..ClaimStatuses :
        after.statuses[s] =
           IF t.kind = Closing /\ s \in ToSet(t.value) THEN Absent
                                                       ELSE before.statuses[s]

LEMMA EffectCloses ==
    ASSUME NEW state, ChainOK(state), NEW t \in Bodies, Succeeds(t, state)
    PROVE  ClosedBy(t, state, Effect(t, state))
  <1>1. /\ state = [dist |-> state.dist, statuses |-> state.statuses]
        /\ state.statuses \in [1..ClaimStatuses -> Wallets \cup {Absent}]
    BY DEF ChainOK
  <1> DEFINE next == Effect(t, state)
  <1>2. CASE t.kind = Closing
    <2> DEFINE after == [s \in 1..ClaimStatuses |->
                           IF s \in ToSet(t.value) THEN Absent
                                                   ELSE state.statuses[s]]
    <2>1. next = [state EXCEPT !.statuses = after]
      BY <1>1, <1>2 DEF Effect, Closing, Setters
    <2> HIDE DEF next
    <2>2. next.statuses = after
      BY <1>1, <2>1
    <2> QED
      BY <1>2, <2>2 DEF ClosedBy, next
  <1>3. CASE t.kind = "close_distributor"
    <2>1. next = [state EXCEPT !.dist[t.version] = Absent]
      BY <1>3 DEF Effect, Setters
    <2> HIDE DEF next
    <2>2. next.statuses = state.statuses
      BY <1>1, <2>1
    <2> QED
      BY <1>3, <2>2 DEF ClosedBy, next, Closing
  <1>4. CASE t.kind \in Setters \cup {"clawback"}
    <2>1. next.statuses = state.statuses /\ t.kind # Closing
      BY <1>4, Sets DEF Setters, Closing
    <2> HIDE DEF next
    <2> QED
      BY <2>1 DEF ClosedBy, next
  <1> QED
    BY <1>2, <1>3, <1>4 DEF Bodies, Body, Kinds, Commands, Closing

\* A claim status is never anybody else's than it was, and never opened again.
THEOREM StatusesStay == Spec => []StatusInv
  <1>1. Init => StatusInv
    <2> SUFFICES ASSUME Init PROVE StatusInv
      OBVIOUS
    <2>1. processed.statuses = scenario.statuses /\ finalized = processed
      BY DEF Init
    <2> QED
      BY <2>1 DEF StatusInv
  <1>2. ShapeInv /\ StatusInv /\ [Next]_vars => StatusInv'
    <2> SUFFICES ASSUME ShapeInv, StatusInv, [Next]_vars PROVE StatusInv'
      OBVIOUS
    <2>1. ASSUME NEW t \in Bodies, scenario' = scenario, finalized' = finalized,
                 processed' = IF Succeeds(t, processed) THEN Effect(t, processed)
                                                        ELSE processed
          PROVE  StatusInv'
      <3>1. CASE Succeeds(t, processed)
        <4>1. ClosedBy(t, processed, processed')
          BY <2>1, <3>1, EffectCloses DEF ShapeInv
        <4> QED
          BY <2>1, <4>1 DEF ClosedBy, StatusInv
      <3>2. CASE ~Succeeds(t, processed)
        BY <2>1, <3>2 DEF StatusInv
      <3> QED
        BY <3>1, <3>2
    <2>2. CASE Land
      <3>1. tx.body \in Bodies
        BY <2>2 DEF Land, ShapeInv, TxOK, NoTx
      <3> QED
        BY <2>1, <2>2, <3>1 DEF Land
    <2>3. ASSUME NEW i \in DOMAIN orphans, LandOrphan(i) PROVE StatusInv'
      <3>1. orphans[i] \in Bodies
        BY DEF ShapeInv
      <3> QED
        BY <2>1, <2>3, <3>1 DEF LandOrphan
    <2>4. CASE Finalize
      BY <2>4 DEF Finalize, StatusInv
    <2>5. CASE UNCHANGED <<scenario, processed, finalized>>
      BY <2>5 DEF StatusInv
    <2>6. CASE Begin
      BY <2>5, <2>6, Begins DEF Beginning, chain
    <2>7. CASE CliStep \/ Interrupt
      BY <2>5, <2>7, Moves, Interrupts DEF Move, Quiet, chain
    <2> QED
      BY <2>2, <2>3, <2>4, <2>5, <2>6, <2>7
      DEF Next, vars, chain, Expire, Tick
  <1> QED
    BY <1>1, <1>2, AdminShape, PTL DEF Spec

\* The full batches before the first foreign claim status end where the batch
\* begins that is blocked.
LEMMA UnblockedWithin ==
    ASSUME NEW job, NEW S, job.trees \in Seq(S), NEW b \in 0..Len(job.trees),
           b = Len(job.trees) \/ (Even(b) /\ Blocked(job, b))
    PROVE  \A i \in 1..Unblocked(job.trees, job.keypair) : i \in 1..b
  <1> DEFINE list == job.trees
             foreign == {i \in DOMAIN list : scenario.statuses[list[i]] # job.keypair}
             first == CHOOSE i \in foreign : \A j \in foreign : i <= j
             U == Unblocked(list, job.keypair)
             n == Len(list)
  <1>1. n \in Nat /\ DOMAIN list = 1..n /\ b \in Nat /\ b <= n
    OBVIOUS
  <1>2. U = IF foreign = {} THEN n ELSE BatchSize * ((first - 1) \div BatchSize)
    BY DEF Unblocked
  <1> HIDE DEF n, U
  <1>3. CASE foreign = {}
    <2>1. ~Blocked(job, b)
      BY <1>1, <1>3, AdminAssumption DEF Blocked, Foreign, n
    <2>2. b = n /\ U = n
      BY <1>2, <1>3, <2>1 DEF n
    <2> QED
      BY <2>2 DEF U
  <1>4. CASE foreign # {}
    <2>1. foreign \in SUBSET Nat
      BY <1>1
    <2>2. \E i \in foreign : \A j \in foreign : i <= j
      <3> HIDE DEF foreign
      <3> QED
        BY <1>4, <2>1, LeastNumber
    <2>3. first \in foreign /\ \A j \in foreign : first <= j
      <3> HIDE DEF foreign
      <3> QED
        BY <2>2
    <2> HIDE DEF first
    <2>4. first \in 1..n
      BY <1>1, <2>3
    <2> DEFINE q == (first - 1) \div BatchSize
    <2>5. BatchSize \in Nat /\ BatchSize > 0 /\ first - 1 \in Nat
      BY <1>1, <2>4, AdminAssumption
    <2>6. q \in Nat /\ BatchSize * q <= first - 1 /\ U = BatchSize * q
      BY <1>2, <1>4, <2>5, QuotientBounds
    <2> HIDE DEF q
    <2>7. U \in Nat
      BY <2>5, <2>6
    <2>8. U <= b
      <3>1. CASE b = n
        BY <1>1, <2>4, <2>6, <2>7, <3>1
      <3>2. CASE Even(b) /\ Blocked(job, b)
        <4>1. PICK m \in Nat : b = BatchSize * m
          BY <3>2 DEF Even
        <4>2. PICK k \in (b + 1)..(b + BatchSize) :
                k <= n /\ scenario.statuses[list[k]] # job.keypair
          BY <3>2 DEF Blocked, Foreign, n
        <4>3. k \in foreign
          BY <1>1, <2>5, <4>2
        <4>4. first <= b + BatchSize
          BY <1>1, <2>3, <2>4, <2>5, <4>2, <4>3
        <4>5. BatchSize * q < BatchSize * m + BatchSize
          BY <1>1, <2>4, <2>5, <2>6, <2>7, <4>1, <4>4
        <4>6. q <= m
          <5> SUFFICES ASSUME m + 1 <= q PROVE FALSE
            BY <2>6
          <5>1. BatchSize * (m + 1) <= BatchSize * q
            BY <2>5, <2>6, ProductMonotone
          <5>2. BatchSize * (m + 1) = BatchSize * m + BatchSize
            BY <2>5
          <5> DEFINE x == BatchSize * m
                     y == BatchSize * q
          <5>3. x \in Nat /\ y \in Nat
            BY <2>5, <2>6
          <5>4. x + BatchSize <= y /\ y < x + BatchSize
            BY <4>5, <5>1, <5>2
          <5> HIDE DEF x, y
          <5> QED
            BY <2>5, <5>3, <5>4
        <4> QED
          BY <2>5, <2>6, <4>1, <4>6, ProductMonotone
      <3> QED
        BY <3>1, <3>2 DEF n
    <2> QED
      BY <1>1, <2>7, <2>8 DEF U
  <1> QED
    BY <1>3, <1>4

\* The transaction at hand closes the batch.
Batched(job, b, p) ==
    /\ tx.body.kind = Closing
    /\ tx.body.signer = job.keypair
    /\ ToSet(tx.body.value) = {job.trees[k] : k \in (b + 1)..p}

\* What goes on around a close-claim-status.
LEMMA ClosesAround ==
    ASSUME ShapeInv, StatusInv, NEW job, NEW b \in Nat, NEW p \in Nat,
           Closes(job, b, p), tx # NoTx => Batched(job, b, p), faults' = faults,
           \/ Land
           \/ \E i \in DOMAIN orphans : LandOrphan(i)
           \/ Expire
           \/ Finalize
           \/ Tick
    PROVE  Closes(job, b, p)'
  <1> DEFINE list == job.trees
             n == Len(list)
  <1>1. /\ list \in Seq(1..ClaimStatuses)
        /\ \A j, k \in 1..n : list[j] = list[k] => j = k
        /\ b <= p /\ p <= n
    BY DEF Closes
  <1>11. /\ n \in Nat /\ DOMAIN list = 1..n
         /\ \A k \in 1..n : list[k] \in 1..ClaimStatuses
    <2>1. list \in Seq(1..ClaimStatuses)
      BY <1>1
    <2> HIDE DEF list
    <2> QED
      BY <2>1, Indexed
  <1>12. b <= p /\ p <= n
    BY <1>1
  <1> HIDE DEF n
  <1>13. /\ \A k \in (b + 1)..p : k \in 1..n /\ k \in (b + 1)..n /\ k \notin 1..b
         /\ \A k \in (b + 1)..n :
               k \in 1..n /\ k \notin 1..b /\ (k \notin (b + 1)..p <=> ~(k <= p))
         /\ \A k \in 1..b : k \in 1..n /\ k \notin (b + 1)..p /\ k \notin (b + 1)..n
    BY <1>11, <1>12
  <1>2. /\ n \in Nat /\ DOMAIN list = 1..n
        /\ \A k \in 1..n : list[k] \in 1..ClaimStatuses
        /\ \A k \in (b + 1)..p : k \in 1..n /\ k \in (b + 1)..n
        /\ \A k \in (b + 1)..n :
              k \in 1..n /\ k \notin 1..b /\ (k \notin (b + 1)..p <=> ~(k <= p))
        /\ \A k \in 1..b : k \in 1..n
    BY <1>11, <1>13
  <1>14. \A j, k \in 1..n : list[j] = list[k] => j = k
    BY <1>1 DEF n
  <1>15. /\ \A j \in 1..b, k \in (b + 1)..n : list[j] # list[k]
         /\ \A j \in 1..b, k \in (b + 1)..p : list[j] # list[k]
    BY <1>13, <1>14
  <1>3. /\ \A k \in (b + 1)..n :
              processed.statuses[list[k]] = Absent => tx.status = "ok" /\ k <= p
        /\ tx.status = "ok" =>
              \A k \in (b + 1)..p : processed.statuses[list[k]] = Absent
        /\ tx.status \in {"failed", "expired"} =>
              \E k \in (b + 1)..p : Foreign(job, k)
    BY DEF Closes, n
  <1>4. \A k \in 1..b :
           \/ processed.statuses[list[k]] = Absent
           \/ \E i \in DOMAIN orphans : list[k] \in ToSet(orphans[i].value)
    BY DEF Closes
  <1>5. /\ \A i \in DOMAIN orphans :
              /\ orphans[i].kind = Closing
              /\ \A s \in ToSet(orphans[i].value) :
                    /\ processed.statuses[s] = orphans[i].signer
                    /\ \E k \in 1..b : s = list[k]
        /\ \A i, j \in DOMAIN orphans :
              i # j => \A s \in ToSet(orphans[i].value) :
                          s \notin ToSet(orphans[j].value)
    BY DEF Closes
  <1>6. ChainOK(processed) /\ orphans \in Seq(Bodies) /\ TxOK
        /\ \A i \in DOMAIN orphans : orphans[i] \in Bodies
    BY DEF ShapeInv
  <1>7. ASSUME Land PROVE Closes(job, b, p)'
    <2> DEFINE t == tx.body
    <2>1. t \in Bodies /\ tx = [status |-> "sent", body |-> t] /\ Batched(job, b, p)
      BY <1>6, <1>7 DEF Land, TxOK, NoTx
    <2>2. t.kind = Closing /\ t.signer = job.keypair
          /\ ToSet(t.value) = {list[k] : k \in (b + 1)..p}
      BY <2>1 DEF Batched
    <2>3. tx.status = "sent" /\ orphans' = orphans /\ scenario' = scenario
      BY <1>7 DEF Land
    <2>4. CASE Succeeds(t, processed)
      <3>1. /\ processed' = Effect(t, processed)
            /\ tx' = [tx EXCEPT !.status = "ok"]
        BY <1>7, <2>4 DEF Land
      <3>2. tx'.status = "ok"
        BY <2>1, <3>1
      <3>3. \A s \in 1..ClaimStatuses :
               processed'.statuses[s] = IF s \in ToSet(t.value) THEN Absent
                                        ELSE processed.statuses[s]
        BY <1>6, <2>1, <2>2, <2>4, <3>1, EffectCloses DEF ClosedBy
      <3>4. /\ \A k \in (b + 1)..p : processed'.statuses[list[k]] = Absent
            /\ \A k \in 1..n : k \notin (b + 1)..p =>
                  processed'.statuses[list[k]] = processed.statuses[list[k]]
        <4>1. \A k \in (b + 1)..p : list[k] \in ToSet(t.value)
          BY <2>2
        <4>2. \A k \in 1..n : k \notin (b + 1)..p => list[k] \notin ToSet(t.value)
          BY <1>13, <1>14, <2>2
        <4> HIDE DEF t, list
        <4> QED
          BY <1>11, <1>13, <3>3, <4>1, <4>2
      <3>5. \A k \in (b + 1)..n :
               processed'.statuses[list[k]] = Absent => tx'.status = "ok" /\ k <= p
        BY <1>2, <1>3, <2>3, <3>2, <3>4
      <3>6. \A k \in 1..b : k \notin (b + 1)..p
        BY <1>1
      <3>7. \A k \in 1..b :
               \/ processed'.statuses[list[k]] = Absent
               \/ \E i \in DOMAIN orphans' : list[k] \in ToSet(orphans'[i].value)
        BY <1>2, <1>4, <2>3, <3>4, <3>6
      <3>8. \A i \in DOMAIN orphans :
               \A s \in ToSet(orphans[i].value) :
                  processed'.statuses[s] = orphans[i].signer
        <4>1. ASSUME NEW i \in DOMAIN orphans, NEW s \in ToSet(orphans[i].value)
              PROVE  processed'.statuses[s] = orphans[i].signer
          <5>1. PICK k \in 1..b : s = list[k]
            BY <1>5
          <5>2. processed'.statuses[s] = processed.statuses[s]
            BY <1>13, <3>4, <5>1
          <5> QED
            BY <1>5, <5>2
        <4> QED
          BY <4>1
      <3> QED
        <4>1. job.trees \in Seq(1..ClaimStatuses) /\ b <= p /\ p <= Len(job.trees)
              /\ \A j, k \in 1..Len(job.trees) : job.trees[j] = job.trees[k] => j = k
          BY ONLY <1>1 DEF n
        <4>2. \A k \in (b + 1)..Len(job.trees) :
                 processed'.statuses[job.trees[k]] = Absent =>
                    tx'.status = "ok" /\ k <= p
          BY <3>5 DEF n
        <4>3. \A k \in (b + 1)..p : processed'.statuses[job.trees[k]] = Absent
          BY <3>4
        <4>4. \A k \in 1..b :
                 \/ processed'.statuses[job.trees[k]] = Absent
                 \/ \E i \in DOMAIN orphans' : job.trees[k] \in ToSet(orphans'[i].value)
          BY <3>7
        <4>5. \A i \in DOMAIN orphans' :
                 /\ orphans'[i].kind = Closing
                 /\ \A s \in ToSet(orphans'[i].value) :
                       /\ processed'.statuses[s] = orphans'[i].signer
                       /\ \E k \in 1..b : s = job.trees[k]
          BY <1>5, <2>3, <3>8
        <4>6. \A i, j \in DOMAIN orphans' :
                 i # j => \A s \in ToSet(orphans'[i].value) :
                             s \notin ToSet(orphans'[j].value)
          BY <1>5, <2>3
        <4> QED
          BY ONLY <3>2, <4>1, <4>2, <4>3, <4>4, <4>5, <4>6 DEF Closes
    <2>5. CASE ~Succeeds(t, processed)
      <3>1. processed' = processed /\ tx' = [tx EXCEPT !.status = "failed"]
        BY <1>7, <2>5 DEF Land
      <3>2. tx'.status = "failed"
        BY <2>1, <3>1
      <3>3. PICK s \in ToSet(t.value) : processed.statuses[s] # t.signer
        BY <2>2, <2>5 DEF Succeeds, Closing
      <3>4. PICK k \in (b + 1)..p : s = list[k]
        BY <2>2, <3>3
      <3>5. processed.statuses[s] # Absent /\ s \in 1..ClaimStatuses
        BY <1>2, <1>3, <2>3, <3>4
      <3>6. Foreign(job, k)
        BY <2>2, <3>3, <3>4, <3>5 DEF StatusInv, Foreign
      <3>7. \E j \in (b + 1)..p : Foreign(job, j)'
        BY <2>3, <3>6 DEF Foreign
      <3>8. \A j \in (b + 1)..n :
               processed'.statuses[list[j]] = Absent => tx'.status = "ok" /\ j <= p
        BY <1>3, <2>3, <3>1
      <3> QED
        BY <1>1, <1>4, <1>5, <2>3, <3>1, <3>2, <3>7, <3>8 DEF Closes, n
    <2> QED
      BY <2>4, <2>5
  <1>8. ASSUME NEW i \in DOMAIN orphans, LandOrphan(i) PROVE Closes(job, b, p)'
    <2> DEFINE t == orphans[i]
    <2>1. t \in Bodies /\ t.kind = Closing
      BY <1>5, <1>6
    <2>2. Succeeds(t, processed)
      BY <1>5, <2>1 DEF Succeeds, Closing
    <2>3. processed' = Effect(t, processed) /\ tx' = tx /\ scenario' = scenario
      BY <1>8, <2>2 DEF LandOrphan
    <2>4. orphans' \in Seq(Bodies) /\ Removed(orphans, orphans', i)
      BY <1>6, <1>8, Removes DEF LandOrphan
    <2>5. /\ \A k \in DOMAIN orphans' :
                /\ Index(k, i) \in DOMAIN orphans \ {i}
                /\ orphans'[k] = orphans[Index(k, i)]
          /\ \A j, k \in DOMAIN orphans' : j # k => Index(j, i) # Index(k, i)
          /\ \A j \in DOMAIN orphans \ {i} : \E k \in DOMAIN orphans' :
                orphans'[k] = orphans[j]
      BY <1>6, <2>4, RemovedIndex
    <2>6. \A s \in 1..ClaimStatuses :
             processed'.statuses[s] = IF s \in ToSet(t.value) THEN Absent
                                      ELSE processed.statuses[s]
      BY <1>6, <2>1, <2>2, <2>3, EffectCloses DEF ClosedBy
    <2>7. \A k \in (b + 1)..n : list[k] \notin ToSet(t.value)
      BY <1>5, <1>15
    <2>8. /\ \A k \in (b + 1)..n :
                processed'.statuses[list[k]] = processed.statuses[list[k]]
          /\ \A k \in (b + 1)..p :
                processed'.statuses[list[k]] = processed.statuses[list[k]]
      BY <1>2, <2>6, <2>7
    <2>9. /\ \A k \in (b + 1)..n :
                processed'.statuses[list[k]] = Absent => tx'.status = "ok" /\ k <= p
          /\ tx'.status = "ok" =>
                \A k \in (b + 1)..p : processed'.statuses[list[k]] = Absent
          /\ tx'.status \in {"failed", "expired"} =>
                \E k \in (b + 1)..p : Foreign(job, k)'
      BY <1>3, <2>3, <2>8 DEF Foreign
    <2>10. ASSUME NEW k \in 1..b
           PROVE  \/ processed'.statuses[list[k]] = Absent
                  \/ \E j \in DOMAIN orphans' : list[k] \in ToSet(orphans'[j].value)
      <3>1. list[k] \in 1..ClaimStatuses
        BY <1>2
      <3>2. CASE processed.statuses[list[k]] = Absent \/ list[k] \in ToSet(t.value)
        BY <2>6, <3>1, <3>2
      <3>3. ASSUME NEW j \in DOMAIN orphans, j # i,
                   list[k] \in ToSet(orphans[j].value)
            PROVE  \E l \in DOMAIN orphans' : list[k] \in ToSet(orphans'[l].value)
        <4>1. PICK l \in DOMAIN orphans' : orphans'[l] = orphans[j]
          BY <2>5, <3>3
        <4> QED
          BY <3>3, <4>1
      <3> QED
        BY <1>4, <3>2, <3>3
    <2>11. ASSUME NEW k \in DOMAIN orphans', NEW s \in ToSet(orphans'[k].value)
           PROVE  /\ orphans'[k].kind = Closing
                  /\ processed'.statuses[s] = orphans'[k].signer
                  /\ \E j \in 1..b : s = list[j]
      <3> DEFINE j == Index(k, i)
      <3>1. j \in DOMAIN orphans /\ j # i /\ orphans'[k] = orphans[j]
        BY <2>5
      <3> HIDE DEF j
      <3>2. /\ processed.statuses[s] = orphans[j].signer
            /\ \E l \in 1..b : s = list[l]
            /\ s \notin ToSet(t.value)
        BY <1>5, <2>11, <3>1
      <3>3. s \in 1..ClaimStatuses
        BY <1>2, <3>2
      <3> QED
        BY <1>5, <2>6, <3>1, <3>2, <3>3
    <2>12. \A k \in DOMAIN orphans' : orphans'[k].kind = Closing
      BY <1>5, <2>5
    <2>13. ASSUME NEW j \in DOMAIN orphans', NEW k \in DOMAIN orphans', j # k,
                  NEW s \in ToSet(orphans'[j].value)
           PROVE  s \notin ToSet(orphans'[k].value)
      BY <1>5, <2>5, <2>13
    <2>14. /\ job.trees \in Seq(1..ClaimStatuses)
           /\ \A j, k \in 1..Len(job.trees) : job.trees[j] = job.trees[k] => j = k
           /\ b <= p /\ p <= Len(job.trees)
      BY <1>1 DEF n
    <2>15. (/\ \A k \in (b + 1)..Len(job.trees) :
                 processed.statuses[job.trees[k]] = Absent =>
                    tx.status = "ok" /\ k <= p
            /\ tx.status = "ok" =>
                 \A k \in (b + 1)..p : processed.statuses[job.trees[k]] = Absent
            /\ tx.status \in {"failed", "expired"} =>
                 \E k \in (b + 1)..p : Foreign(job, k)
            /\ \A k \in 1..b :
                 \/ processed.statuses[job.trees[k]] = Absent
                 \/ \E j \in DOMAIN orphans :
                       job.trees[k] \in ToSet(orphans[j].value))'
      BY <2>9, <2>10 DEF n
    <2>16. (/\ \A k \in DOMAIN orphans :
                 /\ orphans[k].kind = Closing
                 /\ \A s \in ToSet(orphans[k].value) :
                       /\ processed.statuses[s] = orphans[k].signer
                       /\ \E j \in 1..b : s = job.trees[j]
            /\ \A j, k \in DOMAIN orphans :
                 j # k => \A s \in ToSet(orphans[j].value) :
                             s \notin ToSet(orphans[k].value))'
      BY <2>11, <2>12, <2>13
    <2> QED
      BY <2>14, <2>15, <2>16 DEF Closes
  <1>9. ASSUME Expire PROVE Closes(job, b, p)'
    <2>1. /\ orphans' = orphans /\ processed' = processed /\ scenario' = scenario
          /\ tx.status = "failed" /\ tx' = [tx EXCEPT !.status = "expired"]
      BY <1>9, AdminAssumption DEF Expire, Fault, chain, ShapeInv
    <2>2. tx'.status = "expired"
      BY <1>6, <2>1 DEF TxOK, NoTx
    <2>3. \A k \in (b + 1)..n : processed'.statuses[list[k]] # Absent
      BY <1>3, <2>1
    <2>4. \E k \in (b + 1)..p : Foreign(job, k)'
      BY <1>3, <2>1 DEF Foreign
    <2> QED
      BY <1>1, <1>4, <1>5, <2>1, <2>2, <2>3, <2>4 DEF Closes, n
  <1>10. ASSUME Finalize \/ Tick PROVE Closes(job, b, p)'
    <2>1. /\ processed' = processed /\ tx' = tx /\ orphans' = orphans
          /\ scenario' = scenario
      BY <1>10 DEF Finalize, Tick, chain
    <2>2. \A k : Foreign(job, k)' <=> Foreign(job, k)
      BY <2>1 DEF Foreign
    <2> QED
      BY <2>1, <2>2 DEF Closes
  <1> QED
    BY <1>7, <1>8, <1>9, <1>10

Gathered(job, b, p) == ToSet(job.batch) = {job.trees[k] : k \in (b + 1)..p}

LEMMA BatchIs ==
    ASSUME NEW job, NEW b \in Nat, NEW p \in Nat, b <= p, Placed(job, b, p),
           NEW S, job.batch \in Seq(S)
    PROVE  Gathered(job, b, p)
  <1> DEFINE batch == job.batch
  <1>1. DOMAIN batch = 1..Len(batch)
    BY Indexed
  <1>2. Len(batch) = p - b /\ \A k \in 1..Len(batch) : batch[k] = job.trees[b + k]
    BY DEF Placed
  <1>3. /\ \A k \in 1..(p - b) : b + k \in (b + 1)..p
        /\ \A k \in (b + 1)..p : k - b \in 1..(p - b) /\ b + (k - b) = k
    OBVIOUS
  <1> HIDE DEF batch
  <1>4. ASSUME NEW s \in ToSet(batch)
        PROVE  s \in {job.trees[k] : k \in (b + 1)..p}
    <2>1. PICK k \in 1..(p - b) : s = batch[k]
      BY <1>1, <1>2 DEF ToSet
    <2> QED
      BY <1>2, <1>3, <2>1
  <1>5. ASSUME NEW k \in (b + 1)..p PROVE job.trees[k] \in ToSet(batch)
    <2>1. batch[k - b] = job.trees[k] /\ k - b \in DOMAIN batch
      BY <1>1, <1>2, <1>3
    <2> QED
      BY <2>1 DEF ToSet
  <1> QED
    BY <1>4, <1>5 DEF batch, Gathered

\* What a node that looks at finalized accepts is all the job's own.
LEMMA AcceptedIsOwn ==
    ASSUME ShapeInv, StatusInv, NEW job, NEW b \in Nat, NEW p \in Nat,
           Closes(job, b, p), Batched(job, b, p), tx.status # "ok",
           job.keypair \in Wallets, Accepted(finalized),
           NEW k \in (b + 1)..p
    PROVE  ~Foreign(job, k) /\ processed.statuses[job.trees[k]] = job.keypair
  <1> DEFINE s == job.trees[k]
  <1>1. job.trees \in Seq(1..ClaimStatuses) /\ p <= Len(job.trees)
    BY DEF Closes
  <1>2. Len(job.trees) \in Nat /\ \A j \in 1..Len(job.trees) : job.trees[j] \in 1..ClaimStatuses
    BY <1>1, Indexed
  <1>3. k \in 1..Len(job.trees) /\ k \in (b + 1)..Len(job.trees)
    BY <1>1, <1>2
  <1>4. s \in 1..ClaimStatuses /\ processed.statuses[s] # Absent
    BY <1>2, <1>3 DEF Closes
  <1>5. finalized.statuses[s] = job.keypair
    BY DEF Accepted, Succeeds, Batched, Closing
  <1>6. Absent \notin Wallets
    BY AdminAssumption
  <1> QED
    BY <1>4, <1>5, <1>6 DEF StatusInv, Foreign

\* What it refuses has a foreign one, if it fits into a packet.
LEMMA RefusedIsForeign ==
    ASSUME ShapeInv, StatusInv, NEW job, NEW b \in Nat, NEW p \in Nat,
           Closes(job, b, p), Batched(job, b, p), tx.status # "ok",
           Len(tx.body.value) <= TxLimit, ~Accepted(finalized)
    PROVE  \E k \in (b + 1)..p : Foreign(job, k)
  <1>1. CASE tx.status = "expired"
    BY <1>1 DEF Closes
  <1>2. CASE tx.status # "expired"
    <2>1. PICK s \in ToSet(tx.body.value) : finalized.statuses[s] # tx.body.signer
      BY <1>2 DEF Accepted, Succeeds, Batched, Closing
    <2>2. PICK k \in (b + 1)..p : s = job.trees[k]
      BY <2>1 DEF Batched
    <2>3. job.trees \in Seq(1..ClaimStatuses) /\ p <= Len(job.trees)
      BY DEF Closes
    <2>4. /\ Len(job.trees) \in Nat
          /\ \A j \in 1..Len(job.trees) : job.trees[j] \in 1..ClaimStatuses
      BY <2>3, Indexed
    <2>5. k \in 1..Len(job.trees) /\ k \in (b + 1)..Len(job.trees)
      BY <2>3, <2>4
    <2>6. s \in 1..ClaimStatuses /\ processed.statuses[s] # Absent
      BY <2>2, <2>4, <2>5 DEF Closes
    <2>7. tx.body.signer = job.keypair
      BY DEF Batched
    <2> QED
      BY <2>1, <2>2, <2>6, <2>7 DEF StatusInv, Foreign
  <1> QED
    BY <1>1, <1>2

\* The batch grows, or is sent and comes back.
LEMMA ClosesMoves ==
    ASSUME NEW job, NEW next, next.trees = job.trees, next.keypair = job.keypair,
           NEW b \in Nat, NEW p \in Nat, NEW q \in Nat, p <= q,
           q <= Len(job.trees), Closes(job, b, p),
           UNCHANGED <<scenario, processed, orphans>>,
           tx.status = "ok" => tx'.status = "ok" /\ q = p,
           tx'.status = "ok" => tx.status = "ok" /\ q = p,
           tx'.status \in {"failed", "expired"} =>
              tx.status \in {"failed", "expired"} /\ q = p
    PROVE  Closes(next, b, q)'
  <1>1. /\ job.trees \in Seq(1..ClaimStatuses)
        /\ \A j, k \in 1..Len(job.trees) : job.trees[j] = job.trees[k] => j = k
        /\ b <= p
    BY DEF Closes
  <1>2. Len(job.trees) \in Nat
    BY <1>1, Indexed
  <1>3. b <= q
    BY <1>1
  <1>4. \A k \in (b + 1)..Len(job.trees) :
           processed'.statuses[job.trees[k]] = Absent => tx'.status = "ok" /\ k <= q
    BY DEF Closes
  <1>5. tx'.status = "ok" =>
           \A k \in (b + 1)..q : processed'.statuses[job.trees[k]] = Absent
    BY DEF Closes
  <1>6. tx'.status \in {"failed", "expired"} =>
           \E k \in (b + 1)..q : Foreign(next, k)'
    BY DEF Closes, Foreign
  <1>7. (/\ \A k \in 1..b :
              \/ processed.statuses[job.trees[k]] = Absent
              \/ \E i \in DOMAIN orphans : job.trees[k] \in ToSet(orphans[i].value)
         /\ \A i \in DOMAIN orphans :
              /\ orphans[i].kind = Closing
              /\ \A s \in ToSet(orphans[i].value) :
                    /\ processed.statuses[s] = orphans[i].signer
                    /\ \E k \in 1..b : s = job.trees[k]
         /\ \A i, j \in DOMAIN orphans :
              i # j => \A s \in ToSet(orphans[i].value) :
                          s \notin ToSet(orphans[j].value))'
    BY DEF Closes
  <1> QED
    BY <1>1, <1>3, <1>4, <1>5, <1>6, <1>7 DEF Closes

\* The batch was submitted, or has landed.
LEMMA ClosesOn ==
    ASSUME ShapeInv, StatusInv, NEW job, NEW next, next.trees = job.trees,
           next.keypair = job.keypair, job.keypair \in Wallets,
           NEW b \in Nat, NEW p \in Nat, Closes(job, b, p), Batched(job, b, p),
           tx.body \in Bodies, UNCHANGED <<scenario, processed>>, tx' = NoTx,
           \/ tx.status = "ok" /\ orphans' = orphans /\ p = Len(job.trees)
           \/ /\ tx.status # "ok" /\ Accepted(finalized)
              /\ orphans' = Append(orphans, tx.body)
    PROVE  Closes(next, p, p)'
  <1> DEFINE list == job.trees
             n == Len(list)
             t == tx.body
  <1>1. /\ list \in Seq(1..ClaimStatuses)
        /\ \A j, k \in 1..Len(list) : list[j] = list[k] => j = k
        /\ b <= p /\ p <= Len(list)
    BY DEF Closes
  <1>2. n \in Nat
    BY <1>1, Indexed
  <1>3. tx'.status = "none"
    BY DEF NoTx
  <1>4. \A k \in (p + 1)..n : processed'.statuses[list[k]] # Absent
    <2>1. \A k \in (p + 1)..n : k \in (b + 1)..n /\ ~(k <= p)
      BY <1>1, <1>2
    <2> QED
      BY <2>1 DEF Closes
  <1>5. /\ \A k \in 1..b :
              \/ processed.statuses[list[k]] = Absent
              \/ \E i \in DOMAIN orphans : list[k] \in ToSet(orphans[i].value)
        /\ \A i \in DOMAIN orphans :
              /\ orphans[i].kind = Closing
              /\ \A s \in ToSet(orphans[i].value) :
                    /\ processed.statuses[s] = orphans[i].signer
                    /\ \E k \in 1..b : s = list[k]
        /\ \A i, j \in DOMAIN orphans :
              i # j => \A s \in ToSet(orphans[i].value) :
                          s \notin ToSet(orphans[j].value)
    BY DEF Closes
  <1>6. /\ \A k \in 1..p : k \in 1..b \/ k \in (b + 1)..p
        /\ \A k \in 1..b : k \in 1..p /\ k \in 1..n
        /\ \A k \in (b + 1)..p : k \in 1..p /\ k \in 1..n
        /\ \A j \in 1..b, k \in (b + 1)..p : j # k
    BY <1>1, <1>2
  <1> DEFINE
        Ahead == \A k \in 1..p :
                    \/ processed'.statuses[list[k]] = Absent
                    \/ \E i \in DOMAIN orphans' : list[k] \in ToSet(orphans'[i].value)
        Sane == \A i \in DOMAIN orphans' :
                    /\ orphans'[i].kind = Closing
                    /\ \A s \in ToSet(orphans'[i].value) :
                          /\ processed'.statuses[s] = orphans'[i].signer
                          /\ \E k \in 1..p : s = list[k]
        Apart == \A i, j \in DOMAIN orphans' :
                    i # j => \A s \in ToSet(orphans'[i].value) :
                                s \notin ToSet(orphans'[j].value)
  <1>7. ASSUME Ahead, Sane, Apart PROVE Closes(next, p, p)'
    <2>0. next.trees = job.trees
      OBVIOUS
    <2>1. (\A k \in 1..p :
              \/ processed.statuses[next.trees[k]] = Absent
              \/ \E i \in DOMAIN orphans :
                    next.trees[k] \in ToSet(orphans[i].value))'
      BY ONLY <1>7, <2>0
    <2>2. (\A i \in DOMAIN orphans :
              /\ orphans[i].kind = Closing
              /\ \A s \in ToSet(orphans[i].value) :
                    /\ processed.statuses[s] = orphans[i].signer
                    /\ \E k \in 1..p : s = next.trees[k])'
      BY ONLY <1>7, <2>0
    <2>3. (\A i, j \in DOMAIN orphans :
              i # j => \A s \in ToSet(orphans[i].value) :
                          s \notin ToSet(orphans[j].value))'
      BY ONLY <1>7, <2>0
    <2>4. /\ next.trees \in Seq(1..ClaimStatuses)
          /\ \A j, k \in 1..Len(next.trees) : next.trees[j] = next.trees[k] => j = k
          /\ p <= p /\ p <= Len(next.trees)
      BY <1>1
    <2>5. (\A k \in (p + 1)..Len(next.trees) :
              processed.statuses[next.trees[k]] = Absent =>
                 tx.status = "ok" /\ k <= p)'
      BY <1>4
    <2>6. (/\ tx.status = "ok" =>
                \A k \in (p + 1)..p : processed.statuses[next.trees[k]] = Absent
           /\ tx.status \in {"failed", "expired"} =>
                \E k \in (p + 1)..p : Foreign(next, k))'
      BY <1>3
    <2> HIDE DEF Ahead, Sane, Apart, list, n, t
    <2> QED
      BY ONLY <2>1, <2>2, <2>3, <2>4, <2>5, <2>6 DEF Closes
  <1>8. CASE tx.status = "ok" /\ orphans' = orphans
    <2>1. \A k \in (b + 1)..p : processed'.statuses[list[k]] = Absent
      BY <1>8 DEF Closes
    <2>2. Ahead
      BY <1>5, <1>6, <1>8, <2>1
    <2>3. Sane
      BY <1>5, <1>6, <1>8
    <2>4. Apart
      BY <1>5, <1>8
    <2> QED
      BY <1>7, <2>2, <2>3, <2>4
  <1>9. CASE tx.status # "ok" /\ Accepted(finalized)
             /\ orphans' = Append(orphans, tx.body)
    <2>1. \A k \in (b + 1)..p : processed.statuses[list[k]] = job.keypair
      BY <1>9, AcceptedIsOwn
    <2>2. /\ t.kind = Closing /\ t.signer = job.keypair
          /\ ToSet(t.value) = {list[k] : k \in (b + 1)..p}
      BY DEF Batched
    <2>3. orphans \in Seq(Bodies) /\ Len(orphans) \in Nat
          /\ DOMAIN orphans = 1..Len(orphans)
      BY Indexed DEF ShapeInv
    <2>4. orphans' \in Seq(Bodies) /\ Grown(orphans, t, orphans')
      BY <1>9, <2>3, Appends
    <2>5. /\ DOMAIN orphans' = 1..(Len(orphans) + 1)
          /\ orphans'[Len(orphans) + 1] = t
          /\ \A i \in DOMAIN orphans : orphans'[i] = orphans[i]
      <3>1. DOMAIN orphans' = 1..Len(orphans')
        BY <2>4, Indexed
      <3> QED
        BY <2>3, <2>4, <3>1 DEF Grown
    <2> DEFINE new == Len(orphans) + 1
    <2>6. /\ new \in DOMAIN orphans' /\ orphans'[new] = t /\ new \notin DOMAIN orphans
          /\ \A i \in DOMAIN orphans' : i \in DOMAIN orphans \/ i = new
          /\ \A i \in DOMAIN orphans : i \in DOMAIN orphans'
      BY <2>3, <2>5
    <2> HIDE DEF new, t
    <2>7. Ahead
      <3>1. ASSUME NEW k \in 1..b
            PROVE  \/ processed'.statuses[list[k]] = Absent
                   \/ \E i \in DOMAIN orphans' : list[k] \in ToSet(orphans'[i].value)
        BY <1>5, <2>5, <2>6
      <3>2. ASSUME NEW k \in (b + 1)..p
            PROVE  \E i \in DOMAIN orphans' : list[k] \in ToSet(orphans'[i].value)
        BY <2>2, <2>6
      <3> QED
        BY <1>6, <3>1, <3>2
    <2>8. Sane
      <3>1. ASSUME NEW i \in DOMAIN orphans
            PROVE  /\ orphans'[i].kind = Closing
                   /\ \A s \in ToSet(orphans'[i].value) :
                         /\ processed'.statuses[s] = orphans'[i].signer
                         /\ \E k \in 1..p : s = list[k]
        BY <1>5, <1>6, <2>5
      <3>2. /\ orphans'[new].kind = Closing
            /\ \A s \in ToSet(orphans'[new].value) :
                  /\ processed'.statuses[s] = orphans'[new].signer
                  /\ \E k \in 1..p : s = list[k]
        BY <1>6, <2>1, <2>2, <2>6
      <3> QED
        BY <2>6, <3>1, <3>2
    <2>9. \A j \in 1..b, k \in (b + 1)..p : list[j] # list[k]
      BY <1>1, <1>6
    <2>10. ASSUME NEW i \in DOMAIN orphans, NEW s \in ToSet(orphans[i].value)
           PROVE  s \notin ToSet(t.value)
      <3>1. PICK j \in 1..b : s = list[j]
        BY <1>5
      <3>2. \A k \in (b + 1)..p : s # list[k]
        BY <2>9, <3>1
      <3>3. ToSet(t.value) = {list[k] : k \in (b + 1)..p}
        BY <2>2
      <3> QED
        BY ONLY <3>2, <3>3
    <2>11. Apart
      <3> SUFFICES ASSUME NEW i \in DOMAIN orphans', NEW j \in DOMAIN orphans',
                          i # j, NEW s, s \in ToSet(orphans'[i].value),
                          s \in ToSet(orphans'[j].value)
                   PROVE  FALSE
        OBVIOUS
      <3>1. CASE i \in DOMAIN orphans /\ j \in DOMAIN orphans
        BY <1>5, <2>5, <3>1
      <3>2. CASE i = new
        BY <2>5, <2>6, <2>10, <3>2
      <3>3. CASE j = new
        BY <2>5, <2>6, <2>10, <3>3
      <3> QED
        BY <2>6, <3>1, <3>2, <3>3
    <2> QED
      BY <1>7, <2>7, <2>8, <2>11
  <1> QED
    BY <1>8, <1>9

\* The next claim status joins the batch.
LEMMA PlacedTakes ==
    ASSUME NEW job, NEW next, NEW b \in Nat, NEW p \in Nat, b <= p, NEW S,
           job.queue \in Seq(S), job.batch \in Seq(S), job.trees \in Seq(S),
           job.queue # <<>>, Placed(job, b, p), next.trees = job.trees,
           next.queue = Tail(job.queue),
           next.batch = Append(job.batch, Head(job.queue))
    PROVE  /\ p + 1 <= Len(job.trees)
           /\ Placed(next, b, p + 1)
           /\ Len(next.batch) = p + 1 - b
  <1>1. PICK queue, batch, trees : queue = job.queue /\ batch = job.batch
                                   /\ trees = job.trees
    OBVIOUS
  <1>2. /\ queue \in Seq(S) /\ batch \in Seq(S) /\ trees \in Seq(S)
        /\ queue # <<>>
    BY <1>1
  <1>3. /\ Len(queue) = Len(trees) - p
        /\ \A k \in 1..Len(queue) : queue[k] = trees[p + k]
        /\ Len(batch) = p - b
        /\ \A k \in 1..Len(batch) : batch[k] = trees[b + k]
    BY <1>1 DEF Placed
  <1> DEFINE e == Head(queue)
             rest == Tail(queue)
             grown == Append(batch, e)
  <1>4. /\ Len(queue) \in Nat /\ Len(queue) > 0
        /\ e = queue[1] /\ e \in S
        /\ rest \in Seq(S) /\ Len(rest) = Len(queue) - 1
        /\ \A k \in 1..Len(rest) : rest[k] = queue[k + 1]
    BY <1>2
  <1>5. Grown(batch, e, grown)
    BY <1>2, <1>4, Appends
  <1>6. Len(trees) \in Nat
    BY <1>2, Indexed
  <1> HIDE DEF e, rest, grown
  <1>7. /\ p + 1 <= Len(trees) /\ Len(rest) = Len(trees) - (p + 1)
        /\ Len(grown) = p + 1 - b
    BY <1>3, <1>4, <1>5, <1>6 DEF Grown
  <1>8. ASSUME NEW k \in 1..Len(rest) PROVE rest[k] = trees[p + 1 + k]
    <2>1. k + 1 \in 1..Len(queue) /\ p + (k + 1) = p + 1 + k
      BY <1>4
    <2> QED
      BY <1>3, <1>4, <2>1
  <1>9. ASSUME NEW k \in 1..Len(grown) PROVE grown[k] = trees[b + k]
    <2>1. CASE k = p - b + 1
      <3>1. 1 \in 1..Len(queue) /\ b + k = p + 1
        BY <1>4, <2>1
      <3>2. e = trees[p + 1]
        BY <1>3, <1>4, <3>1
      <3> QED
        BY <1>3, <1>5, <2>1, <3>1, <3>2 DEF Grown
    <2>2. CASE k # p - b + 1
      <3>1. k \in 1..Len(batch)
        BY <1>3, <1>7, <2>2
      <3> QED
        BY <1>3, <1>5, <3>1 DEF Grown
    <2> QED
      BY <2>1, <2>2
  <1>10. next.queue = rest /\ next.batch = grown /\ next.trees = trees
    BY <1>1 DEF rest, grown, e
  <1>11. PICK q : q = p + 1
    OBVIOUS
  <1>12. /\ Len(next.queue) = Len(next.trees) - q
         /\ \A k \in 1..Len(next.queue) : next.queue[k] = next.trees[q + k]
    BY <1>7, <1>8, <1>10, <1>11
  <1>13. /\ Len(next.batch) = q - b
         /\ \A k \in 1..Len(next.batch) : next.batch[k] = next.trees[b + k]
    <2>1. \A k \in 1..Len(next.batch) : next.batch[k] = next.trees[b + k]
      BY <1>9, <1>10
    <2>2. Len(next.batch) = p + 1 - b
      BY <1>7, <1>10
    <2>3. Len(next.batch) = q - b
      BY ONLY <1>11, <2>2
    <2> QED
      BY ONLY <2>1, <2>3
  <1>14. Placed(next, b, q)
    BY Zenon, <1>12, <1>13 DEF Placed
  <1> QED
    BY <1>1, <1>7, <1>11, <1>13, <1>14

\* A move goes on with the command, or ends it.
LEMMA Continues ==
    ASSUME ShapeInv, Move
    PROVE  \/ /\ cli' # Idle
              /\ cli'.command = cli.command /\ cli'.before = cli.before
           \/ /\ cli' = Idle
              /\ last'.command = cli.command /\ last'.before = cli.before
  <1> DEFINE Same2 == \/ /\ cli' # Idle
                         /\ cli'.command = cli.command /\ cli'.before = cli.before
                      \/ /\ cli' = Idle
                         /\ last'.command = cli.command
                         /\ last'.before = cli.before
  <1>1. ASSUME NEW pc, NEW queue, NEW batch, NEW accepted, NEW expired,
               CliNow(pc, queue, batch, accepted, expired), pc # "idle"
        PROVE  Same2
    BY <1>1 DEF CliNow, Idle
  <1>2. ASSUME NEW result, NEW batch, NEW accepted, NEW expired,
               Ended(result, batch, accepted, expired)
        PROVE  Same2
    BY <1>2 DEF Ended
  <1> SUFFICES Same2
    OBVIOUS
  <1> HIDE DEF Same2
  <1>3. CASE Panicking
    BY <1>2, <1>3 DEF Panicking
  <1>4. CASE Skipping
    BY <1>1, <1>4 DEF Skipping
  <1>5. CASE Signing
    <2>1. \E way \in {"simulate", "submit", "send_and_confirm"} :
             CliNow(way, cli.queue, cli.batch, cli.accepted, cli.expired)
      BY <1>5 DEF Signing
    <2> QED
      BY <1>1, <2>1
  <1>6. CASE Taking
    BY <1>1, <1>6 DEF Taking
  <1>7. CASE Finishing
    BY <1>1, <1>2, <1>7 DEF Finishing
  <1>8. CASE Sending
    <2>1. \E pc \in {"spin", "loop", "confirm"} :
             CliNow(pc, cli.queue, cli.batch, cli.accepted, cli.expired)
      BY <1>8 DEF Sending
    <2> QED
      BY <1>1, <2>1
  <1>9. ASSUME NEW ok \in BOOLEAN, NEW expired \in BOOLEAN,
               NEW delivered \in BOOLEAN, Returning(ok, expired, delivered)
        PROVE  Same2
    <2>1. Outcome(ok, expired)
      BY <1>9 DEF Returning
    <2> QED
      BY <1>1, <1>2, <2>1 DEF Outcome
  <1> QED
    BY <1>3, <1>4, <1>5, <1>6, <1>7, <1>8, <1>9 DEF Move, Same2

\* The command goes on.
LEMMA KeepsClosing ==
    ASSUME NEW next, next = cli', cli' # Idle, NEW b \in Nat, NEW p \in Nat,
           next.before <= faults', Len(next.trees) \in Nat,
           b <= Len(next.trees), p <= Len(next.trees),
           Closes(next, b, p)', Placed(next, b, p), InTurn(next, b, p)'
    PROVE  CloseInv'
  <1>1. b \in 0..Len(next.trees) /\ p \in 0..Len(next.trees)
    OBVIOUS
  <1>2. Closes(cli, b, p)'
    BY DEF Closes, Foreign
  <1>3. Placed(cli, b, p)' /\ InTurn(cli, b, p)'
    BY DEF Placed, InTurn, Blocked, Foreign
  <1>4. (\E i, j \in 0..Len(cli.trees) :
           Closes(cli, i, j) /\ Placed(cli, i, j) /\ InTurn(cli, i, j))'
    BY <1>1, <1>2, <1>3
  <1> QED
    BY <1>4 DEF CloseInv

\* The command ends.
LEMMA EndsClosing ==
    ASSUME NEW next, next = last', cli' = Idle, NEW b \in Nat,
           next.before \in Nat, next.before <= faults',
           Len(next.trees) \in Nat, b <= Len(next.trees),
           Closes(next, b, Len(next.trees))',
           b = Len(next.trees) \/ (Even(b) /\ Blocked(next, b)')
    PROVE  CloseInv'
  <1>1. b \in 0..Len(next.trees)
    OBVIOUS
  <1>2. Closes(last, b, Len(last.trees))'
    BY DEF Closes, Foreign
  <1>3. (b = Len(last.trees) \/ (Even(b) /\ Blocked(last, b)))'
    BY DEF Blocked, Foreign
  <1>4. (\E i \in 0..Len(last.trees) :
           /\ Closes(last, i, Len(last.trees))
           /\ i = Len(last.trees) \/ (Even(i) /\ Blocked(last, i)))'
    BY <1>1, <1>2, <1>3
  <1> QED
    BY <1>4 DEF CloseInv

\* The job goes on as it is.
Alike(job, next) ==
    /\ next.trees = job.trees /\ next.keypair = job.keypair
    /\ next.before = job.before

\* A claim status joins the batch.
LEMMA TakingCloses ==
    ASSUME ShapeInv, cli # Idle, NEW job, job = cli, job.command = Closing,
           job.before <= faults', NEW b \in Nat, NEW p \in Nat,
           Closes(job, b, p), Placed(job, b, p), InTurn(job, b, p),
           UNCHANGED <<scenario, processed>>, Taking
    PROVE  CloseInv'
  <1>1. Running(job) /\ tx = NoTx
    BY DEF ShapeInv, CliOK, TxOK, Taking, Ways
  <1>2. /\ job.queue \in Seq(1..ClaimStatuses) /\ job.trees \in Seq(1..ClaimStatuses)
        /\ job.batch \in Seq(1..ClaimStatuses) /\ Len(job.trees) \in Nat
    BY <1>1 DEF Running
  <1>3. b <= p /\ p <= Len(job.trees)
    BY DEF Closes
  <1>4. PICK next : next = cli'
    OBVIOUS
  <1> DEFINE batch == Append(job.batch, Head(job.queue))
  <1>5. /\ job.pc = "next" /\ job.queue # <<>> /\ orphans' = orphans
        /\ \/ /\ Len(batch) < BatchSize
              /\ CliNow("next", Tail(cli.queue), batch, cli.accepted, cli.expired)
              /\ tx' = tx
           \/ /\ Len(batch) >= BatchSize
              /\ CliNow("submit", Tail(cli.queue), batch, cli.accepted, cli.expired)
              /\ tx'.status = "signed"
    BY DEF Taking, Signed
  <1> HIDE DEF batch
  <1>16. /\ cli' # Idle /\ Alike(job, next)
         /\ next.queue = Tail(job.queue) /\ next.batch = batch
         /\ next.pc \in {"next", "submit"}
         /\ next.pc = "next" => Len(batch) < BatchSize /\ tx' = tx
         /\ next.pc = "submit" => tx'.status = "signed"
    <2>1. CASE /\ Len(batch) < BatchSize
               /\ CliNow("next", Tail(cli.queue), batch, cli.accepted, cli.expired)
               /\ tx' = tx
      BY <1>4, <2>1 DEF CliNow, Idle, Alike
    <2>2. CASE /\ CliNow("submit", Tail(cli.queue), batch, cli.accepted, cli.expired)
               /\ tx'.status = "signed"
      BY <1>4, <2>2 DEF CliNow, Idle, Alike
    <2> QED
      BY <1>5, <2>1, <2>2
  <1>6. /\ cli' # Idle /\ Alike(job, next)
        /\ next.queue = Tail(job.queue) /\ next.batch = batch
        /\ \/ Len(batch) < BatchSize /\ tx' = tx
           \/ next.pc = "submit" /\ tx'.status = "signed"
    BY <1>16
  <1>7. /\ p + 1 <= Len(job.trees)
        /\ Placed(next, b, p + 1)
        /\ Len(next.batch) = p + 1 - b
    BY <1>2, <1>3, <1>5, <1>6, PlacedTakes DEF Alike, batch
  <1>8. tx.status = "none" /\ tx'.status \in {"none", "signed"}
    BY <1>1, <1>6 DEF NoTx
  <1>9. Closes(next, b, p + 1)'
    BY <1>3, <1>5, <1>6, <1>7, <1>8, ClosesMoves DEF Alike
  <1>10. Blocked(job, b) => Blocked(next, b)'
    BY <1>6 DEF Blocked, Foreign, Alike
  <1>11. BatchSize \in Nat \ {0}
    BY AdminAssumption
  <1>12. (p + 1) - b > BatchSize => p - b > BatchSize \/ p - b = BatchSize
    BY <1>3, <1>11
  <1>13. (p + 1) - b = BatchSize => next.pc = "submit"
    BY <1>3, <1>6, <1>7, <1>11
  <1>14. (p + 1) - b > BatchSize => Blocked(next, b)'
    BY <1>5, <1>10, <1>12 DEF InTurn
  <1>15. InTurn(next, b, p + 1)'
    <2>1. Even(b)
      BY DEF InTurn
    <2> QED
      BY <1>13, <1>14, <2>1 DEF InTurn
  <1> QED
    BY <1>2, <1>3, <1>4, <1>6, <1>7, <1>9, <1>15, KeepsClosing DEF Alike

\* The list has come to its end.
LEMMA FinishingCloses ==
    ASSUME ShapeInv, cli # Idle, NEW job, job = cli, job.command = Closing,
           job.before <= faults', NEW b \in Nat, NEW p \in Nat,
           Closes(job, b, p), Placed(job, b, p), InTurn(job, b, p),
           UNCHANGED <<scenario, processed>>, Finishing
    PROVE  CloseInv'
  <1>1. Running(job) /\ tx = NoTx
    BY DEF ShapeInv, CliOK, TxOK, Finishing, Ways
  <1>2. /\ job.queue \in Seq(1..ClaimStatuses) /\ job.trees \in Seq(1..ClaimStatuses)
        /\ job.batch \in Seq(1..ClaimStatuses) /\ Len(job.trees) \in Nat
        /\ job.before \in Nat
    BY <1>1 DEF Running
  <1>3. b <= p /\ p <= Len(job.trees)
    BY DEF Closes
  <1>4. job.pc = "next" /\ job.queue = <<>> /\ orphans' = orphans
    BY DEF Finishing
  <1>5. p = Len(job.trees)
    BY <1>2, <1>4 DEF Placed
  <1>6. tx.status = "none"
    BY <1>1 DEF NoTx
  <1>7. ASSUME CliNow("send_and_confirm", cli.queue, cli.batch, cli.accepted,
                      cli.expired),
               Signed(Absent, cli.batch)
        PROVE  CloseInv'
    <2>1. PICK next : next = cli'
      OBVIOUS
    <2>2. /\ cli' # Idle /\ Alike(job, next) /\ next.queue = job.queue
          /\ next.batch = job.batch /\ next.pc = "send_and_confirm"
          /\ tx'.status = "signed"
      BY <1>7, <2>1 DEF CliNow, Idle, Alike, Signed
    <2>3. Closes(next, b, p)'
      BY <1>3, <1>4, <1>6, <2>2, ClosesMoves DEF Alike
    <2>4. Placed(next, b, p)
      BY <2>2 DEF Placed, Alike
    <2>5. InTurn(next, b, p)'
      <3>1. Blocked(job, b) => Blocked(next, b)'
        BY <2>2 DEF Blocked, Foreign, Alike
      <3> QED
        BY <1>4, <2>2, <3>1 DEF InTurn
    <2> QED
      BY <1>2, <1>3, <2>1, <2>2, <2>3, <2>4, <2>5, KeepsClosing DEF Alike
  <1>8. ASSUME job.batch = <<>>, tx' = tx,
               Ended("done", cli.batch, cli.accepted, cli.expired)
        PROVE  CloseInv'
    <2>1. PICK next : next = last'
      OBVIOUS
    <2>2. cli' = Idle /\ Alike(job, next)
      BY <1>8, <2>1 DEF Ended, Alike
    <2>3. Closes(next, b, p)'
      BY <1>3, <1>4, <1>6, <1>8, <2>2, ClosesMoves DEF Alike
    <2>4. b = Len(next.trees) /\ p = Len(next.trees)
      BY <1>3, <1>5, <1>8, <2>2 DEF Placed, Alike
    <2> QED
      BY <1>2, <2>1, <2>2, <2>3, <2>4, EndsClosing DEF Alike
  <1> QED
    BY <1>7, <1>8 DEF Finishing

\* The last batch is sent.
LEMMA SendingCloses ==
    ASSUME ShapeInv, cli # Idle, NEW job, job = cli, job.command = Closing,
           job.before <= faults', NEW b \in Nat, NEW p \in Nat,
           Closes(job, b, p), Placed(job, b, p), InTurn(job, b, p),
           UNCHANGED <<scenario, processed>>, Sending
    PROVE  CloseInv'
  <1>1. Running(job) /\ job.trees \in Seq(1..ClaimStatuses)
        /\ Len(job.trees) \in Nat /\ job.pc # "submit"
    BY DEF ShapeInv, CliOK, Running, Sending
  <1>2. b <= p /\ p <= Len(job.trees)
    BY DEF Closes
  <1>3. PICK next : next = cli'
    OBVIOUS
  <1>4. PICK pc \in {"spin", "loop", "confirm"} :
          CliNow(pc, cli.queue, cli.batch, cli.accepted, cli.expired)
    BY DEF Sending
  <1>5. /\ cli' # Idle /\ Alike(job, next) /\ next.queue = job.queue
        /\ next.batch = job.batch /\ next.pc # "submit" /\ orphans' = orphans
    BY <1>3, <1>4 DEF CliNow, Idle, Alike, Sending
  <1>6. tx = [status |-> tx.status, body |-> tx.body]
    BY OrphansGrow DEF ShapeInv, Sending
  <1>7. \/ tx'.status = tx.status
        \/ tx'.status = "sent" /\ tx.status = "signed"
    BY <1>6 DEF Sending
  <1>8. Closes(next, b, p)'
    BY <1>2, <1>5, <1>7, ClosesMoves DEF Alike
  <1>9. Placed(next, b, p)
    BY <1>5 DEF Placed, Alike
  <1>10. InTurn(next, b, p)'
    <2>1. Blocked(job, b) => Blocked(next, b)'
      BY <1>5 DEF Blocked, Foreign, Alike
    <2> QED
      BY <1>1, <1>5, <2>1 DEF InTurn
  <1> QED
    BY <1>1, <1>2, <1>3, <1>5, <1>8, <1>9, <1>10, KeepsClosing DEF Alike

\* The batch comes back, sent or not.
LEMMA ReturningCloses ==
    ASSUME ShapeInv, StatusInv, cli # Idle, NEW job, job = cli,
           job.command = Closing, job.before <= faults', faults' = faults,
           NEW b \in Nat, NEW p \in Nat,
           Closes(job, b, p), Placed(job, b, p), InTurn(job, b, p),
           UNCHANGED <<scenario, processed>>,
           NEW ok \in BOOLEAN, NEW expired \in BOOLEAN, NEW delivered \in BOOLEAN,
           Returning(ok, expired, delivered)
    PROVE  CloseInv'
  <1>1. /\ Running(job) /\ job.pc \in Ways /\ orphans \in Seq(Bodies) /\ TxOK
        /\ IF job.pc = "submit" THEN Len(job.batch) >= BatchSize
                                ELSE job.queue = <<>>
    BY DEF ShapeInv, CliOK, Returning
  <1>2. /\ job.queue \in Seq(1..ClaimStatuses) /\ job.trees \in Seq(1..ClaimStatuses)
        /\ job.batch \in Seq(1..ClaimStatuses) /\ Len(job.trees) \in Nat
        /\ job.before \in Nat /\ job.keypair \in Wallets
        /\ job.pc \in {"submit", "send_and_confirm", "spin"}
    BY <1>1 DEF Running, WaysOf, Closing, Ways, Setters
  <1>3. b <= p /\ p <= Len(job.trees)
    BY DEF Closes
  <1>4. /\ tx.body \in Bodies /\ OwnTx(job, tx.body)
        /\ tx = [status |-> tx.status, body |-> tx.body]
    BY <1>1, OrphansGrow
  <1>5. Batched(job, b, p) /\ tx.body.value = job.batch
    <2>1. /\ tx.body.kind = Closing /\ tx.body.signer = job.keypair
          /\ tx.body.value = job.batch
      BY <1>4 DEF OwnTx, KindOf, Closing
    <2>2. Gathered(job, b, p)
      BY <1>2, <1>3, BatchIs
    <2> QED
      BY <2>1, <2>2 DEF Batched, Gathered
  <1>6. Preflights = {finalized}
    BY DEF Preflights, Closing
  <1>7. BatchSize \in Nat \ {0} /\ TxLimit \in Nat /\ BatchSize <= TxLimit
    BY AdminAssumption
  <1>8. Len(job.batch) = p - b
    BY DEF Placed
  <1>9. ~expired /\ tx' = NoTx /\ tx'.status = "none"
    BY <1>2 DEF Returning, NoTx
  <1>10. Even(b)
    BY DEF InTurn
  <1>11. job.pc \in {"submit", "send_and_confirm"} =>
            tx.status \in {"signed", "expired"}
    BY <1>1 DEF TxOK, NoTx, Ways
  <1> DEFINE batch == IF ok THEN <<>> ELSE job.batch
             accepted == IF ok THEN job.accepted \cup ToSet(job.batch)
                               ELSE job.accepted
  <1>12. \/ /\ job.pc = "submit"
            /\ CliNow("next", cli.queue, batch, accepted, cli.expired)
         \/ /\ job.pc # "submit"
            /\ Ended("done", batch, accepted, cli.expired)
    BY DEF Returning, Outcome, Setters, Closing
  <1> HIDE DEF accepted
  <1>13. CASE job.pc = "submit"
    <2>1. PICK next : next = cli'
      OBVIOUS
    <2>2. /\ cli' # Idle /\ Alike(job, next) /\ next.queue = job.queue
          /\ next.batch = batch /\ next.pc = "next"
      <3> HIDE DEF batch
      <3> QED
        BY <1>12, <1>13, <2>1 DEF CliNow, Idle, Alike
    <2>3. delivered => Accepted(finalized)
      BY <1>6, <1>11, <1>13 DEF Returning
    <2>4. tx.status # "ok"
      BY <1>11, <1>13
    <2>5. CASE ok
      <3>1. delivered /\ orphans' = Append(orphans, tx.body)
        BY <1>9, <1>13, <2>5 DEF Returning
      <3>2. Closes(next, p, p)'
        BY <1>2, <1>4, <1>5, <1>9, <2>2, <2>3, <2>4, <3>1, ClosesOn DEF Alike
      <3>3. ~Blocked(job, b) \/ p < b + BatchSize
        <4> SUFFICES ASSUME Blocked(job, b), b + BatchSize <= p PROVE FALSE
          BY <1>7
        <4>1. PICK k \in (b + 1)..(b + BatchSize) : Foreign(job, k)
          BY DEF Blocked
        <4>2. k \in (b + 1)..p
          BY <1>7
        <4> QED
          BY <1>2, <1>5, <2>3, <2>4, <3>1, <4>1, <4>2, AcceptedIsOwn
      <3>4. p = b + BatchSize
        <4>1. p - b > BatchSize => Blocked(job, b)
          BY DEF InTurn
        <4> QED
          BY <1>1, <1>7, <1>8, <1>13, <3>3, <4>1
      <3>5. Even(p)
        <4>1. PICK m \in Nat : b = BatchSize * m
          BY <1>10 DEF Even
        <4>2. p = BatchSize * (m + 1)
          BY <1>7, <3>4, <4>1
        <4> QED
          BY <4>2 DEF Even
      <3>6. InTurn(next, p, p)'
        <4>1. ~(p - p > BatchSize) /\ p - p # BatchSize
          BY <1>7
        <4> QED
          BY <3>5, <4>1 DEF InTurn
      <3>7. Placed(next, p, p)
        <4>1. next.batch = <<>> /\ next.queue = job.queue /\ next.trees = job.trees
          BY <2>2, <2>5 DEF Alike
        <4>2. Len(next.batch) = p - p /\ 1..Len(next.batch) = {}
          BY <4>1
        <4>3. /\ Len(next.queue) = Len(next.trees) - p
              /\ \A k \in 1..Len(next.queue) : next.queue[k] = next.trees[p + k]
          BY <4>1 DEF Placed
        <4> QED
          BY <4>2, <4>3 DEF Placed
      <3> QED
        BY <1>2, <1>3, <2>1, <2>2, <3>2, <3>6, <3>7, KeepsClosing DEF Alike
    <2>6. CASE ~ok
      <3>1. ~Accepted(finalized)
        BY <1>6, <1>11, <1>13, <2>6 DEF Returning, Accepted
      <3>2. orphans' = orphans
        BY <2>3, <3>1 DEF Returning
      <3>3. Closes(next, b, p)'
        BY <1>3, <1>9, <2>2, <2>4, <3>2, ClosesMoves DEF Alike
      <3>4. Placed(next, b, p)
        BY <2>2, <2>6 DEF Placed, Alike
      <3>5. Blocked(job, b) => Blocked(next, b)'
        BY <2>2 DEF Blocked, Foreign, Alike
      <3>6. p - b = BatchSize => Blocked(job, b)
        <4> SUFFICES ASSUME p - b = BatchSize PROVE Blocked(job, b)
          OBVIOUS
        <4>1. Len(tx.body.value) <= TxLimit
          BY <1>5, <1>7, <1>8
        <4>2. PICK k \in (b + 1)..p : Foreign(job, k)
          BY <1>5, <2>4, <3>1, <4>1, RefusedIsForeign
        <4>3. k \in (b + 1)..(b + BatchSize) /\ k <= Len(job.trees)
          BY <1>2, <1>3, <1>7
        <4> QED
          BY <4>2, <4>3 DEF Blocked
      <3>7. InTurn(next, b, p)'
        BY <1>10, <3>5, <3>6 DEF InTurn
      <3> QED
        BY <1>2, <1>3, <2>1, <2>2, <3>3, <3>4, <3>7, KeepsClosing DEF Alike
    <2> QED
      BY <2>5, <2>6
  <1>14. CASE job.pc # "submit"
    <2>1. PICK next : next = last'
      OBVIOUS
    <2>2. cli' = Idle /\ Alike(job, next)
      <3> HIDE DEF batch
      <3> QED
        BY <1>12, <1>14, <2>1 DEF Ended, Alike
    <2>3. p = Len(job.trees)
      BY <1>1, <1>2, <1>3, <1>14 DEF Placed
    <2>4. orphans' = orphans
      BY <1>14 DEF Returning
    <2>5. CASE ok
      <3>1. tx.status = "ok"
        BY <1>9, <1>14, <2>5 DEF Returning
      <3>2. Closes(next, p, p)'
        BY <1>2, <1>4, <1>5, <1>9, <2>2, <2>3, <2>4, <3>1, ClosesOn DEF Alike
      <3> QED
        BY <1>2, <2>1, <2>2, <2>3, <3>2, EndsClosing DEF Alike
    <2>6. CASE ~ok
      <3>1. \/ tx.status \in {"failed", "expired"}
            \/ job.pc = "send_and_confirm" /\ ~Accepted(finalized)
        BY <1>2, <1>6, <1>14, <2>6 DEF Returning
      <3>2. tx.status # "ok"
        BY <1>11, <3>1
      <3>3. Closes(next, b, p)'
        BY <1>3, <1>9, <2>2, <2>4, <3>2, ClosesMoves DEF Alike
      <3>4. Blocked(job, b)
        <4>1. CASE p - b >= BatchSize
          BY <1>3, <1>7, <1>14, <4>1 DEF InTurn
        <4>2. CASE p - b < BatchSize
          <5>1. Len(tx.body.value) <= TxLimit
            BY <1>3, <1>5, <1>7, <1>8, <4>2
          <5>2. CASE tx.status \in {"failed", "expired"}
            <6>1. PICK k \in (b + 1)..p : Foreign(job, k)
              BY <5>2 DEF Closes
            <6>2. k \in (b + 1)..(b + BatchSize) /\ k <= Len(job.trees)
              BY <1>2, <1>3, <1>7, <4>2
            <6> QED
              BY <6>1, <6>2 DEF Blocked
          <5>3. CASE ~Accepted(finalized)
            <6>1. PICK k \in (b + 1)..p : Foreign(job, k)
              BY <1>5, <3>2, <5>1, <5>3, RefusedIsForeign
            <6>2. k \in (b + 1)..(b + BatchSize) /\ k <= Len(job.trees)
              BY <1>2, <1>3, <1>7, <4>2
            <6> QED
              BY <6>1, <6>2 DEF Blocked
          <5> QED
            BY <3>1, <5>2, <5>3
        <4> QED
          BY <1>3, <1>7, <4>1, <4>2
      <3>5. Blocked(next, b)'
        BY <2>2, <3>4 DEF Blocked, Foreign, Alike
      <3> QED
        BY <1>2, <1>3, <1>10, <2>1, <2>2, <2>3, <3>3, <3>5, EndsClosing DEF Alike
    <2> QED
      BY <2>5, <2>6
  <1> QED
    BY <1>13, <1>14

\* The moves of a command.
LEMMA MoveCloses ==
    ASSUME ShapeInv, StatusInv, CloseInv, Move
    PROVE  CloseInv'
  <1>1. /\ Running(cli) /\ cli # Idle /\ hasty' = hasty /\ faults \in Nat
        /\ UNCHANGED <<scenario, processed>>
        /\ faults' = faults \/ faults' = faults + 1
    BY AdminAssumption DEF ShapeInv, Move, CliOK, Quiet, FaultStep, Fault, chain
  <1> SUFFICES ASSUME ~hasty PROVE CloseInv'
    BY <1>1 DEF CloseInv
  <1>2. cli.before \in Nat
    BY <1>1 DEF Running
  <1>3. \/ /\ cli' # Idle
           /\ cli'.command = cli.command /\ cli'.before = cli.before
        \/ /\ cli' = Idle
           /\ last'.command = cli.command /\ last'.before = cli.before
    BY Continues
  <1>4. CASE cli.command # Closing
    BY <1>3, <1>4 DEF CloseInv
  <1>5. CASE cli.command = Closing
    <2>1. /\ cli.before <= faults
          /\ faults = cli.before =>
                \E b, p \in 0..Len(cli.trees) :
                   Closes(cli, b, p) /\ Placed(cli, b, p) /\ InTurn(cli, b, p)
      BY <1>1, <1>5 DEF CloseInv
    <2>2. cli.before <= faults'
      BY <1>1, <1>2, <2>1
    <2>3. CASE faults' # cli.before
      BY <1>2, <1>3, <2>2, <2>3 DEF CloseInv
    <2>4. CASE faults' = cli.before
      <3>1. faults = cli.before /\ faults' = faults
        BY <1>1, <1>2, <2>1, <2>4
      <3>2. PICK job : job = cli
        OBVIOUS
      <3>3. PICK b, p \in 0..Len(cli.trees) :
               Closes(cli, b, p) /\ Placed(cli, b, p) /\ InTurn(cli, b, p)
        BY <2>1, <3>1
      <3>4. /\ job.command = Closing /\ job.before <= faults'
            /\ b \in Nat /\ p \in Nat
            /\ Closes(job, b, p) /\ Placed(job, b, p) /\ InTurn(job, b, p)
        BY <1>5, <2>2, <3>2, <3>3
      <3>5. CASE Panicking
        <4>1. cli' = Idle /\ last'.result = "panicked"
          BY <3>5 DEF Panicking, Ended
        <4> QED
          BY <4>1 DEF CloseInv
      <3>6. CASE Taking
        BY <1>1, <3>2, <3>4, <3>6, TakingCloses
      <3>7. CASE Finishing
        BY <1>1, <3>2, <3>4, <3>7, FinishingCloses
      <3>8. CASE Sending
        BY <1>1, <3>2, <3>4, <3>8, SendingCloses
      <3>9. ASSUME NEW ok \in BOOLEAN, NEW expired \in BOOLEAN,
                   NEW delivered \in BOOLEAN, Returning(ok, expired, delivered)
            PROVE  CloseInv'
        BY <1>1, <3>1, <3>2, <3>4, <3>9, ReturningCloses
      <3>10. ~Skipping /\ ~Signing
        BY <1>5 DEF Skipping, Signing
      <3> QED
        BY <3>5, <3>6, <3>7, <3>8, <3>9, <3>10 DEF Move
    <2> QED
      BY <2>3, <2>4
  <1> QED
    BY <1>4, <1>5

\* A close-claim-status starts on a chain that has settled.
LEMMA BeginsClosing ==
    ASSUME ShapeInv, StatusInv, CloseInv, Beginning
    PROVE  CloseInv'
  <1>1. PICK next : next = cli'
    OBVIOUS
  <1>2. /\ Running(next) /\ cli' # Idle /\ next.pc = "next"
        /\ next.queue = next.trees /\ next.batch = <<>> /\ next.before = faults
        /\ next.command = Closing => next.trees = SetToSeq(Listed)
        /\ hasty' = (hasty \/ ~Settled)
        /\ UNCHANGED <<scenario, processed, finalized, tx, orphans, faults>>
    BY <1>1 DEF Beginning, chain
  <1>3. CASE hasty' \/ next.command # Closing
    BY <1>1, <1>2, <1>3 DEF CloseInv
  <1>4. CASE ~hasty' /\ next.command = Closing
    <2>1. processed = finalized /\ orphans = <<>> /\ tx = NoTx
      BY <1>2, <1>4 DEF Settled
    <2> DEFINE list == SetToSeq(Listed)
    <2>2. /\ list \in Seq(1..ClaimStatuses) /\ Len(list) \in Nat
          /\ \A k \in 1..Len(list) : list[k] \in Listed
          /\ \A j, k \in 1..Len(list) : list[j] = list[k] => j = k
      <3>1. IsFiniteSet(Listed) /\ Listed \subseteq 1..ClaimStatuses
        <4>1. IsFiniteSet(1..ClaimStatuses)
          BY FS_Interval, AdminAssumption
        <4> QED
          BY <4>1, FS_Subset DEF Listed
      <3>2. /\ list \in Seq(Listed)
            /\ \A j, k \in 1..Len(list) : list[j] = list[k] => j = k
        BY <3>1, Lists
      <3> HIDE DEF list
      <3>3. /\ Len(list) \in Nat /\ \A k \in 1..Len(list) : list[k] \in Listed
        BY <3>2, Indexed
      <3>4. list \in Seq(1..ClaimStatuses)
        BY <3>1, <3>2, Widens
      <3> QED
        BY <3>2, <3>3, <3>4
    <2> HIDE DEF list
    <2>3. next.trees = list
      BY <1>2, <1>4 DEF list
    <2>4. /\ \A k \in 1..Len(list) : processed.statuses[list[k]] # Absent
          /\ tx'.status = "none" /\ DOMAIN orphans' = {}
      BY <1>2, <2>1, <2>2 DEF Listed, NoTx
    <2>5. Closes(next, 0, 0)'
      BY <1>2, <2>2, <2>3, <2>4 DEF Closes
    <2>6. Placed(next, 0, 0)
      BY <1>2, <2>2, <2>3 DEF Placed
    <2>7. InTurn(next, 0, 0)'
      <3>1. Even(0)
        BY AdminAssumption DEF Even
      <3> QED
        BY <3>1, AdminAssumption DEF InTurn
    <2>8. next.before <= faults'
      BY <1>2, AdminAssumption DEF ShapeInv
    <2> QED
      BY <1>1, <1>2, <2>2, <2>3, <2>5, <2>6, <2>7, <2>8, KeepsClosing
  <1> QED
    BY <1>3, <1>4

\* What goes on around it.
LEMMA AroundCloses ==
    ASSUME ShapeInv, StatusInv, CloseInv,
           \/ Land
           \/ \E i \in DOMAIN orphans : LandOrphan(i)
           \/ Expire
           \/ Finalize
           \/ Tick
    PROVE  CloseInv'
  <1>1. /\ UNCHANGED <<scenario, cli, last, hasty>> /\ faults \in Nat
        /\ faults' = faults \/ faults' = faults + 1
    BY AdminAssumption DEF Land, LandOrphan, Expire, Finalize, Tick, Fault, ShapeInv
  <1> SUFFICES ASSUME ~hasty PROVE CloseInv'
    BY <1>1 DEF CloseInv
  <1>2. CASE cli # Idle /\ cli.command = Closing
    <2>1. PICK job : job = cli
      OBVIOUS
    <2>2. /\ Running(job) /\ job.before \in Nat /\ job.before <= faults
          /\ faults = job.before =>
                \E b, p \in 0..Len(job.trees) :
                   Closes(job, b, p) /\ Placed(job, b, p) /\ InTurn(job, b, p)
          /\ job.trees \in Seq(1..ClaimStatuses) /\ Len(job.trees) \in Nat
          /\ job.batch \in Seq(1..ClaimStatuses)
      BY <1>2, <2>1 DEF CloseInv, ShapeInv, CliOK, Running
    <2>3. CASE faults' # job.before
      BY <1>1, <1>2, <2>1, <2>2, <2>3 DEF CloseInv
    <2>4. CASE faults' = job.before
      <3>1. faults = job.before /\ faults' = faults
        BY <1>1, <2>2, <2>4
      <3>2. PICK b, p \in 0..Len(job.trees) :
               Closes(job, b, p) /\ Placed(job, b, p) /\ InTurn(job, b, p)
        BY <2>2, <3>1
      <3>3. b \in Nat /\ p \in Nat /\ b <= Len(job.trees) /\ p <= Len(job.trees)
            /\ b <= p
        BY <2>2, <3>2 DEF Closes
      <3>4. tx # NoTx => Batched(job, b, p)
        <4> SUFFICES ASSUME tx # NoTx PROVE Batched(job, b, p)
          OBVIOUS
        <4>1. OwnTx(job, tx.body)
          BY <2>1 DEF ShapeInv, TxOK
        <4>2. /\ tx.body.kind = Closing /\ tx.body.signer = job.keypair
              /\ tx.body.value = job.batch
          BY <1>2, <2>1, <4>1 DEF OwnTx, KindOf, Closing
        <4>3. Gathered(job, b, p)
          BY <2>2, <3>2, <3>3, BatchIs
        <4> QED
          BY <4>2, <4>3 DEF Batched, Gathered
      <3>5. Closes(job, b, p)'
        BY <3>1, <3>2, <3>3, <3>4, ClosesAround
      <3>6. InTurn(job, b, p)'
        BY <1>1, <3>2 DEF InTurn, Blocked, Foreign
      <3>7. job = cli' /\ cli' # Idle /\ job.before <= faults'
        BY <1>1, <1>2, <2>1, <2>2, <2>4
      <3> QED
        BY <2>2, <3>2, <3>3, <3>5, <3>6, <3>7, KeepsClosing
    <2> QED
      BY <2>3, <2>4
  <1>3. CASE cli = Idle /\ last.result = "done" /\ last.command = Closing
    <2>1. PICK job : job = last
      OBVIOUS
    <2>2. /\ job.before \in Nat /\ job.before <= faults
          /\ faults = job.before =>
                \E b \in 0..Len(job.trees) :
                   /\ Closes(job, b, Len(job.trees))
                   /\ b = Len(job.trees) \/ (Even(b) /\ Blocked(job, b))
      BY <1>3, <2>1 DEF CloseInv
    <2>3. CASE faults' # job.before
      BY <1>1, <1>3, <2>1, <2>2, <2>3 DEF CloseInv
    <2>4. CASE faults' = job.before
      <3>1. faults = job.before /\ faults' = faults
        BY <1>1, <2>2, <2>4
      <3>2. PICK b \in 0..Len(job.trees) :
               /\ Closes(job, b, Len(job.trees))
               /\ b = Len(job.trees) \/ (Even(b) /\ Blocked(job, b))
        BY <2>2, <3>1
      <3>3. PICK p : p = Len(job.trees)
        OBVIOUS
      <3>4. job.trees \in Seq(1..ClaimStatuses) /\ p \in Nat /\ b \in Nat
            /\ b <= p /\ Closes(job, b, p)
        BY <3>2, <3>3 DEF Closes
      <3>5. tx = NoTx
        BY <1>3 DEF ShapeInv, TxOK
      <3>6. Closes(job, b, p)'
        BY <3>1, <3>4, <3>5, ClosesAround
      <3>7. b = Len(job.trees) \/ (Even(b) /\ Blocked(job, b)')
        BY <1>1, <3>2 DEF Blocked, Foreign
      <3>8. job = last' /\ cli' = Idle /\ job.before <= faults'
        BY <1>1, <1>3, <2>1, <2>2, <2>4
      <3> QED
        BY <2>2, <3>3, <3>4, <3>6, <3>7, <3>8, EndsClosing
    <2> QED
      BY <2>3, <2>4
  <1> QED
    BY <1>1, <1>2, <1>3 DEF CloseInv

\* A close-claim-status without faults that found the chain settled, once all
\* it sent has landed, has closed every claim status up to the batch with the
\* first one of another admin, however many there are and however they are
\* mixed.
THEOREM ClosedUpTo == Spec => []ClosedUpToForeign
  <1>1. Init => CloseInv
    BY DEF Init, CloseInv
  <1>2. ShapeInv /\ StatusInv /\ CloseInv /\ [Next]_vars => CloseInv'
    <2> SUFFICES ASSUME ShapeInv, StatusInv, CloseInv, [Next]_vars PROVE CloseInv'
      OBVIOUS
    <2>1. CASE Begin
      BY <2>1, Begins, BeginsClosing
    <2>2. CASE CliStep \/ Interrupt
      BY <2>2, Moves, Interrupts, MoveCloses
    <2>3. CASE \/ Land
               \/ \E i \in DOMAIN orphans : LandOrphan(i)
               \/ Expire
               \/ Finalize
               \/ Tick
      BY <2>3, AroundCloses
    <2>4. CASE UNCHANGED vars
      <3>1. \A b, p : /\ Closes(cli, b, p)' <=> Closes(cli, b, p)
                      /\ Closes(last, b, p)' <=> Closes(last, b, p)
        BY <2>4 DEF vars, chain, Closes, Foreign
      <3>2. \A b, p : /\ Placed(cli, b, p)' <=> Placed(cli, b, p)
                      /\ InTurn(cli, b, p)' <=> InTurn(cli, b, p)
                      /\ Blocked(last, b)' <=> Blocked(last, b)
        BY <2>4 DEF vars, chain, Placed, InTurn, Blocked, Foreign
      <3> QED
        BY <2>4, <3>1, <3>2 DEF vars, CloseInv
    <2> QED
      BY <2>1, <2>2, <2>3, <2>4 DEF Next
  <1>3. ShapeInv /\ CloseInv => ClosedUpToForeign
    <2> SUFFICES ASSUME ShapeInv, CloseInv, cli.pc = "idle", last.result = "done",
                        last.command = "close_claim_status", ~hasty,
                        orphans = <<>>, faults = last.before,
                        NEW i \in 1..Unblocked(last.trees, last.keypair)
                 PROVE  processed.statuses[last.trees[i]] = Absent
      BY DEF ClosedUpToForeign
    <2>1. cli = Idle
      BY DEF ShapeInv, CliOK, Running, WaysOf
    <2>2. PICK b \in 0..Len(last.trees) :
             /\ Closes(last, b, Len(last.trees))
             /\ b = Len(last.trees) \/ (Even(b) /\ Blocked(last, b))
      BY <2>1 DEF CloseInv, Closing
    <2>3. last.trees \in Seq(1..ClaimStatuses)
      BY <2>2 DEF Closes
    <2>4. i \in 1..b
      BY <2>2, <2>3, UnblockedWithin
    <2>5. DOMAIN orphans = {}
      OBVIOUS
    <2> QED
      BY <2>2, <2>4, <2>5 DEF Closes
  <1> QED
    BY <1>1, <1>2, <1>3, AdminShape, StatusesStay, PTL DEF Spec

=============================================================================
