------------------------------ MODULE MassSend ------------------------------
(***************************************************************************)
(* The mass-send and resend commands: tokens are sent to a list of         *)
(* addresses in batches, and a file records for every address the          *)
(* signature of the transaction that pays it.  mass-send skips the         *)
(* addresses in the file; resend sends again what it does not find         *)
(* finalized.                                                              *)
(***************************************************************************)
EXTENDS Integers, Sequences, FiniteSets, SequencesExt

CONSTANTS
    Addresses,      \* entries of the CSV
    BadAddresses,   \* those that do not parse as a public key
    MaxRows,        \* bound on the length of the CSV
    Limits,         \* arguments for max_address_per_tx
    LossyRpc,       \* may an RPC call fail?
    Crashes,        \* may the process die between sending and recording?
    MaxRuns,        \* bound on the commands the operator starts
    MaxTxs          \* bound on the transactions signed

ASSUME MassSendAssumption ==
    /\ BadAddresses \subseteq Addresses
    /\ MaxRows \in Nat
    /\ Limits \subseteq Nat
    /\ LossyRpc \in BOOLEAN
    /\ Crashes \in BOOLEAN
    /\ MaxRuns \in Nat
    /\ MaxTxs \in Nat

VARIABLES
    csv,       \* the addresses to pay, as the file lists them
    record,    \* the file at des_path: address to signature
    txs,       \* the transactions signed; the index is the signature
    command,   \* idle, mass_send or resend
    sent,      \* sent_addresses, the running command's copy of the record
    todo,      \* its batches, each with the signature it replaces if any
    unsaved,   \* is the copy newer than the file?
    corrupt,   \* was the file left truncated by a crash?
    runs,      \* how many commands were started
    disturbed  \* history: did a call fail, the process die, or a command
               \* start while something was in flight?

vars == <<csv, record, txs, command, sent, todo, unsaved, corrupt, runs,
          disturbed>>

Signature == 1..MaxTxs

-----------------------------------------------------------------------------
(* The chain. *)

\* A transaction lands or its blockhash expires; one that landed is later
\* seen at commitment finalized.
Progress(sig, status) ==
    /\ \/ /\ txs[sig].status = "sent"
          /\ status \in {"confirmed", "failed", "expired"}
       \/ /\ txs[sig].status = "confirmed"
          /\ status = "finalized"
    /\ txs' = [txs EXCEPT ![sig].status = status]
    /\ UNCHANGED <<csv, record, command, sent, todo, unsaved, corrupt, runs,
                   disturbed>>

Settled == \A sig \in DOMAIN txs : txs[sig].status \notin {"sent", "confirmed"}

-----------------------------------------------------------------------------
(* The commands. *)

\* The elements of a list that are in S, in their order.
Kept(list, S) ==
    LET kept[n \in 0..Len(list)] ==
            IF n = 0 THEN <<>>
            ELSE IF list[n] \in S THEN Append(kept[n - 1], list[n])
                 ELSE kept[n - 1]
    IN  kept[Len(list)]

\* send_for_batch_address: entries that are not public keys are left out.
Qualified(batch) == Kept(batch, Addresses \ BadAddresses)

\* An address joins the pending batch, which is closed when it is full.
WithAddress(split, a, max_address_per_tx) ==
    LET batch == Append(split.batch, a)
    IN  IF Len(batch) >= max_address_per_tx
        THEN [full |-> Append(split.full, batch), batch |-> <<>>]
        ELSE [full |-> split.full, batch |-> batch]

Batched(addresses, max_address_per_tx) ==
    LET split[n \in 0..Len(addresses)] ==
            IF n = 0 THEN [full |-> <<>>, batch |-> <<>>]
            ELSE WithAddress(split[n - 1], addresses[n], max_address_per_tx)
        all == split[Len(addresses)]
    IN  IF all.batch # <<>> THEN Append(all.full, all.batch) ELSE all.full

\* A file that does not parse ends either command at once.
Start(name) ==
    /\ command = "idle"
    /\ runs < MaxRuns
    /\ ~corrupt
    /\ command' = name
    /\ sent' = record
    /\ runs' = runs + 1
    /\ disturbed' = (disturbed \/ ~Settled)
    /\ UNCHANGED <<csv, record, txs, unsaved, corrupt>>

\* A slip for comparison: the record is not consulted.
StartMassSendAgain(max_address_per_tx) ==
    LET batches == Batched(csv, max_address_per_tx)
    IN  /\ Start("mass_send")
        /\ todo' = [i \in DOMAIN batches |-> [sig |-> 0, batch |-> batches[i]]]

StartMassSend(max_address_per_tx) ==
    LET unsent == Kept(csv, Addresses \ DOMAIN record)
        batches == Batched(unsent, max_address_per_tx)
    IN  /\ Start("mass_send")
        /\ todo' = [i \in DOMAIN batches |-> [sig |-> 0, batch |-> batches[i]]]

\* What a resend sends of a group: addresses beyond the limit are left out.
Fitting(addresses, max_address_per_tx) ==
    IF Len(addresses) > max_address_per_tx
    THEN SubSeq(addresses, 1, max_address_per_tx)
    ELSE addresses

\* The addresses that the record has for a signature.
Recorded(sig) == {a \in DOMAIN record : record[a] = sig}

\* The addresses are grouped by signature; both hash maps are read in an
\* order of their own.
StartResend(max_address_per_tx) ==
    /\ Start("resend")
    /\ \E list \in SetToSeqs(DOMAIN record),
          sigs \in SetToSeqs({record[a] : a \in DOMAIN record}) :
          todo' = [i \in DOMAIN sigs |->
                     [sig |-> sigs[i],
                      batch |-> Fitting(Kept(list, Recorded(sigs[i])),
                                        max_address_per_tx)]]

\* Slips for comparison: the whole batch is noted as sent; the note is not
\* written.
SendBatchNotingAll(batch) ==
    LET sig == Len(txs) + 1
    IN  /\ sig <= MaxTxs
        /\ todo' = Tail(todo)
        /\ txs' = Append(txs, [to |-> Qualified(batch), status |-> "sent"])
        /\ sent' = [a \in DOMAIN sent \cup ToSet(batch) |->
                      IF a \in ToSet(batch) THEN sig ELSE sent[a]]
        /\ unsaved' = TRUE
        /\ UNCHANGED <<csv, record, command, corrupt, runs, disturbed>>

SendBatchUnwritten(batch) ==
    LET to == Qualified(batch)
        sig == Len(txs) + 1
    IN  /\ sig <= MaxTxs
        /\ todo' = Tail(todo)
        /\ txs' = Append(txs, [to |-> to, status |-> "sent"])
        /\ sent' = [a \in DOMAIN sent \cup ToSet(to) |->
                      IF a \in ToSet(to) THEN sig ELSE sent[a]]
        /\ UNCHANGED <<csv, record, command, unsaved, corrupt, runs, disturbed>>

\* One batch is signed and sent.  When the call fails, nothing is noted and
\* the command goes on; the transaction may be on its way all the same.
SendBatch(batch) ==
    LET to == Qualified(batch)
        sig == Len(txs) + 1
        signed == [to |-> to, status |-> "sent"]
    IN  /\ sig <= MaxTxs
        /\ todo' = Tail(todo)
        /\ \/ /\ txs' = Append(txs, signed)
              /\ sent' = [a \in DOMAIN sent \cup ToSet(to) |->
                            IF a \in ToSet(to) THEN sig ELSE sent[a]]
              /\ unsaved' = TRUE
              /\ UNCHANGED disturbed
           \/ /\ LossyRpc
              /\ txs' \in {txs, Append(txs, signed)}
              /\ disturbed' = TRUE
              /\ UNCHANGED <<sent, unsaved>>
        /\ UNCHANGED <<csv, record, command, corrupt, runs>>

SendNextBatch ==
    /\ command = "mass_send"
    /\ todo # <<>>
    /\ ~unsaved
    /\ SendBatch(Head(todo).batch)

\* A signature is looked up at commitment finalized: an error, and no answer,
\* are reasons to send again; a failing call is none.
ResendNextGroup ==
    /\ command = "resend"
    /\ todo # <<>>
    /\ ~unsaved
    /\ \/ /\ txs[Head(todo).sig].status # "finalized"
          /\ SendBatch(Head(todo).batch)
       \/ /\ txs[Head(todo).sig].status = "finalized" \/ LossyRpc
          /\ todo' = Tail(todo)
          /\ UNCHANGED <<csv, record, txs, command, sent, unsaved, corrupt,
                         runs, disturbed>>

\* The whole map is written again after each transaction.
WriteRecord ==
    /\ unsaved
    /\ record' = sent
    /\ unsaved' = FALSE
    /\ UNCHANGED <<csv, txs, command, sent, todo, corrupt, runs, disturbed>>

\* The process dies.  File::create truncates the file before it is written.
Crash ==
    /\ Crashes
    /\ command # "idle"
    /\ command' = "idle"
    /\ corrupt' \in {FALSE, unsaved}
    /\ unsaved' = FALSE
    /\ todo' = <<>>
    /\ sent' = <<>>
    /\ disturbed' = TRUE
    /\ UNCHANGED <<csv, record, txs, runs>>

Finish ==
    /\ command # "idle"
    /\ todo = <<>>
    /\ ~unsaved
    /\ command' = "idle"
    /\ sent' = <<>>
    /\ UNCHANGED <<csv, record, txs, todo, unsaved, corrupt, runs, disturbed>>

-----------------------------------------------------------------------------
Init ==
    /\ \E n \in 1..MaxRows : csv \in [1..n -> Addresses]
    /\ record = <<>>
    /\ txs = <<>>
    /\ command = "idle"
    /\ sent = <<>>
    /\ todo = <<>>
    /\ unsaved = FALSE
    /\ corrupt = FALSE
    /\ runs = 0
    /\ disturbed = FALSE

Next ==
    \/ \E n \in Limits : StartMassSend(n)
    \/ \E n \in Limits : StartResend(n)
    \/ SendNextBatch
    \/ ResendNextGroup
    \/ WriteRecord
    \/ Crash
    \/ Finish
    \/ \E sig \in DOMAIN txs, status \in {"confirmed", "failed", "expired",
                                          "finalized"} : Progress(sig, status)

Spec == Init /\ [][Next]_vars

-----------------------------------------------------------------------------
(* Properties. *)

\* The record and the command's copy map addresses to signatures that exist;
\* the copy is newer than the file for one transaction at most.
TypeOK ==
    /\ DOMAIN record \subseteq Addresses \ BadAddresses
    /\ \A a \in DOMAIN record : record[a] \in DOMAIN txs
    /\ DOMAIN sent \subseteq Addresses \ BadAddresses
    /\ \A a \in DOMAIN sent : sent[a] \in DOMAIN txs
    /\ command \in {"idle", "mass_send", "resend"}
    /\ command # "idle" /\ ~unsaved => sent = record
    /\ \A sig \in DOMAIN txs :
          txs[sig].status \in {"sent", "confirmed", "failed", "expired",
                              "finalized"}

Occurrences(a, seq) == Cardinality({i \in DOMAIN seq : seq[i] = a})

Payments(a) ==
    SumFunction([sig \in DOMAIN txs |->
                   IF txs[sig].status \in {"confirmed", "finalized"}
                   THEN Occurrences(a, txs[sig].to) ELSE 0])

\* Nobody is paid more often than the CSV lists the address, over any sequence
\* of mass-sends and resends with any batch sizes, as long as no call fails,
\* no process dies and the operator waits until nothing is in flight:
\* transactions may fail or expire, and resend pays those again.
PaidOnceUndisturbed ==
    ~disturbed => \A a \in Addresses : Payments(a) <= Occurrences(a, csv)

\* What is noted for an address is the signature of a transaction to it.
Truthful(map) ==
    \A a \in DOMAIN map : map[a] \in DOMAIN txs /\ a \in ToSet(txs[map[a]].to)

\* The file never names a transaction for an address it does not pay, through
\* crashes, failing calls and groups too large for one transaction: resend
\* looks up the right signature.
RecordTellsTruth == Truthful(record)

\* "this addresses has been sent, skip": what has been sent is not sent again
\* by the next mass-send, so nobody is paid more often than listed.
PaidAtMostAsListed ==
    \A a \in Addresses : Payments(a) <= Occurrences(a, csv)

-----------------------------------------------------------------------------
(* The inductive invariant behind RecordTellsTruth. *)

Statuses == {"sent", "confirmed", "failed", "expired", "finalized"}

\* The lists of addresses that transactions pay.
Addressees(list) == {list[sig].to : sig \in DOMAIN list}

\* The command's copy of the record is as truthful as the file.
RecordIInv ==
    /\ txs \in Seq([to : Addressees(txs),
                    status : Statuses])
    /\ Truthful(record)
    /\ Truthful(sent)

-----------------------------------------------------------------------------
(* The inductive invariant behind PaidOnceUndisturbed. *)

Dead == {"failed", "expired"}
Payable == Addresses \ BadAddresses

\* A map from addresses that were sent to, to transactions.
IsRecord(map) ==
    /\ IsFiniteSet(DOMAIN map)
    /\ DOMAIN map \subseteq Payable
    /\ \A a \in DOMAIN map : map[a] \in DOMAIN txs

ShapeInv ==
    /\ csv \in Seq(Addresses)
    /\ txs \in Seq([to : Seq(Payable), status : Statuses])
    /\ todo \in Seq([sig : Nat, batch : Seq(Addresses)])
    /\ IsRecord(record)
    /\ IsRecord(sent)
    /\ command \in {"idle", "mass_send", "resend"}
    /\ unsaved \in BOOLEAN
    /\ command = "idle" => unsaved = FALSE /\ todo = <<>>
    /\ command # "idle" /\ unsaved = FALSE => sent = record

\* What is noted of the transactions sent so far.
Current == IF command = "idle" THEN record ELSE sent

\* Who is paid by a transaction is noted.
Noted(map, list) ==
    \A sig \in DOMAIN list : ToSet(list[sig].to) \subseteq DOMAIN map

\* Payments that happened or may happen: transactions not known to be dead.
LiveIn(a, tx) == IF tx.status \in Dead THEN 0 ELSE Occurrences(a, tx.to)
Live(a, list) == SumFunctionOnSet([sig \in DOMAIN list |-> LiveIn(a, list[sig])],
                                  DOMAIN list)

\* A payment that a resend would repeat: what is noted is dead.
Owed(a, map, list) ==
    IF a \in DOMAIN map /\ list[map[a]].status \in Dead THEN 1 ELSE 0

\* Payments that the batches of a mass-send still make.
Listed(a, list) ==
    SumFunctionOnSet([i \in DOMAIN list |-> Occurrences(a, list[i].batch)],
                     DOMAIN list)
Pending(a) == IF command = "resend" THEN 0 ELSE Listed(a, todo)

\* The groups of a resend have signatures of their own, their transactions
\* are over, and they hold every address once, whose noted signature is the
\* group's.
Group(item, map, list) ==
    /\ item.sig \in DOMAIN list
    /\ list[item.sig].status \in Dead \cup {"finalized"}
    /\ \A a \in ToSet(item.batch) : a \in DOMAIN map /\ map[a] = item.sig
    /\ \A a \in Addresses : Occurrences(a, item.batch) <= 1
Groups(items, map, list) ==
    /\ \A i \in DOMAIN items : Group(items[i], map, list)
    /\ \A i, j \in DOMAIN items : items[i].sig = items[j].sig => i = j

\* Never more than listed, counting what may still be paid.
CountInv ==
    /\ Noted(Current, txs)
    /\ \A a \in Addresses :
          Live(a, txs) + Owed(a, Current, txs) + Pending(a) <= Occurrences(a, csv)
    /\ command = "resend" => Groups(todo, sent, txs)

UndisturbedInv == ~disturbed => CountInv

=============================================================================
