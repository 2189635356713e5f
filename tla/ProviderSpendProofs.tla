------------------------ MODULE ProviderSpendProofs ------------------------
(***************************************************************************)
(* Proofs about ProviderSpend, for any number of scans, planned requests   *)
(* and workers, any spend limit and any bounds on leases and requests; and *)
(* about ResponseCache, where the answers of paid calls are kept, for any  *)
(* number of processes, cache keys, payloads and stored responses.         *)
(***************************************************************************)
EXTENDS ProviderSpend, ResponseCache, FiniteSetTheorems, WellFoundedInduction, TLAPS

----------------------------------------------------------------------------
(* The inductive invariant.                                                *)

\* Lease tokens are issued once, and a worker is at a call of its own scan whose row
\* exists.
TokenInv ==
    /\ \A s \in Scans : lease[s] <= leases[s]
    /\ \A w \in Workers : pc[w] # "idle" => token[w] \in 1 .. leases[scan[w]]
    /\ \A v, w \in Workers :
          pc[v] # "idle" /\ pc[w] # "idle" /\ scan[v] = scan[w] /\ token[v] = token[w] => v = w
    /\ \A w \in Workers : pc[w] \in AtCall =>
          /\ ScanOf[call[w]] = scan[w]
          /\ row[call[w]].status # "absent" /\ copy[w].status # "absent"

PreparedRow == [status |-> "prepared", attempt |-> "prepared", reservation |-> "none",
                network |-> FALSE]
ReservedRow == [status |-> "prepared", attempt |-> "reserved", reservation |-> "reserved",
                network |-> FALSE]
SubmittedRow == [status |-> "in_flight", attempt |-> "in_flight", reservation |-> "reserved",
                 network |-> TRUE]

\* A worker holds its lease, and the row of its call is as it left it.
Work(w) ==
    /\ LeaseCurrent(w)
    /\ pc[w] \in AtCall => copy[w] = row[call[w]]
    /\ pc[w] = "prepared" => copy[w] = PreparedRow
    /\ pc[w] = "reserved" => copy[w] = ReservedRow
    /\ pc[w] \in Submitted => copy[w] = SubmittedRow
    /\ pc[w] \in {"submitted", "sending"} => billable[call[w]] = lost[call[w]]
    /\ pc[w] \in {"awaiting", "answered"} => billable[call[w]] = lost[call[w]] + 1

WorkInv == \A w \in Workers : pc[w] # "idle" => Work(w)

\* What a row of api_calls says of its reservation and of the requests, b, that may
\* have cost money, l of which are those whose paid answer could not be stored.
RowInv(r, b, l) ==
    /\ b \in {l, l + 1}
    /\ r.status \in Reusable \cup {"absent"} =>
          b = l /\ r.reservation \notin {"reserved", "reconciled_unknown"}
    /\ r.attempt = "prepared" => r.reservation = "none" /\ ~r.network /\ b = l
    /\ r.attempt = "reserved" => r.reservation = "reserved" /\ ~r.network /\ b = l
    /\ r.attempt = "in_flight" => r.reservation = "reserved" /\ r.network
    /\ r.reservation = "reserved" => r.attempt \in {"reserved", "in_flight"}
    /\ r.reservation = "reconciled_unknown" <=> r.attempt = "provider_outcome_unknown"
    /\ r.reservation = "reconciled_unknown" => r.status = "provider_outcome_unknown"

Held == {c \in Calls : row[c].reservation = "reserved"}
Open == {c \in Calls : row[c].reservation = "reconciled_unknown"}
\* Calls with a request that may have cost money and is still on the ledger as a
\* reservation or as unreconciled.
AtRisk == {c \in Calls : /\ billable[c] = lost[c] + 1
                         /\ row[c].reservation \in {"reserved", "reconciled_unknown"}}
Requests == UNION {{c} \X (1 .. billable[c]) : c \in Calls}

\* The bucket counts every reservation once and every request that may have cost money
\* at least once, and was within the limit when the last reservation was made.
BucketInv ==
    /\ reserved = Cardinality(Held)
    /\ unreconciled = Cardinality(Open)
    /\ IsFiniteSet(Requests)
    /\ Cardinality(Requests) <= spend + Cardinality(AtRisk)
    /\ spend + reserved + unreconciled <= Limit

RowsInv == \A c \in Calls : RowInv(row[c], billable[c], lost[c])

\* All this holds until recovery overtakes a worker that is still at its call.
CalmInv == overtaken \/ (WorkInv /\ RowsInv /\ BucketInv)

\* A worker's copy of its row is what it last wrote.
CopyInv ==
    \A w \in Workers :
        /\ pc[w] \in {"prepared", "reserved"} => copy[w].status = "prepared" /\ ~copy[w].network
        /\ pc[w] \in Submitted => copy[w].status = "in_flight" /\ copy[w].network

TakenRow(r) == r.network /\ r.status \notin Reusable \cup {"absent"}

\* Unless its row was trampled, at most one worker is past submitting call c; then the
\* row says so, no answer is stored, and nobody else at c holds the scan's lease; and
\* the row of a stored answer cannot be used again.
Fresh(c) ==
    /\ \A w \in Workers : pc[w] \in Submitted /\ call[w] = c =>
          TakenRow(row[c]) /\ ~cached[c]
    /\ \A v, w \in Workers :
          pc[v] \in Submitted /\ call[v] = c /\ pc[w] \in Submitted /\ call[w] = c => v = w
    /\ \A w \in Workers : pc[w] \in {"prepared", "reserved"} /\ call[w] = c =>
          ~row[c].network \/ ~LeaseCurrent(w)
    /\ cached[c] => TakenRow(row[c])

FreshInv == \A c \in Calls : c \in trampled \/ Fresh(c)

IndInv == TypeOK /\ TokenInv /\ CalmInv /\ CopyInv /\ FreshInv
----------------------------------------------------------------------------
(* Rows and counts.                                                        *)

USE DEF Reusable, OpenAttempts, CallStatus, AttemptState, ReservationState, Labels, AtCall,
        Submitted

\* What a session writes: the columns that differ from its copy.
LEMMA MergedRow ==
  ASSUME NEW new \in Rows, NEW old \in Rows, NEW r \in Rows
  PROVE  LET m == [f \in DOMAIN new |-> IF new[f] # old[f] THEN new[f] ELSE r[f]] IN
         /\ m \in Rows
         /\ m.status = IF new.status # old.status THEN new.status ELSE r.status
         /\ m.network = IF new.network # old.network THEN new.network ELSE r.network
         /\ r = old => m = new
<1> DEFINE F == {"status", "attempt", "reservation", "network"}
           m == [f \in DOMAIN new |-> IF new[f] # old[f] THEN new[f] ELSE r[f]]
           rec == [status |-> m.status, attempt |-> m.attempt,
                   reservation |-> m.reservation, network |-> m.network]
<1>1. DOMAIN new = F /\ DOMAIN r = F
  BY DEF Rows
<1>2. m = [f \in F |-> IF new[f] # old[f] THEN new[f] ELSE r[f]]
  BY <1>1
<1>3. \A f \in F : m[f] = IF new[f] # old[f] THEN new[f] ELSE r[f]
  BY <1>2
<1>4. /\ m.status \in CallStatus /\ m.attempt \in AttemptState
      /\ m.reservation \in ReservationState
      /\ m.status = IF new.status # old.status THEN new.status ELSE r.status
  BY <1>3 DEF Rows
<1>5. /\ m.network \in BOOLEAN
      /\ m.network = IF new.network # old.network THEN new.network ELSE r.network
  BY <1>3, Zenon DEF Rows
<1>6. m = rec
  <2>1. DOMAIN m = F /\ DOMAIN rec = F
    BY <1>2
  <2>2. \A f \in F : m[f] = rec[f]
    OBVIOUS
  <2>3. rec = [f \in F |-> rec[f]]
    BY <2>1
  <2> QED
    BY <1>2, <2>2, <2>3
<1>7. m \in Rows
  BY <1>4, <1>5, <1>6 DEF Rows
<1>8. ASSUME r = old PROVE m = new
  <2>1. \A f \in F : m[f] = new[f]
    BY <1>3, <1>8
  <2>2. new = [f \in F |-> new[f]]
    BY <1>1 DEF Rows
  <2> QED
    BY <1>2, <2>1, <2>2
<1> QED
  BY <1>4, <1>5, <1>7, <1>8

\* A session's flush.
LEMMA WriteTypes ==
  ASSUME TypeOK, NEW w \in Workers, NEW new \in Rows, Write(w, new)
  PROVE  /\ row' \in [Calls -> Rows] /\ copy' \in [Workers -> Rows]
         /\ copy'[w] = new /\ \A v \in Workers : v # w => copy'[v] = copy[v]
         /\ \A c \in Calls : c # call[w] => row'[c] = row[c]
         /\ row'[call[w]].status = IF new.status # copy[w].status THEN new.status
                                   ELSE row[call[w]].status
         /\ row'[call[w]].network = IF new.network # copy[w].network THEN new.network
                                    ELSE row[call[w]].network
         /\ copy[w] = row[call[w]] => row' = [row EXCEPT ![call[w]] = new]
<1> DEFINE m == [f \in DOMAIN new |-> IF new[f] # copy[w][f] THEN new[f] ELSE row[call[w]][f]]
<1>1. call[w] \in Calls /\ copy[w] \in Rows /\ row[call[w]] \in Rows
  BY DEF TypeOK
<1>2. row' = [row EXCEPT ![call[w]] = m] /\ copy' = [copy EXCEPT ![w] = new]
  BY DEF Write
<1>3. /\ m \in Rows
      /\ m.status = IF new.status # copy[w].status THEN new.status ELSE row[call[w]].status
      /\ m.network = IF new.network # copy[w].network THEN new.network ELSE row[call[w]].network
      /\ row[call[w]] = copy[w] => m = new
  BY <1>1, MergedRow
<1> HIDE DEF m
<1>4. row' \in [Calls -> Rows] /\ copy' \in [Workers -> Rows]
  BY <1>1, <1>2, <1>3 DEF TypeOK
<1>5. row'[call[w]] = m /\ \A c \in Calls : c # call[w] => row'[c] = row[c]
  BY <1>1, <1>2 DEF TypeOK
<1> QED
  BY <1>1, <1>2, <1>3, <1>4, <1>5 DEF TypeOK

\* The rows that the actions of a worker write.
LEMMA NewRows ==
  ASSUME NEW r \in Rows
  PROVE  /\ LET n == [r EXCEPT !.attempt = "reserved", !.reservation = "reserved"] IN
            n \in Rows /\ n.status = r.status /\ n.network = r.network
         /\ LET n == [r EXCEPT !.status = "in_flight", !.attempt = "in_flight", !.network = TRUE] IN
            n \in Rows /\ n.status = "in_flight" /\ n.network = TRUE
         /\ LET n == [r EXCEPT !.status = "completed", !.attempt = "completed",
                               !.reservation = "finalized"] IN
            n \in Rows /\ n.status = "completed" /\ n.network = r.network
         /\ \A s \in Reusable :
               /\ [r EXCEPT !.status = s, !.attempt = s] \in Rows
               /\ [r EXCEPT !.status = s, !.attempt = s].status = s
               /\ [[r EXCEPT !.status = s, !.attempt = s] EXCEPT !.reservation = "finalized"] \in Rows
               /\ [[r EXCEPT !.status = s, !.attempt = s] EXCEPT !.reservation = "finalized"].status = s
         /\ LET n == [r EXCEPT !.status = "provider_outcome_unknown",
                               !.attempt = "provider_outcome_unknown",
                               !.reservation = "reconciled_unknown"] IN
            n \in Rows /\ n.status = "provider_outcome_unknown" /\ n.network = r.network
         /\ \A s \in {"completed", "provider_confirmed_not_billed"} :
               LET n == [r EXCEPT !.attempt = "reconciled", !.reservation = "finalized",
                                  !.status = s] IN
               n \in Rows /\ n.status = s
BY DEF Rows

\* The row after a failure, before and after its reservation is settled.
LEMMA FailedRows ==
  ASSUME NEW w, copy[w] \in Rows, NEW s \in Reusable
  PROVE  /\ Failed(w, s) \in Rows
         /\ Failed(w, s).status = s
         /\ Failed(w, s).network = copy[w].network
         /\ [Failed(w, s) EXCEPT !.reservation = "finalized"] \in Rows
         /\ [Failed(w, s) EXCEPT !.reservation = "finalized"].status = s
         /\ [Failed(w, s) EXCEPT !.reservation = "finalized"].network = copy[w].network
<1>1. s \in CallStatus /\ s \in AttemptState
  BY DEF Reusable, CallStatus, AttemptState
<1>2. PICK r \in Rows : r = copy[w]
  OBVIOUS
<1>3. /\ [r EXCEPT !.status = s, !.attempt = s] \in Rows
      /\ [r EXCEPT !.status = s, !.attempt = s].status = s
      /\ [r EXCEPT !.status = s, !.attempt = s].network = r.network
  BY <1>1 DEF Rows
<1>4. PICK f \in Rows : f = Failed(w, s) /\ f.status = s /\ f.network = copy[w].network
  BY <1>2, <1>3 DEF Failed
<1>5. /\ [f EXCEPT !.reservation = "finalized"] \in Rows
      /\ [f EXCEPT !.reservation = "finalized"].status = f.status
      /\ [f EXCEPT !.reservation = "finalized"].network = f.network
  BY DEF Rows, ReservationState
<1> QED
  BY <1>4, <1>5

\* The row after recovery.
LEMMA ReconciledRow ==
  ASSUME NEW r \in Rows
  PROVE  /\ Reconciled(r) \in Rows
         /\ Reconciled(r).status \in {"provider_outcome_unknown", "failed_before_network"}
         /\ Reconciled(r).network = r.network
         /\ r.network => Reconciled(r).status = "provider_outcome_unknown"
<1> DEFINE unknown == r.network \/ r.attempt = "in_flight"
           to == IF unknown THEN "provider_outcome_unknown" ELSE "failed_before_network"
           res == IF r.reservation # "reserved" THEN r.reservation
                  ELSE IF unknown THEN "reconciled_unknown" ELSE "released"
<1>1. Reconciled(r) = [r EXCEPT !.status = to, !.attempt = to, !.reservation = res]
  BY DEF Reconciled, Rows
<1>2. /\ to \in {"provider_outcome_unknown", "failed_before_network"} /\ res \in ReservationState
      /\ r.network => to = "provider_outcome_unknown"
  BY DEF Rows
<1> HIDE DEF to, res
<1> QED
  BY <1>1, <1>2 DEF Rows

\* The bucket after a call or a recovery stays well typed.
LEMMA BucketTypes ==
  ASSUME TypeOK
  PROVE  /\ \A unknown \in BOOLEAN, actual \in {0, 1} : Settle(unknown, actual) =>
               spend' \in Nat /\ reserved' \in Nat /\ unreconciled' \in Nat
         /\ \A stale \in SUBSET Calls : Reconcile(stale) =>
               /\ spend' \in Nat /\ reserved' \in Nat /\ unreconciled' \in Nat
               /\ row' \in [Calls -> Rows]
               /\ \A c \in Calls : row[c].status # "absent" => row'[c].status # "absent"
<1>1. ASSUME NEW unknown \in BOOLEAN, NEW actual \in {0, 1}, Settle(unknown, actual)
      PROVE  spend' \in Nat /\ reserved' \in Nat /\ unreconciled' \in Nat
  BY <1>1 DEF Settle, Less, TypeOK
<1>2. ASSUME NEW stale \in SUBSET Calls, Reconcile(stale)
      PROVE  /\ spend' \in Nat /\ reserved' \in Nat /\ unreconciled' \in Nat
             /\ row' \in [Calls -> Rows]
             /\ \A c \in Calls : row[c].status # "absent" => row'[c].status # "absent"
  <2> DEFINE after == [c \in Calls |-> IF c \in stale THEN Reconciled(row[c]) ELSE row[c]]
             settled(state) == Cardinality({c \in stale : /\ row[c].reservation = "reserved"
                                                          /\ after[c].reservation = state})
             freed == settled("released") + settled("reconciled_unknown")
  <2>1. /\ row' = after
        /\ reserved' = IF freed >= reserved THEN 0 ELSE reserved - freed
        /\ unreconciled' = unreconciled + settled("reconciled_unknown")
        /\ UNCHANGED spend
    BY <1>2 DEF Reconcile
  <2>2. IsFiniteSet(stale)
    BY SpendConstants, FS_Subset
  <2>3. settled("released") \in Nat /\ settled("reconciled_unknown") \in Nat
    BY <2>2, FS_Subset, FS_CardinalityType
  <2>4. /\ after \in [Calls -> Rows]
        /\ \A c \in Calls : row[c].status # "absent" => after[c].status # "absent"
    <3>1. \A c \in Calls : row[c] \in Rows
      BY DEF TypeOK
    <3> QED
      BY <3>1, ReconciledRow
  <2> HIDE DEF settled, after
  <2> QED
    BY <2>1, <2>3, <2>4 DEF TypeOK
<1> QED
  BY <1>1, <1>2

\* A worker that gives its scan up is idle; a lease only disappears.
LEMMA GiveUpTypes ==
  ASSUME TypeOK, NEW w \in Workers, GiveUp(w)
  PROVE  /\ pc' \in [Workers -> Labels] /\ pc'[w] = "idle"
         /\ \A v \in Workers : v # w => pc'[v] = pc[v]
         /\ lease' \in [Scans -> Nat] /\ UNCHANGED <<scan, call, token, leases>>
         /\ \A s \in Scans : lease'[s] \in {lease[s], 0}
         /\ \A s \in Scans : lease'[s] # lease[s] => s = scan[w] /\ LeaseCurrent(w)
BY DEF GiveUp, TypeOK

\* A step that issues no lease, in which workers stay at their calls, leave them, or
\* take up a call of their scan.
LEMMA TokenKept ==
  ASSUME TypeOK, TokenInv, UNCHANGED <<leases, scan, token>>,
         \A s \in Scans : lease'[s] \in {lease[s], 0},
         \A c \in Calls : row[c].status # "absent" => row'[c].status # "absent",
         \A w \in Workers : pc'[w] # "idle" => pc[w] # "idle",
         \A w \in Workers : pc'[w] \in AtCall =>
            \/ /\ pc[w] \in AtCall /\ call'[w] = call[w]
               /\ copy'[w] = copy[w] \/ copy'[w].status # "absent"
            \/ /\ ScanOf[call'[w]] = scan[w] /\ call'[w] \in Calls
               /\ row'[call'[w]].status # "absent" /\ copy'[w].status # "absent"
  PROVE  TokenInv'
<1>1. \A s \in Scans : lease[s] \in Nat /\ leases[s] \in Nat
  BY DEF TypeOK
<1>2. \A s \in Scans : lease'[s] <= leases'[s]
  BY <1>1 DEF TokenInv
<1>3. \A w \in Workers : pc'[w] # "idle" => token'[w] \in 1 .. leases'[scan'[w]]
  BY DEF TokenInv
<1>4. \A v, w \in Workers :
        pc'[v] # "idle" /\ pc'[w] # "idle" /\ scan'[v] = scan'[w] /\ token'[v] = token'[w] => v = w
  BY DEF TokenInv
<1>5. ASSUME NEW w \in Workers, pc'[w] \in AtCall
      PROVE  /\ ScanOf[call'[w]] = scan'[w]
             /\ row'[call'[w]].status # "absent" /\ copy'[w].status # "absent"
  <2>1. call[w] \in Calls
    BY DEF TypeOK
  <2>2. CASE /\ pc[w] \in AtCall /\ call'[w] = call[w]
             /\ copy'[w] = copy[w] \/ copy'[w].status # "absent"
    <3>1. /\ ScanOf[call[w]] = scan[w] /\ row[call[w]].status # "absent"
          /\ copy[w].status # "absent"
      BY <2>2 DEF TokenInv
    <3> QED
      BY <2>1, <2>2, <3>1
  <2>3. CASE /\ ScanOf[call'[w]] = scan[w] /\ call'[w] \in Calls
             /\ row'[call'[w]].status # "absent" /\ copy'[w].status # "absent"
    BY <2>3
  <2> QED
    BY <1>5, <2>2, <2>3
<1> QED
  BY <1>2, <1>3, <1>4, <1>5 DEF TokenInv

\* Every step keeps the types, and every lease token with one worker.
LEMMA TokenStep == IndInv /\ [Next]_vars => TypeOK' /\ TokenInv'
<1> SUFFICES ASSUME TypeOK, TokenInv, [Next]_vars PROVE TypeOK' /\ TokenInv'
  BY DEF IndInv
<1> USE DEF bucketVars, leaseVars, workerVars, history
<1>a. \A w \in Workers : copy[w] \in Rows /\ call[w] \in Calls /\ scan[w] \in Scans
  BY DEF TypeOK
<1>b. ASSUME TokenInv',
             row' \in [Calls -> Rows], cached' \in [Calls -> BOOLEAN],
             spend' \in Nat, reserved' \in Nat, unreconciled' \in Nat,
             lease' \in [Scans -> Nat], leases' \in [Scans -> Nat], pc' \in [Workers -> Labels],
             scan' \in [Workers -> Scans], call' \in [Workers -> Calls],
             token' \in [Workers -> Nat], copy' \in [Workers -> Rows],
             sends' \in [Calls -> Nat], billable' \in [Calls -> Nat], lost' \in [Calls -> Nat],
             overtaken' \in BOOLEAN, trampled' \subseteq Calls
      PROVE  TypeOK' /\ TokenInv'
  <2>1. \A w \in Workers : pc'[w] \in AtCall => row'[call'[w]].status # "absent"
    BY <1>b DEF TokenInv
  <2>2. \A w \in Workers : pc'[w] \in AtCall => row'[call'[w]] # NoRow
    BY <2>1 DEF NoRow
  <2> QED
    BY <1>b, <2>2 DEF TypeOK
\* a worker writes its row and stays at its call or gives up
<1>c. ASSUME NEW w \in Workers, NEW new \in Rows, Write(w, new), new.status # "absent",
             pc[w] \in AtCall,
             pc' \in [Workers -> Labels], \A v \in Workers : v # w => pc'[v] = pc[v],
             lease' \in [Scans -> Nat], \A s \in Scans : lease'[s] \in {lease[s], 0},
             UNCHANGED <<leases, scan, call, token, cached, sends, overtaken>>,
             spend' \in Nat, reserved' \in Nat, unreconciled' \in Nat,
             billable' \in [Calls -> Nat], lost' \in [Calls -> Nat], trampled' \subseteq Calls
      PROVE  TypeOK' /\ TokenInv'
  <2>1. row[call[w]].status # "absent"
    BY <1>c DEF TokenInv
  <2>2. \A c \in Calls : row[c].status # "absent" => row'[c].status # "absent"
    BY <1>c, <2>1, WriteTypes
  <2>3. \A v \in Workers : pc'[v] \in AtCall =>
           /\ pc[v] \in AtCall /\ call'[v] = call[v]
           /\ copy'[v] = copy[v] \/ copy'[v].status # "absent"
    BY <1>c, WriteTypes
  <2>4. TokenInv'
    BY <1>c, <2>2, <2>3, TokenKept
  <2> QED
    BY <1>b, <1>c, <2>4, WriteTypes DEF TypeOK
<1>1. ASSUME NEW w \in Workers, NEW s \in Scans, ClaimScan(w, s) PROVE TypeOK' /\ TokenInv'
  <2>1. /\ pc[w] = "idle" /\ lease[s] = 0
        /\ leases'[s] = leases[s] + 1 /\ lease'[s] = leases[s] + 1
        /\ \A t \in Scans : t # s => leases'[t] = leases[t] /\ lease'[t] = lease[t]
        /\ token'[w] = leases[s] + 1 /\ scan'[w] = s /\ pc'[w] = "running"
        /\ \A v \in Workers : v # w => pc'[v] = pc[v] /\ scan'[v] = scan[v] /\ token'[v] = token[v]
        /\ UNCHANGED <<row, cached, bucketVars, call, copy, history>>
    BY <1>1 DEF ClaimScan, TypeOK
  <2>2. \A t \in Scans : lease[t] \in Nat /\ leases[t] \in Nat
    BY DEF TypeOK
  <2>3. \A t \in Scans : lease'[t] <= leases'[t]
    BY <2>1, <2>2 DEF TokenInv
  <2>4. \A v \in Workers : v # w /\ pc[v] # "idle" => token[v] \in 1 .. leases[scan[v]]
    BY DEF TokenInv
  <2>5. \A v \in Workers : pc'[v] # "idle" => token'[v] \in 1 .. leases'[scan'[v]]
    <3>1. ASSUME NEW v \in Workers, pc'[v] # "idle" PROVE token'[v] \in 1 .. leases'[scan'[v]]
      <4>1. CASE v = w
        BY <2>1, <2>2, <4>1
      <4>2. CASE v # w
        <5>1. token[v] \in 1 .. leases[scan[v]] /\ scan[v] \in Scans
          BY <1>a, <2>1, <2>4, <3>1, <4>2
        <5>2. leases[scan[v]] \in Nat /\ leases'[scan[v]] \in {leases[scan[v]], leases[scan[v]] + 1}
          BY <2>1, <2>2, <5>1
        <5> QED
          BY <2>1, <4>2, <5>1, <5>2
      <4> QED
        BY <4>1, <4>2
    <3> QED
      BY <3>1
  <2>6. \A v \in Workers : v # w /\ pc[v] # "idle" /\ scan[v] = s => token[v] # leases[s] + 1
    <3>1. ASSUME NEW v \in Workers, v # w, pc[v] # "idle", scan[v] = s
          PROVE  token[v] # leases[s] + 1
      <4>1. token[v] \in 1 .. leases[s] /\ leases[s] \in Nat
        BY <2>2, <2>4, <3>1
      <4> QED
        BY <4>1
    <3> QED
      BY <3>1
  <2>7. ASSUME NEW u \in Workers, NEW v \in Workers, pc'[u] # "idle", pc'[v] # "idle",
               scan'[u] = scan'[v], token'[u] = token'[v]
        PROVE  u = v
    <3>1. CASE u # w /\ v # w
      BY <2>1, <2>7, <3>1 DEF TokenInv
    <3>2. CASE u = w \/ v = w
      BY <2>1, <2>6, <2>7, <3>2
    <3> QED
      BY <3>1, <3>2
  <2>8. ASSUME NEW v \in Workers, pc'[v] \in AtCall
        PROVE  /\ ScanOf[call'[v]] = scan'[v]
               /\ row'[call'[v]].status # "absent" /\ copy'[v].status # "absent"
    <3>1. v # w /\ pc[v] \in AtCall
      BY <2>1, <2>8
    <3>2. /\ ScanOf[call[v]] = scan[v] /\ row[call[v]].status # "absent"
          /\ copy[v].status # "absent"
      BY <3>1 DEF TokenInv
    <3> QED
      BY <2>1, <3>1, <3>2
  <2>9. TokenInv'
    BY <2>3, <2>5, <2>7, <2>8 DEF TokenInv
  <2> QED
    BY <1>1, <1>b, <2>9 DEF ClaimScan, TypeOK
<1>2. ASSUME NEW w \in Workers, LeaveScan(w) PROVE TypeOK' /\ TokenInv'
  <2>1. TokenInv'
    BY <1>2, GiveUpTypes, TokenKept DEF LeaveScan
  <2> QED
    BY <1>2, <1>b, <2>1, GiveUpTypes DEF LeaveScan, TypeOK
<1>3. ASSUME NEW w \in Workers, NEW c \in Calls, Prepare(w, c) PROVE TypeOK' /\ TokenInv'
  <2>1. PreparedRow \in Rows /\ PreparedRow.status # "absent"
    BY DEF PreparedRow, Rows
  <2>2. /\ row' = [row EXCEPT ![c] = PreparedRow] /\ copy' = [copy EXCEPT ![w] = PreparedRow]
        /\ call' = [call EXCEPT ![w] = c] /\ pc' = [pc EXCEPT ![w] = "prepared"]
        /\ pc[w] = "running" /\ ScanOf[c] = scan[w]
        /\ UNCHANGED <<cached, bucketVars, leaseVars, scan, token, history>>
    BY <1>3 DEF Prepare, PreparedRow
  <2> HIDE DEF PreparedRow
  <2>3. /\ row' \in [Calls -> Rows] /\ copy' \in [Workers -> Rows]
        /\ call' \in [Workers -> Calls] /\ pc' \in [Workers -> Labels]
    BY <2>1, <2>2 DEF TypeOK
  <2>4. /\ \A d \in Calls : row[d].status # "absent" => row'[d].status # "absent"
        /\ row'[c].status # "absent"
    BY <2>1, <2>2 DEF TypeOK
  <2>5. /\ \A v \in Workers : v # w => pc'[v] = pc[v] /\ call'[v] = call[v] /\ copy'[v] = copy[v]
        /\ call'[w] = c /\ copy'[w] = PreparedRow
    BY <2>2 DEF TypeOK
  <2>6. TokenInv'
    BY <2>1, <2>2, <2>4, <2>5, TokenKept
  <2> QED
    BY <1>b, <2>2, <2>3, <2>6 DEF TypeOK
<1>4. ASSUME NEW w \in Workers, NEW c \in Calls, ReplayCached(w, c) PROVE TypeOK' /\ TokenInv'
  <2> DEFINE hit == [status |-> "cache_hit", attempt |-> "cache_hit",
                     reservation |-> "none", network |-> FALSE]
  <2>1. hit \in Rows /\ hit.status # "absent"
    BY DEF Rows
  <2>2. /\ row' = [row EXCEPT ![c] = hit]
        /\ UNCHANGED <<cached, bucketVars, leaseVars, workerVars, history>>
    BY <1>4 DEF ReplayCached
  <2> HIDE DEF hit
  <2>3. /\ row' \in [Calls -> Rows]
        /\ \A d \in Calls : row[d].status # "absent" => row'[d].status # "absent"
    BY <2>1, <2>2 DEF TypeOK
  <2>4. TokenInv'
    BY <2>2, <2>3, TokenKept
  <2> QED
    BY <1>b, <2>2, <2>3, <2>4 DEF TypeOK
<1>5. ASSUME NEW w \in Workers, Reserve(w) PROVE TypeOK' /\ TokenInv'
  <2> DEFINE new == [copy[w] EXCEPT !.attempt = "reserved", !.reservation = "reserved"]
  <2>1. /\ pc[w] = "prepared" /\ Write(w, new)
        /\ reserved' = reserved + 1 /\ pc' = [pc EXCEPT ![w] = "reserved"]
        /\ UNCHANGED <<cached, spend, unreconciled, leaseVars, scan, call, token, history>>
    BY <1>5 DEF Reserve
  <2>2. new \in Rows /\ new.status # "absent"
    <3>1. copy[w] \in Rows /\ copy[w].status # "absent"
      BY <1>a, <2>1 DEF TokenInv
    <3> QED
      BY <3>1, NewRows
  <2> HIDE DEF new
  <2> QED
    BY <1>c, <2>1, <2>2 DEF TypeOK
<1>6. ASSUME NEW w \in Workers, ReserveRefused(w) PROVE TypeOK' /\ TokenInv'
  <2>1. PICK s \in Reusable : Write(w, Failed(w, s))
    BY <1>6 DEF ReserveRefused
  <2>2. Failed(w, s) \in Rows /\ Failed(w, s).status # "absent"
    BY <1>a, NewRows DEF Failed
  <2>3. /\ pc[w] = "prepared" /\ GiveUp(w)
        /\ UNCHANGED <<cached, bucketVars, sends, billable, lost, overtaken>>
        /\ trampled' \subseteq Calls
    BY <1>6, <1>a DEF ReserveRefused, Trample, TypeOK
  <2> QED
    BY <1>c, <2>1, <2>2, <2>3, GiveUpTypes DEF TypeOK
<1>7. ASSUME NEW w \in Workers, Submit(w) PROVE TypeOK' /\ TokenInv'
  <2> DEFINE new == [copy[w] EXCEPT !.status = "in_flight", !.attempt = "in_flight",
                                    !.network = TRUE]
  <2>1. /\ pc[w] = "reserved" /\ Write(w, new) /\ pc' = [pc EXCEPT ![w] = "submitted"]
        /\ UNCHANGED <<cached, bucketVars, leaseVars, scan, call, token, history>>
    BY <1>7 DEF Submit
  <2>2. new \in Rows /\ new.status # "absent"
    BY <1>a, NewRows
  <2> HIDE DEF new
  <2> QED
    BY <1>c, <2>1, <2>2 DEF TypeOK
<1>8. ASSUME NEW w \in Workers, SubmitRefused(w) PROVE TypeOK' /\ TokenInv'
  <2> DEFINE new == [Failed(w, "failed_before_network") EXCEPT !.reservation = "finalized"]
  <2>1. /\ pc[w] = "reserved" /\ Write(w, new) /\ Settle(FALSE, 0) /\ GiveUp(w)
        /\ UNCHANGED <<cached, sends, billable, lost, overtaken>>
        /\ trampled' \subseteq Calls
    BY <1>8, <1>a DEF SubmitRefused, Trample, TypeOK
  <2>2. new \in Rows /\ new.status # "absent"
    BY <1>a, NewRows DEF Failed
  <2>3. spend' \in Nat /\ reserved' \in Nat /\ unreconciled' \in Nat
    BY <2>1, BucketTypes
  <2> HIDE DEF new
  <2> QED
    BY <1>c, <2>1, <2>2, <2>3, GiveUpTypes DEF TypeOK
<1>9. ASSUME NEW w \in Workers, CheckBeforeSend(w) \/ Send(w) \/ CheckAnswer(w)
      PROVE  TypeOK' /\ TokenInv'
  <2>1. PICK l \in Submitted :
           /\ pc[w] \in Submitted /\ pc' = [pc EXCEPT ![w] = l]
           /\ UNCHANGED <<row, cached, bucketVars, leaseVars, scan, call, token, copy>>
           /\ UNCHANGED <<lost, overtaken, trampled>>
    BY <1>9 DEF CheckBeforeSend, Send, CheckAnswer
  <2>4. sends' \in [Calls -> Nat] /\ billable' \in [Calls -> Nat]
    BY <1>9, <1>a DEF CheckBeforeSend, Send, CheckAnswer, TypeOK
  <2>2. /\ pc' \in [Workers -> Labels]
        /\ \A v \in Workers : /\ pc'[v] # "idle" => pc[v] # "idle"
                              /\ pc'[v] \in AtCall => pc[v] \in AtCall
    BY <2>1 DEF TypeOK
  <2>3. TokenInv'
    BY <2>1, <2>2, TokenKept
  <2> QED
    BY <1>b, <2>1, <2>2, <2>3, <2>4 DEF TypeOK
<1>10. ASSUME NEW w \in Workers, NEW actual \in {0, 1}, Complete(w, actual) PROVE TypeOK' /\ TokenInv'
  <2> DEFINE new == [copy[w] EXCEPT !.status = "completed", !.attempt = "completed",
                                    !.reservation = "finalized"]
  <2>1. /\ pc[w] = "answered" /\ Write(w, new) /\ Settle(FALSE, actual)
        /\ cached' = [cached EXCEPT ![call[w]] = TRUE] /\ pc' = [pc EXCEPT ![w] = "running"]
        /\ UNCHANGED <<leaseVars, scan, call, token, sends, lost, overtaken, trampled>>
        /\ billable' = IF actual = 1 THEN billable ELSE NotBilled(call[w])
    BY <1>10 DEF Complete
  <2>2. new \in Rows /\ new.status # "absent"
    BY <1>a, NewRows
  <2> HIDE DEF new
  <2>3. spend' \in Nat /\ reserved' \in Nat /\ unreconciled' \in Nat
    BY <2>1, BucketTypes
  <2>4. billable' \in [Calls -> Nat] /\ cached' \in [Calls -> BOOLEAN]
    BY <1>a, <2>1 DEF NotBilled, TypeOK
  <2>5. /\ pc' \in [Workers -> Labels] /\ pc'[w] = "running"
        /\ \A v \in Workers : v # w => pc'[v] = pc[v]
    BY <2>1 DEF TypeOK
  <2>6. \A c \in Calls : row[c].status # "absent" => row'[c].status # "absent"
    BY <2>1, <2>2, WriteTypes
  <2>7. \A v \in Workers : pc'[v] \in AtCall =>
           pc[v] \in AtCall /\ call'[v] = call[v] /\ copy'[v] = copy[v]
    BY <2>1, <2>2, <2>5, WriteTypes
  <2>8. \A v \in Workers : pc'[v] # "idle" => pc[v] # "idle"
    BY <2>1, <2>5
  <2>9. TokenInv'
    BY <2>1, <2>6, <2>7, <2>8, TokenKept
  <2> QED
    BY <1>b, <2>1, <2>2, <2>3, <2>4, <2>5, <2>9, WriteTypes DEF TypeOK
<1>11. ASSUME NEW w \in Workers, NEW actual \in {0, 1}, Rejected(w) \/ StoreFails(w, actual)
       PROVE  TypeOK' /\ TokenInv'
  <2> DEFINE new == [Failed(w, "failed") EXCEPT !.reservation = "finalized"]
  <2>1. /\ pc[w] = "answered" /\ Write(w, new) /\ GiveUp(w)
        /\ UNCHANGED <<cached, sends, overtaken, trampled>>
    BY <1>11 DEF Rejected, StoreFails, FailedAnswer
  <2>2. new \in Rows /\ new.status # "absent"
    BY <1>a, NewRows DEF Failed
  <2>3. spend' \in Nat /\ reserved' \in Nat /\ unreconciled' \in Nat
    BY <1>11, BucketTypes DEF Rejected, StoreFails
  <2>4. billable' \in [Calls -> Nat] /\ lost' \in [Calls -> Nat]
    <3>1. NotBilled(call[w]) \in [Calls -> Nat] /\ [lost EXCEPT ![call[w]] = @ + 1] \in [Calls -> Nat]
      BY <1>a DEF NotBilled, TypeOK
    <3> QED
      BY <1>11, <3>1 DEF Rejected, StoreFails, TypeOK
  <2> HIDE DEF new
  <2> QED
    BY <1>c, <2>1, <2>2, <2>3, <2>4, GiveUpTypes DEF TypeOK
<1>12. ASSUME NEW w \in Workers, Ambiguous(w) PROVE TypeOK' /\ TokenInv'
  <2>1. /\ pc[w] \in AtCall /\ Write(w, Unknown(w)) /\ Settle(TRUE, 0) /\ GiveUp(w)
        /\ UNCHANGED <<cached, history>>
    BY <1>12 DEF Ambiguous
  <2>2. Unknown(w) \in Rows /\ Unknown(w).status # "absent"
    BY <1>a, NewRows DEF Unknown
  <2>3. spend' \in Nat /\ reserved' \in Nat /\ unreconciled' \in Nat
    BY <2>1, BucketTypes
  <2> QED
    BY <1>c, <2>1, <2>2, <2>3, GiveUpTypes DEF TypeOK
<1>13. ASSUME NEW s \in Scans, RecoverScan(s) PROVE TypeOK' /\ TokenInv'
  <2>1. /\ Reconcile(OpenCalls(s)) /\ lease' = [lease EXCEPT ![s] = 0]
        /\ UNCHANGED <<cached, leases, workerVars, sends, billable, lost, trampled>>
        /\ overtaken' \in BOOLEAN
    BY <1>13 DEF RecoverScan, TypeOK
  <2>2. OpenCalls(s) \in SUBSET Calls
    BY DEF OpenCalls
  <2>3. lease' \in [Scans -> Nat] /\ \A t \in Scans : lease'[t] \in {lease[t], 0}
    BY <2>1 DEF TypeOK
  <2>4. /\ spend' \in Nat /\ reserved' \in Nat /\ unreconciled' \in Nat
        /\ row' \in [Calls -> Rows]
        /\ \A c \in Calls : row[c].status # "absent" => row'[c].status # "absent"
    BY <2>1, <2>2, BucketTypes
  <2>5. TokenInv'
    BY <2>1, <2>3, <2>4, TokenKept
  <2> QED
    BY <1>b, <2>1, <2>3, <2>4, <2>5 DEF TypeOK
<1>14. ASSUME NEW c \in Calls, ReconcileAged(c) PROVE TypeOK' /\ TokenInv'
  <2>1. /\ Reconcile({c}) /\ UNCHANGED <<cached, leaseVars, workerVars, sends, billable, lost, trampled>>
        /\ overtaken' \in BOOLEAN
    BY <1>14 DEF ReconcileAged, TypeOK
  <2>2. /\ spend' \in Nat /\ reserved' \in Nat /\ unreconciled' \in Nat
        /\ row' \in [Calls -> Rows]
        /\ \A d \in Calls : row[d].status # "absent" => row'[d].status # "absent"
    BY <2>1, BucketTypes
  <2>3. TokenInv'
    BY <2>1, <2>2, TokenKept
  <2> QED
    BY <1>b, <2>1, <2>2, <2>3 DEF TypeOK
<1>15. ASSUME NEW c \in Calls, NEW actual \in {0, 1}, Resolve(c, actual) PROVE TypeOK' /\ TokenInv'
  <2> DEFINE to == IF actual = 1 THEN "completed" ELSE "provider_confirmed_not_billed"
             new == [row[c] EXCEPT !.attempt = "reconciled", !.reservation = "finalized",
                                   !.status = to]
  <2>1. /\ row' = [row EXCEPT ![c] = new]
        /\ UNCHANGED <<cached, reserved, leaseVars, workerVars, sends, lost, overtaken, trampled>>
    BY <1>15 DEF Resolve
  <2>2. new \in Rows /\ new.status # "absent"
    <3>1. row[c] \in Rows /\ to \in {"completed", "provider_confirmed_not_billed"}
      BY DEF TypeOK
    <3> HIDE DEF to
    <3> QED
      BY <3>1, NewRows
  <2> HIDE DEF new
  <2>3. /\ row' \in [Calls -> Rows]
        /\ \A d \in Calls : row[d].status # "absent" => row'[d].status # "absent"
    BY <2>1, <2>2 DEF TypeOK
  <2>4. spend' \in Nat /\ unreconciled' \in Nat /\ billable' \in [Calls -> Nat]
    BY <1>15 DEF Resolve, Less, NotBilled, TypeOK
  <2>5. TokenInv'
    BY <2>1, <2>3, TokenKept
  <2> QED
    BY <1>b, <2>1, <2>3, <2>4, <2>5 DEF TypeOK
<1>16. ASSUME NEW w \in Workers, Crash(w) PROVE TypeOK' /\ TokenInv'
  <2>1. /\ pc' = [pc EXCEPT ![w] = "idle"]
        /\ UNCHANGED <<row, cached, bucketVars, leaseVars, scan, call, token, copy, history>>
    BY <1>16 DEF Crash
  <2>2. /\ pc' \in [Workers -> Labels]
        /\ \A v \in Workers : /\ pc'[v] # "idle" => pc[v] # "idle"
                              /\ pc'[v] \in AtCall => pc[v] \in AtCall
    BY <2>1 DEF TypeOK
  <2>3. TokenInv'
    BY <2>1, <2>2, TokenKept
  <2> QED
    BY <1>b, <2>1, <2>2, <2>3 DEF TypeOK
<1>17. CASE UNCHANGED vars
  <2>1. TokenInv'
    BY <1>17, TokenKept DEF vars
  <2> QED
    BY <1>17, <1>b, <2>1 DEF vars, TypeOK
<1> QED
  BY <1>1, <1>2, <1>3, <1>4, <1>5, <1>6, <1>7, <1>8, <1>9, <1>10, <1>11, <1>12,
     <1>13, <1>14, <1>15, <1>16, <1>17 DEF Next, WorkerStep
----------------------------------------------------------------------------
(* Until recovery overtakes a worker.                                      *)

\* Two sets of planned requests that differ at most in c.
LEMMA CountOne ==
  ASSUME NEW S \in SUBSET Calls, NEW T \in SUBSET Calls, NEW c \in Calls,
         \A d \in Calls : d # c => (d \in S <=> d \in T)
  PROVE  /\ Cardinality(S) \in Nat /\ Cardinality(T) \in Nat
         /\ (c \in S <=> c \in T) => Cardinality(S) = Cardinality(T)
         /\ c \in S /\ c \notin T => Cardinality(S) = Cardinality(T) + 1
         /\ c \notin S /\ c \in T => Cardinality(T) = Cardinality(S) + 1
<1>1. IsFiniteSet(S) /\ IsFiniteSet(T)
  BY SpendConstants, FS_Subset
<1>2. Cardinality(S) \in Nat /\ Cardinality(T) \in Nat
  BY <1>1, FS_CardinalityType
<1>3. (c \in S <=> c \in T) => S = T
  OBVIOUS
<1>4. c \in S /\ c \notin T => S = T \cup {c}
  OBVIOUS
<1>5. c \notin S /\ c \in T => T = S \cup {c}
  OBVIOUS
<1> QED
  BY <1>1, <1>2, <1>3, <1>4, <1>5, FS_AddElement

\* The union of two disjoint sets of planned requests.
LEMMA CountUnion ==
  ASSUME NEW S \in SUBSET Calls, NEW T \in SUBSET Calls, S \cap T = {}
  PROVE  /\ Cardinality(S) \in Nat /\ Cardinality(T) \in Nat
         /\ Cardinality(S \cup T) = Cardinality(S) + Cardinality(T)
<1>1. IsFiniteSet(S) /\ IsFiniteSet(T)
  BY SpendConstants, FS_Subset
<1>2. Cardinality(S) \in Nat /\ Cardinality(T) \in Nat
  BY <1>1, FS_CardinalityType
<1>3. Cardinality(S \cap T) = 0
  BY FS_EmptySet
<1>4. Cardinality(S \cup T) = Cardinality(S) + Cardinality(T) - Cardinality(S \cap T)
  BY <1>1, FS_Union, Zenon
<1> QED
  BY <1>2, <1>3, <1>4

\* How much one row adds to the reserved and to the unreconciled amount, and to what
\* has been spent at least.
H(r) == IF r.reservation = "reserved" THEN 1 ELSE 0
O(r) == IF r.reservation = "reconciled_unknown" THEN 1 ELSE 0
K(r, b, l) == IF b = l + 1 /\ r.reservation \in {"reserved", "reconciled_unknown"}
              THEN 1 ELSE 0

\* One more or one fewer request of c that may have cost money.
LEMMA RequestsOne ==
  ASSUME TypeOK, TypeOK', IsFiniteSet(Requests), NEW c \in Calls,
         \A d \in Calls : d # c => billable'[d] = billable[d],
         billable'[c] \in {billable[c] - 1, billable[c], billable[c] + 1}
  PROVE  /\ IsFiniteSet(Requests') /\ Cardinality(Requests) \in Nat
         /\ Cardinality(Requests') = Cardinality(Requests) + billable'[c] - billable[c]
<1>1. \A d \in Calls : billable[d] \in Nat /\ billable'[d] \in Nat
  BY DEF TypeOK
<1>2. Cardinality(Requests) \in Nat
  BY FS_CardinalityType
<1>3. \A q : q \in Requests <=> \E d \in Calls : \E i \in 1 .. billable[d] : q = <<d, i>>
  BY DEF Requests
<1>4. \A q : q \in Requests' <=> \E d \in Calls : \E i \in 1 .. billable'[d] : q = <<d, i>>
  BY DEF Requests
<1>5. CASE billable'[c] = billable[c]
  <2>1. billable' = billable
    BY <1>5 DEF TypeOK
  <2>2. Requests' = Requests
    BY <2>1 DEF Requests
  <2> QED
    BY <1>1, <1>2, <1>5, <2>2
<1>6. CASE billable'[c] = billable[c] + 1
  <2> DEFINE x == <<c, billable[c] + 1>>
  <2>1. x \notin Requests
    <3>1. ASSUME NEW d \in Calls, NEW i \in 1 .. billable[d], x = <<d, i>> PROVE FALSE
      BY <1>1, <3>1
    <3> QED
      BY <1>3, <3>1
  <2>2. ASSUME NEW q PROVE q \in Requests' <=> q \in Requests \/ q = x
    <3>1. ASSUME NEW d \in Calls, NEW i \in 1 .. billable'[d], q = <<d, i>>
          PROVE  (\E e \in Calls : \E j \in 1 .. billable[e] : q = <<e, j>>) \/ q = x
      <4>1. CASE d = c /\ i = billable[c] + 1
        BY <3>1, <4>1
      <4>2. CASE ~(d = c /\ i = billable[c] + 1)
        <5>1. i \in 1 .. billable[d]
          BY <1>1, <1>6, <4>2
        <5> QED
          BY <3>1, <5>1
      <4> QED
        BY <4>1, <4>2
    <3>2. ASSUME NEW d \in Calls, NEW i \in 1 .. billable[d], q = <<d, i>>
          PROVE  \E e \in Calls : \E j \in 1 .. billable'[e] : q = <<e, j>>
      <4>1. i \in 1 .. billable'[d]
        BY <1>1, <1>6
      <4> QED
        BY <3>2, <4>1
    <3>3. ASSUME q = x PROVE \E e \in Calls : \E j \in 1 .. billable'[e] : q = <<e, j>>
      <4>1. billable[c] + 1 \in 1 .. billable'[c]
        BY <1>1, <1>6
      <4> QED
        BY <3>3, <4>1
    <3> QED
      BY <1>3, <1>4, <3>1, <3>2, <3>3
  <2>3. Requests' = Requests \cup {x}
    BY <2>2
  <2> HIDE DEF x
  <2> QED
    BY <1>1, <1>2, <1>6, <2>1, <2>3, FS_AddElement
<1>7. CASE billable'[c] = billable[c] - 1
  <2> DEFINE x == <<c, billable[c]>>
  <2>1. x \in Requests
    <3>1. billable[c] \in 1 .. billable[c]
      BY <1>1, <1>7
    <3> QED
      BY <1>3, <3>1
  <2>2. ASSUME NEW q PROVE q \in Requests' <=> q \in Requests /\ q # x
    <3>1. ASSUME NEW d \in Calls, NEW i \in 1 .. billable'[d], q = <<d, i>>
          PROVE  (\E e \in Calls : \E j \in 1 .. billable[e] : q = <<e, j>>) /\ q # x
      <4>1. i \in 1 .. billable[d] /\ ~(d = c /\ i = billable[c])
        BY <1>1, <1>7
      <4> QED
        BY <3>1, <4>1
    <3>2. ASSUME NEW d \in Calls, NEW i \in 1 .. billable[d], q = <<d, i>>, q # x
          PROVE  \E e \in Calls : \E j \in 1 .. billable'[e] : q = <<e, j>>
      <4>1. ~(d = c /\ i = billable[c])
        BY <3>2
      <4>2. i \in 1 .. billable'[d]
        BY <1>1, <1>7, <4>1
      <4> QED
        BY <3>2, <4>2
    <3> QED
      BY <1>3, <1>4, <3>1, <3>2
  <2>3. Requests' = Requests \ {x}
    BY <2>2
  <2> HIDE DEF x
  <2> QED
    BY <1>1, <1>2, <1>7, <2>1, <2>3, FS_RemoveElement
<1> QED
  BY <1>5, <1>6, <1>7

\* A step that changes one row, and the bucket along with it.
LEMMA BucketOne ==
  ASSUME TypeOK, TypeOK', BucketInv, NEW c \in Calls,
         \A d \in Calls : d # c =>
            row'[d] = row[d] /\ billable'[d] = billable[d] /\ lost'[d] = lost[d],
         reserved' = reserved + H(row'[c]) - H(row[c]),
         unreconciled' = unreconciled + O(row'[c]) - O(row[c]),
         billable'[c] \in {billable[c] - 1, billable[c], billable[c] + 1},
         spend' \in Nat,
         spend' + K(row'[c], billable'[c], lost'[c]) - K(row[c], billable[c], lost[c])
            >= spend + billable'[c] - billable[c],
         spend' + reserved' + unreconciled' <= Limit
  PROVE  BucketInv'
<1>1. /\ Held \in SUBSET Calls /\ Held' \in SUBSET Calls
      /\ Open \in SUBSET Calls /\ Open' \in SUBSET Calls
      /\ AtRisk \in SUBSET Calls /\ AtRisk' \in SUBSET Calls
  BY DEF Held, Open, AtRisk
<1>2. /\ reserved = Cardinality(Held) /\ unreconciled = Cardinality(Open)
      /\ IsFiniteSet(Requests) /\ Cardinality(Requests) <= spend + Cardinality(AtRisk)
      /\ spend \in Nat
  BY DEF BucketInv, TypeOK
<1>3. reserved' = Cardinality(Held')
  <2>1. \A d \in Calls : d # c => (d \in Held' <=> d \in Held)
    BY DEF Held
  <2>2. (c \in Held <=> H(row[c]) = 1) /\ (c \in Held' <=> H(row'[c]) = 1)
    BY DEF Held, H
  <2>3. H(row[c]) \in {0, 1} /\ H(row'[c]) \in {0, 1}
    BY DEF H
  <2> QED
    BY <1>1, <1>2, <2>1, <2>2, <2>3, CountOne
<1>4. unreconciled' = Cardinality(Open')
  <2>1. \A d \in Calls : d # c => (d \in Open' <=> d \in Open)
    BY DEF Open
  <2>2. (c \in Open <=> O(row[c]) = 1) /\ (c \in Open' <=> O(row'[c]) = 1)
    BY DEF Open, O
  <2>3. O(row[c]) \in {0, 1} /\ O(row'[c]) \in {0, 1}
    BY DEF O
  <2> QED
    BY <1>1, <1>2, <2>1, <2>2, <2>3, CountOne
<1>5. IsFiniteSet(Requests') /\ Cardinality(Requests') <= spend' + Cardinality(AtRisk')
  <2>1. \A d \in Calls : d # c => (d \in AtRisk' <=> d \in AtRisk)
    BY DEF AtRisk
  <2> DEFINE p == K(row[c], billable[c], lost[c])
             q == K(row'[c], billable'[c], lost'[c])
  <2>2. (c \in AtRisk <=> p = 1) /\ (c \in AtRisk' <=> q = 1)
    BY DEF AtRisk, K
  <2>3. p \in {0, 1} /\ q \in {0, 1}
    BY DEF K
  <2>4. spend' + q - p >= spend + billable'[c] - billable[c]
    OBVIOUS
  <2> HIDE DEF p, q
  <2>5. /\ Cardinality(AtRisk) \in Nat /\ Cardinality(AtRisk') \in Nat
        /\ Cardinality(AtRisk') = Cardinality(AtRisk) + q - p
    BY <1>1, <2>1, <2>2, <2>3, CountOne
  <2>6. /\ IsFiniteSet(Requests') /\ Cardinality(Requests) \in Nat
        /\ Cardinality(Requests') = Cardinality(Requests) + billable'[c] - billable[c]
    BY <1>2, RequestsOne
  <2>7. billable[c] \in Nat /\ billable'[c] \in Nat
    BY DEF TypeOK
  <2> QED
    BY <1>2, <2>3, <2>4, <2>5, <2>6, <2>7
<1> QED
  BY <1>3, <1>4, <1>5 DEF BucketInv

\* A worker that nothing touched.
LEMMA WorkKept ==
  ASSUME NEW v \in Workers, Work(v),
         pc'[v] = pc[v], scan'[v] = scan[v], call'[v] = call[v], token'[v] = token[v],
         copy'[v] = copy[v], lease'[scan[v]] = lease[scan[v]],
         pc[v] \in AtCall =>
            /\ row'[call[v]] = row[call[v]] /\ billable'[call[v]] = billable[call[v]]
            /\ lost'[call[v]] = lost[call[v]]
  PROVE  Work(v)'
BY DEF Work, LeaseCurrent

\* A worker's step at its scan does not touch the others: no two hold the same scan.
LEMMA OthersKept ==
  ASSUME TypeOK, TokenInv, WorkInv, NEW w \in Workers, pc[w] # "idle",
         \A v \in Workers : v # w =>
            /\ pc'[v] = pc[v] /\ scan'[v] = scan[v] /\ call'[v] = call[v]
            /\ token'[v] = token[v] /\ copy'[v] = copy[v],
         \A s \in Scans : s # scan[w] => lease'[s] = lease[s],
         \A c \in Calls : ScanOf[c] # scan[w] =>
            row'[c] = row[c] /\ billable'[c] = billable[c] /\ lost'[c] = lost[c]
  PROVE  \A v \in Workers : v # w /\ pc'[v] # "idle" => Work(v)'
<1> SUFFICES ASSUME NEW v \in Workers, v # w, pc'[v] # "idle" PROVE Work(v)'
  OBVIOUS
<1>1. Work(v) /\ Work(w) /\ pc[v] # "idle"
  BY DEF WorkInv
<1>2. scan[v] # scan[w]
  BY <1>1 DEF TokenInv, Work, LeaseCurrent
<1>3. scan[v] \in Scans /\ call[v] \in Calls
  BY DEF TypeOK
<1>4. pc[v] \in AtCall => ScanOf[call[v]] = scan[v]
  BY DEF TokenInv
<1>5. /\ lease'[scan[v]] = lease[scan[v]]
      /\ pc[v] \in AtCall =>
            /\ row'[call[v]] = row[call[v]] /\ billable'[call[v]] = billable[call[v]]
            /\ lost'[call[v]] = lost[call[v]]
  BY <1>2, <1>3, <1>4
<1> QED
  BY <1>1, <1>5, WorkKept

\* A worker's step at planned request c of its scan.
LEMMA WorkerAtCall ==
  ASSUME TypeOK, TypeOK', TokenInv, WorkInv, RowsInv, BucketInv,
         NEW w \in Workers, pc[w] # "idle", NEW c \in Calls, ScanOf[c] = scan[w],
         \A v \in Workers : v # w =>
            /\ pc'[v] = pc[v] /\ scan'[v] = scan[v] /\ call'[v] = call[v]
            /\ token'[v] = token[v] /\ copy'[v] = copy[v],
         \A s \in Scans : s # scan[w] => lease'[s] = lease[s],
         \A d \in Calls : d # c =>
            row'[d] = row[d] /\ billable'[d] = billable[d] /\ lost'[d] = lost[d],
         pc'[w] # "idle" => Work(w)',
         RowInv(row'[c], billable'[c], lost'[c]),
         reserved' = reserved + H(row'[c]) - H(row[c]),
         unreconciled' = unreconciled + O(row'[c]) - O(row[c]),
         billable'[c] \in {billable[c] - 1, billable[c], billable[c] + 1},
         spend' \in Nat,
         spend' + K(row'[c], billable'[c], lost'[c]) - K(row[c], billable[c], lost[c])
            >= spend + billable'[c] - billable[c],
         spend' + reserved' + unreconciled' <= Limit
  PROVE  CalmInv'
<1>1. BucketInv'
  BY BucketOne
<1>2. RowsInv'
  <2>1. ASSUME NEW d \in Calls, d # c PROVE RowInv(row'[d], billable'[d], lost'[d])
    BY <2>1 DEF RowsInv
  <2> QED
    BY <2>1 DEF RowsInv
<1>3. WorkInv'
  <2>1. \A d \in Calls : ScanOf[d] # scan[w] =>
           row'[d] = row[d] /\ billable'[d] = billable[d] /\ lost'[d] = lost[d]
    OBVIOUS
  <2>2. \A v \in Workers : v # w /\ pc'[v] # "idle" => Work(v)'
    BY <2>1, OthersKept
  <2> QED
    BY <2>2 DEF WorkInv
<1> QED
  BY <1>1, <1>2, <1>3 DEF CalmInv

\* A step that leaves the rows, the bucket and the history alone.
LEMMA QuietStep ==
  ASSUME RowsInv, BucketInv, UNCHANGED <<row, billable, lost, spend, reserved, unreconciled>>
  PROVE  RowsInv' /\ BucketInv'
<1>1. Held' = Held /\ Open' = Open /\ AtRisk' = AtRisk /\ Requests' = Requests
  BY DEF Held, Open, AtRisk, Requests
<1>2. BucketInv'
  BY <1>1 DEF BucketInv
<1>3. RowsInv'
  BY DEF RowsInv
<1> QED
  BY <1>2, <1>3

\* Recovery of attempts that no worker is at.
LEMMA ReconcileCalm ==
  ASSUME TypeOK, RowsInv, BucketInv, NEW stale \in SUBSET Calls, Reconcile(stale),
         \A c \in stale : row[c].attempt \in OpenAttempts,
         UNCHANGED <<billable, lost>>
  PROVE  /\ RowsInv' /\ BucketInv'
         /\ \A c \in Calls : c \notin stale => row'[c] = row[c]
<1> DEFINE after == [c \in Calls |-> IF c \in stale THEN Reconciled(row[c]) ELSE row[c]]
           Settled(state) == {c \in stale : /\ row[c].reservation = "reserved"
                                            /\ after[c].reservation = state}
           Freed == Settled("released")
           Lost == Settled("reconciled_unknown")
           freed == Cardinality(Freed) + Cardinality(Lost)
<1>1. /\ row' = after
      /\ reserved' = IF freed >= reserved THEN 0 ELSE reserved - freed
      /\ unreconciled' = unreconciled + Cardinality(Lost)
      /\ spend' = spend
  BY DEF Reconcile
<1>2. \A c \in Calls : /\ row[c] \in Rows /\ RowInv(row[c], billable[c], lost[c])
                         /\ billable[c] \in Nat /\ lost[c] \in Nat
  BY DEF TypeOK, RowsInv
<1>3. /\ \A c \in Calls : c \notin stale => row'[c] = row[c]
      /\ \A c \in stale : row'[c] = Reconciled(row[c])
      /\ \A c \in stale : after[c] = Reconciled(row[c])
  BY <1>1
<1>4. ASSUME NEW c \in stale
      PROVE  /\ RowInv(row'[c], billable[c], lost[c])
             /\ row[c].reservation # "reserved" =>
                   row[c].reservation = "none" /\ row'[c].reservation = "none"
             /\ row[c].reservation = "reserved" =>
                   row'[c].reservation \in {"released", "reconciled_unknown"}
             /\ row'[c].reservation = "released" => billable[c] = lost[c]
  <2>1. /\ row[c] \in Rows /\ row[c].attempt \in OpenAttempts /\ RowInv(row[c], billable[c], lost[c])
        /\ row'[c] = Reconciled(row[c]) /\ lost[c] \in Nat
    BY <1>2, <1>3
  <2>2. CASE row[c].attempt = "prepared"
    <3>1. row[c].reservation = "none" /\ ~row[c].network /\ billable[c] = lost[c]
      BY <2>1, <2>2 DEF RowInv
    <3>2. row'[c] = [row[c] EXCEPT !.status = "failed_before_network",
                       !.attempt = "failed_before_network", !.reservation = "none"]
      BY <2>1, <2>2, <3>1 DEF Reconciled
    <3>3. /\ row'[c].status = "failed_before_network"
          /\ row'[c].attempt = "failed_before_network" /\ row'[c].reservation = "none"
      BY <2>1, <3>2 DEF Rows
    <3> QED
      BY <3>1, <3>3 DEF RowInv
  <2>3. CASE row[c].attempt = "reserved"
    <3>1. row[c].reservation = "reserved" /\ ~row[c].network /\ billable[c] = lost[c]
      BY <2>1, <2>3 DEF RowInv
    <3>2. row'[c] = [row[c] EXCEPT !.status = "failed_before_network",
                       !.attempt = "failed_before_network", !.reservation = "released"]
      BY <2>1, <2>3, <3>1 DEF Reconciled
    <3>3. /\ row'[c].status = "failed_before_network"
          /\ row'[c].attempt = "failed_before_network" /\ row'[c].reservation = "released"
      BY <2>1, <3>2 DEF Rows
    <3> QED
      BY <3>1, <3>3 DEF RowInv
  <2>4. CASE row[c].attempt = "in_flight"
    <3>1. row[c].reservation = "reserved" /\ row[c].network /\ billable[c] \in {lost[c], lost[c] + 1}
      BY <2>1, <2>4 DEF RowInv
    <3>2. row'[c] = [row[c] EXCEPT !.status = "provider_outcome_unknown",
                       !.attempt = "provider_outcome_unknown", !.reservation = "reconciled_unknown"]
      BY <2>1, <2>4, <3>1 DEF Reconciled
    <3>3. /\ row'[c].status = "provider_outcome_unknown"
          /\ row'[c].attempt = "provider_outcome_unknown"
          /\ row'[c].reservation = "reconciled_unknown"
      BY <2>1, <3>2 DEF Rows
    <3> QED
      BY <3>1, <3>3 DEF RowInv
  <2> QED
    BY <2>1, <2>2, <2>3, <2>4
<1>5. RowsInv'
  BY <1>2, <1>3, <1>4 DEF RowsInv
<1>6. /\ Freed = {c \in stale : row[c].reservation = "reserved" /\ row'[c].reservation = "released"}
      /\ Lost = {c \in stale : row[c].reservation = "reserved"
                                /\ row'[c].reservation = "reconciled_unknown"}
  BY <1>3
<1> HIDE DEF Freed, Lost, after
<1>7. /\ Freed \in SUBSET Calls /\ Lost \in SUBSET Calls
      /\ Held' \in SUBSET Calls /\ Open \in SUBSET Calls
  BY <1>6 DEF Held, Open
<1>8. Freed \cap Lost = {} /\ Held' \cap (Freed \cup Lost) = {} /\ Open \cap Lost = {}
  BY <1>6 DEF Held, Open
<1>9. \A c \in Calls : c \in Held <=> c \in Held' \/ c \in Freed \/ c \in Lost
  BY <1>3, <1>4, <1>6 DEF Held
<1>10. Held = Held' \cup (Freed \cup Lost)
  BY <1>7, <1>9 DEF Held
<1>11. Open' = Open \cup Lost
  <2>1. \A c \in Calls : c \in Open' <=> c \in Open \/ c \in Lost
    BY <1>3, <1>4, <1>6 DEF Open
  <2> QED
    BY <1>7, <2>1 DEF Open
<1>12. AtRisk' = AtRisk /\ Requests' = Requests
  <2>1. ASSUME NEW c \in Calls, billable[c] = lost[c] + 1
        PROVE  row'[c].reservation \in {"reserved", "reconciled_unknown"} <=>
               row[c].reservation \in {"reserved", "reconciled_unknown"}
    <3>1. billable[c] # lost[c]
      BY <1>2, <2>1
    <3> QED
      BY <1>3, <1>4, <3>1
  <2> QED
    BY <2>1 DEF AtRisk, Requests
<1>13. /\ Cardinality(Freed \cup Lost) = freed
       /\ Cardinality(Freed) \in Nat /\ Cardinality(Lost) \in Nat
  BY <1>7, <1>8, CountUnion
<1>14. Cardinality(Held) = Cardinality(Held') + Cardinality(Freed \cup Lost)
  <2>1. Freed \cup Lost \in SUBSET Calls
    BY <1>7
  <2> QED
    BY <1>7, <1>8, <1>10, <2>1, CountUnion
<1>15. Cardinality(Open') = Cardinality(Open) + Cardinality(Lost)
  BY <1>7, <1>8, <1>11, CountUnion
<1>16. Cardinality(Held') \in Nat /\ Cardinality(Open) \in Nat
  BY <1>7, SpendConstants, FS_Subset, FS_CardinalityType
<1>17. /\ reserved = Cardinality(Held) /\ unreconciled = Cardinality(Open)
       /\ spend + reserved + unreconciled <= Limit
       /\ spend \in Nat /\ Limit \in Nat
  BY SpendConstants DEF BucketInv, TypeOK
<1>18. reserved' = Cardinality(Held') /\ unreconciled' = Cardinality(Open')
  BY <1>1, <1>13, <1>14, <1>15, <1>16, <1>17
<1>19. spend' + reserved' + unreconciled' <= Limit
  BY <1>1, <1>13, <1>14, <1>15, <1>16, <1>17, <1>18
<1>20. BucketInv'
  BY <1>1, <1>12, <1>18, <1>19 DEF BucketInv
<1> QED
  BY <1>3, <1>5, <1>20

\* While calm, a worker at a call writes exactly the row it means to write, and is the
\* only one to change rows of its scan.
LEMMA CalmWrite ==
  ASSUME TypeOK, TokenInv, WorkInv, RowsInv, NEW w \in Workers, pc[w] \in AtCall,
         NEW new \in Rows, Write(w, new)
  PROVE  /\ row'[call[w]] = new /\ copy'[w] = new
         /\ \A c \in Calls : c # call[w] => row'[c] = row[c]
         /\ \A v \in Workers : v # w => copy'[v] = copy[v]
         /\ call[w] \in Calls /\ ScanOf[call[w]] = scan[w]
         /\ LeaseCurrent(w) /\ row[call[w]] = copy[w]
         /\ RowInv(copy[w], billable[call[w]], lost[call[w]])
<1>1. Work(w) /\ call[w] \in Calls
  BY DEF WorkInv, TypeOK
<1>2. LeaseCurrent(w) /\ copy[w] = row[call[w]]
  BY <1>1 DEF Work
<1>3. ScanOf[call[w]] = scan[w]
  BY DEF TokenInv
<1>4. row' = [row EXCEPT ![call[w]] = new]
  BY <1>2, WriteTypes
<1>5. row'[call[w]] = new
  BY <1>1, <1>4 DEF TypeOK
<1> QED
  BY <1>1, <1>2, <1>3, <1>5, WriteTypes DEF RowsInv

\* How a row passes through the states of an attempt.
LEMMA AttemptRows ==
  /\ PreparedRow \in Rows /\ ReservedRow \in Rows /\ SubmittedRow \in Rows
  /\ [PreparedRow EXCEPT !.attempt = "reserved", !.reservation = "reserved"] = ReservedRow
  /\ [ReservedRow EXCEPT !.status = "in_flight", !.attempt = "in_flight", !.network = TRUE]
       = SubmittedRow
<1>1. PreparedRow \in Rows /\ ReservedRow \in Rows /\ SubmittedRow \in Rows
  BY DEF PreparedRow, ReservedRow, SubmittedRow, Rows
<1>2. \A r, q \in Rows : /\ r.status = q.status /\ r.attempt = q.attempt
                       /\ r.reservation = q.reservation /\ r.network = q.network
                       => r = q
  BY DEF Rows
<1> DEFINE n == [PreparedRow EXCEPT !.attempt = "reserved", !.reservation = "reserved"]
           m == [ReservedRow EXCEPT !.status = "in_flight", !.attempt = "in_flight",
                                    !.network = TRUE]
<1>3. n = ReservedRow
  <2>1. /\ n.status = ReservedRow.status /\ n.attempt = ReservedRow.attempt
        /\ n.reservation = ReservedRow.reservation /\ n.network = ReservedRow.network
    BY DEF PreparedRow, ReservedRow
  <2>2. n \in Rows
    BY <1>1, NewRows
  <2> HIDE DEF n
  <2> QED
    BY <1>1, <1>2, <2>1, <2>2
<1>4. m = SubmittedRow
  <2>1. /\ m.status = SubmittedRow.status /\ m.attempt = SubmittedRow.attempt
        /\ m.reservation = SubmittedRow.reservation /\ m.network = SubmittedRow.network
    BY DEF SubmittedRow, ReservedRow
  <2>2. m \in Rows
    BY <1>1, NewRows
  <2> HIDE DEF m
  <2> QED
    BY <1>1, <1>2, <2>1, <2>2
<1> QED
  BY <1>1, <1>3, <1>4

\* The outcome of an attempt, as far as its invariant looks at it.
LEMMA OutcomeRows ==
  ASSUME NEW r \in Rows
  PROVE  /\ LET n == [r EXCEPT !.status = "blocked", !.attempt = "blocked"] IN
            n.attempt = "blocked" /\ n.reservation = r.reservation
         /\ LET n == [[r EXCEPT !.status = "failed", !.attempt = "failed"] EXCEPT
                        !.reservation = "finalized"] IN
            n.status = "failed" /\ n.attempt = "failed" /\ n.reservation = "finalized"
         /\ LET n == [r EXCEPT !.status = "completed", !.attempt = "completed",
                               !.reservation = "finalized"] IN
            n.status = "completed" /\ n.attempt = "completed" /\ n.reservation = "finalized"
         /\ LET n == [r EXCEPT !.status = "provider_outcome_unknown",
                               !.attempt = "provider_outcome_unknown",
                               !.reservation = "reconciled_unknown"] IN
            /\ n.status = "provider_outcome_unknown" /\ n.attempt = "provider_outcome_unknown"
            /\ n.reservation = "reconciled_unknown"
BY DEF Rows

\* Every step keeps the calm invariant, or is the recovery that ends it.
LEMMA CalmStep == IndInv /\ [Next]_vars => CalmInv'
<1> SUFFICES ASSUME TypeOK, TypeOK', TokenInv, CalmInv, [Next]_vars, ~overtaken' PROVE CalmInv'
  BY TokenStep DEF IndInv, CalmInv
<1> USE DEF bucketVars, leaseVars, workerVars, history
<1>a. overtaken => overtaken'
  BY DEF Next, WorkerStep, ClaimScan, LeaveScan, Prepare, ReplayCached, Reserve, ReserveRefused,
     Submit, SubmitRefused, CheckBeforeSend, Send, CheckAnswer, Complete, FailedAnswer, Rejected,
     StoreFails, Ambiguous, RecoverScan, ReconcileAged, Resolve, Crash, vars
<1>b. WorkInv /\ RowsInv /\ BucketInv
  BY <1>a DEF CalmInv
<1>c. \A w \in Workers : call[w] \in Calls /\ scan[w] \in Scans /\ copy[w] \in Rows
  BY DEF TypeOK
<1>d. /\ spend \in Nat /\ reserved \in Nat /\ unreconciled \in Nat /\ Limit \in Nat
      /\ spend + reserved + unreconciled <= Limit
      /\ \A c \in Calls : billable[c] \in Nat /\ lost[c] \in Nat /\ row[c] \in Rows
  BY <1>b, SpendConstants DEF BucketInv, TypeOK
<1>e. /\ \A c \in Calls : row[c].reservation = "reserved" => reserved # 0
      /\ \A c \in Calls : row[c].reservation = "reconciled_unknown" => unreconciled # 0
  <2>1. IsFiniteSet(Held) /\ IsFiniteSet(Open)
    BY SpendConstants, FS_Subset DEF Held, Open
  <2>2. Held # {} => reserved # 0
    BY <1>b, <2>1, FS_EmptySet DEF BucketInv
  <2>3. Open # {} => unreconciled # 0
    BY <1>b, <2>1, FS_EmptySet DEF BucketInv
  <2> QED
    BY <2>2, <2>3 DEF Held, Open
<1>f. ASSUME NEW w \in Workers, GiveUp(w)
      PROVE  /\ \A v \in Workers : v # w =>
                   /\ pc'[v] = pc[v] /\ scan'[v] = scan[v] /\ call'[v] = call[v]
                   /\ token'[v] = token[v]
             /\ \A s \in Scans : s # scan[w] => lease'[s] = lease[s]
             /\ pc'[w] = "idle"
  BY <1>f, GiveUpTypes
<1>1. ASSUME NEW w \in Workers, NEW s \in Scans, ClaimScan(w, s) PROVE CalmInv'
  <2>1. /\ pc[w] = "idle" /\ lease[s] = 0
        /\ lease'[s] = leases[s] + 1
        /\ \A t \in Scans : t # s => lease'[t] = lease[t]
        /\ token'[w] = leases[s] + 1 /\ scan'[w] = s /\ pc'[w] = "running"
        /\ \A v \in Workers : v # w => pc'[v] = pc[v] /\ scan'[v] = scan[v] /\ token'[v] = token[v]
        /\ UNCHANGED <<row, cached, bucketVars, call, copy, history>>
    BY <1>1 DEF ClaimScan, TypeOK
  <2>2. Work(w)'
    BY <2>1 DEF Work, LeaseCurrent
  <2>3. ASSUME NEW v \in Workers, v # w, pc'[v] # "idle" PROVE Work(v)'
    <3>1. pc[v] # "idle" /\ Work(v)
      BY <1>b, <2>1, <2>3 DEF WorkInv
    <3>2. token[v] # 0 /\ lease[scan[v]] = token[v]
      BY <3>1 DEF TokenInv, Work, LeaseCurrent
    <3>3. scan[v] # s
      BY <2>1, <3>2
    <3>4. lease'[scan[v]] = lease[scan[v]]
      BY <1>c, <2>1, <3>3
    <3> QED
      BY <2>1, <2>3, <3>1, <3>4, WorkKept
  <2>4. RowsInv' /\ BucketInv'
    BY <1>b, <2>1, QuietStep
  <2> QED
    BY <2>2, <2>3, <2>4 DEF CalmInv, WorkInv
<1>2. ASSUME NEW w \in Workers, LeaveScan(w) PROVE CalmInv'
  <2>1. /\ pc[w] = "running" /\ GiveUp(w)
        /\ UNCHANGED <<row, cached, bucketVars, copy, history>>
    BY <1>2 DEF LeaveScan
  <2>2. \A v \in Workers : v # w /\ pc'[v] # "idle" => Work(v)'
    BY <1>b, <1>f, <2>1, OthersKept
  <2>3. RowsInv' /\ BucketInv'
    BY <1>b, <2>1, QuietStep
  <2> QED
    BY <1>f, <2>1, <2>2, <2>3 DEF CalmInv, WorkInv
<1>3. ASSUME NEW w \in Workers, NEW c \in Calls, Prepare(w, c) PROVE CalmInv'
  <2>1. /\ row' = [row EXCEPT ![c] = PreparedRow] /\ copy' = [copy EXCEPT ![w] = PreparedRow]
        /\ call' = [call EXCEPT ![w] = c] /\ pc' = [pc EXCEPT ![w] = "prepared"]
        /\ pc[w] = "running" /\ ScanOf[c] = scan[w] /\ Unused(c)
        /\ UNCHANGED <<cached, bucketVars, leaseVars, scan, token, history>>
    BY <1>3 DEF Prepare, PreparedRow
  <2>2. /\ billable[c] = lost[c] /\ row[c].reservation \notin {"reserved", "reconciled_unknown"}
    BY <1>b, <2>1 DEF RowsInv, RowInv, Unused
  <2>3. /\ PreparedRow.status = "prepared" /\ PreparedRow.attempt = "prepared"
        /\ PreparedRow.reservation = "none" /\ PreparedRow.network = FALSE
    BY DEF PreparedRow
  <2> HIDE DEF PreparedRow
  <2>4. /\ row'[c] = PreparedRow /\ copy'[w] = PreparedRow /\ call'[w] = c /\ pc'[w] = "prepared"
        /\ \A d \in Calls : d # c => row'[d] = row[d]
        /\ \A v \in Workers : v # w => pc'[v] = pc[v] /\ call'[v] = call[v] /\ copy'[v] = copy[v]
    BY <2>1 DEF TypeOK
  <2>5. Work(w)'
    <3>1. Work(w)
      BY <1>b, <2>1 DEF WorkInv
    <3> QED
      BY <2>1, <2>4, <3>1 DEF Work, LeaseCurrent
  <2>6. RowInv(row'[c], billable'[c], lost'[c])
    BY <1>d, <2>1, <2>2, <2>3, <2>4 DEF RowInv
  <2>7. /\ H(row'[c]) = 0 /\ H(row[c]) = 0 /\ O(row'[c]) = 0 /\ O(row[c]) = 0
        /\ K(row'[c], billable'[c], lost'[c]) = 0 /\ K(row[c], billable[c], lost[c]) = 0
    BY <1>d, <2>1, <2>2, <2>3, <2>4 DEF H, O, K
  <2> QED
    BY <1>b, <1>d, <2>1, <2>4, <2>5, <2>6, <2>7, WorkerAtCall
<1>4. ASSUME NEW w \in Workers, NEW c \in Calls, ReplayCached(w, c) PROVE CalmInv'
  <2> DEFINE hit == [status |-> "cache_hit", attempt |-> "cache_hit",
                     reservation |-> "none", network |-> FALSE]
  <2>1. /\ pc[w] = "running" /\ ScanOf[c] = scan[w] /\ Unused(c) /\ row' = [row EXCEPT ![c] = hit]
        /\ UNCHANGED <<cached, bucketVars, leaseVars, workerVars, history>>
    BY <1>4 DEF ReplayCached
  <2>2. /\ billable[c] = lost[c] /\ row[c].reservation \notin {"reserved", "reconciled_unknown"}
    BY <1>b, <2>1 DEF RowsInv, RowInv, Unused
  <2>3. hit.status = "cache_hit" /\ hit.attempt = "cache_hit" /\ hit.reservation = "none"
    OBVIOUS
  <2> HIDE DEF hit
  <2>4. row'[c] = hit /\ \A d \in Calls : d # c => row'[d] = row[d]
    BY <2>1 DEF TypeOK
  <2>5. Work(w)'
    <3>1. Work(w)
      BY <1>b, <2>1 DEF WorkInv
    <3> QED
      BY <2>1, <3>1, WorkKept
  <2>6. RowInv(row'[c], billable'[c], lost'[c])
    BY <1>d, <2>1, <2>2, <2>3, <2>4 DEF RowInv
  <2>7. /\ H(row'[c]) = 0 /\ H(row[c]) = 0 /\ O(row'[c]) = 0 /\ O(row[c]) = 0
        /\ K(row'[c], billable'[c], lost'[c]) = 0 /\ K(row[c], billable[c], lost[c]) = 0
    BY <1>d, <2>1, <2>2, <2>3, <2>4 DEF H, O, K
  <2> QED
    BY <1>b, <1>d, <2>1, <2>4, <2>5, <2>6, <2>7, WorkerAtCall
<1>5. ASSUME NEW w \in Workers, Reserve(w) PROVE CalmInv'
  <2> DEFINE new == [copy[w] EXCEPT !.attempt = "reserved", !.reservation = "reserved"]
             c == call[w]
  <2>1. /\ pc[w] = "prepared" /\ WithinBudget /\ Write(w, new)
        /\ reserved' = reserved + 1 /\ pc' = [pc EXCEPT ![w] = "reserved"]
        /\ UNCHANGED <<cached, spend, unreconciled, leaseVars, scan, call, token, history>>
    BY <1>5 DEF Reserve
  <2>2. copy[w] = PreparedRow
    BY <1>b, <2>1 DEF WorkInv, Work
  <2>3. new = ReservedRow /\ new \in Rows
    BY <1>c, <2>2, AttemptRows, NewRows
  <2> HIDE DEF new
  <2>4. /\ row'[c] = ReservedRow /\ copy'[w] = ReservedRow /\ row[c] = PreparedRow
        /\ \A d \in Calls : d # c => row'[d] = row[d]
        /\ \A v \in Workers : v # w => copy'[v] = copy[v]
        /\ c \in Calls /\ ScanOf[c] = scan[w] /\ LeaseCurrent(w)
        /\ RowInv(PreparedRow, billable[c], lost[c])
    BY <1>b, <2>1, <2>2, <2>3, CalmWrite
  <2>5. billable[c] = lost[c] /\ lost[c] \in Nat
    BY <1>d, <2>4 DEF RowInv, PreparedRow
  <2>6. pc'[w] = "reserved" /\ \A v \in Workers : v # w => pc'[v] = pc[v]
    BY <2>1 DEF TypeOK
  <2>7. Work(w)'
    BY <2>1, <2>4, <2>6 DEF Work, LeaseCurrent
  <2>8. RowInv(row'[c], billable'[c], lost'[c])
    BY <2>1, <2>4, <2>5 DEF RowInv, ReservedRow
  <2>9. /\ H(row'[c]) = 1 /\ H(row[c]) = 0 /\ O(row'[c]) = 0 /\ O(row[c]) = 0
        /\ K(row'[c], billable'[c], lost'[c]) = 0 /\ K(row[c], billable[c], lost[c]) = 0
    BY <2>1, <2>4, <2>5 DEF H, O, K, PreparedRow, ReservedRow
  <2>10. spend' + reserved' + unreconciled' <= Limit
    BY <1>d, <2>1 DEF WithinBudget
  <2> HIDE DEF c
  <2> QED
    BY <1>b, <1>d, <2>1, <2>4, <2>6, <2>7, <2>8, <2>9, <2>10, WorkerAtCall
<1>6. ASSUME NEW w \in Workers, ReserveRefused(w) PROVE CalmInv'
  <2> DEFINE new == Failed(w, "blocked")
             c == call[w]
  <2>1. LeaseCurrent(w) /\ copy[w] = PreparedRow
    BY <1>6, <1>b DEF ReserveRefused, WorkInv, Work
  <2>2. /\ pc[w] = "prepared" /\ Write(w, new) /\ GiveUp(w)
        /\ UNCHANGED <<cached, bucketVars, sends, billable, lost, overtaken>>
    BY <1>6, <2>1 DEF ReserveRefused
  <2>3. /\ new \in Rows /\ new.status = "blocked" /\ new.attempt = "blocked"
        /\ new.reservation = "none"
    <3>1. PreparedRow.reservation = "none"
      BY DEF PreparedRow
    <3>2. new \in Rows /\ new.status = "blocked"
      BY <1>c, FailedRows DEF Reusable
    <3>3. new.attempt = "blocked" /\ new.reservation = copy[w].reservation
      BY <1>c, OutcomeRows DEF Failed
    <3> QED
      BY <2>1, <3>1, <3>2, <3>3
  <2> HIDE DEF new
  <2>4. /\ row'[c] = new /\ row[c] = PreparedRow
        /\ \A d \in Calls : d # c => row'[d] = row[d]
        /\ \A v \in Workers : v # w => copy'[v] = copy[v]
        /\ c \in Calls /\ ScanOf[c] = scan[w]
        /\ RowInv(PreparedRow, billable[c], lost[c])
    BY <1>b, <2>1, <2>2, <2>3, CalmWrite
  <2>5. billable[c] = lost[c] /\ lost[c] \in Nat
    BY <1>d, <2>4 DEF RowInv, PreparedRow
  <2>6. RowInv(row'[c], billable'[c], lost'[c])
    BY <2>2, <2>3, <2>4, <2>5 DEF RowInv
  <2>7. /\ H(row'[c]) = 0 /\ H(row[c]) = 0 /\ O(row'[c]) = 0 /\ O(row[c]) = 0
        /\ K(row'[c], billable'[c], lost'[c]) = 0 /\ K(row[c], billable[c], lost[c]) = 0
    BY <2>2, <2>3, <2>4, <2>5 DEF H, O, K, PreparedRow
  <2> HIDE DEF c
  <2> QED
    BY <1>b, <1>d, <1>f, <2>2, <2>4, <2>6, <2>7, WorkerAtCall
<1>7. ASSUME NEW w \in Workers, Submit(w) PROVE CalmInv'
  <2> DEFINE new == [copy[w] EXCEPT !.status = "in_flight", !.attempt = "in_flight",
                                    !.network = TRUE]
             c == call[w]
  <2>1. /\ pc[w] = "reserved" /\ Write(w, new) /\ pc' = [pc EXCEPT ![w] = "submitted"]
        /\ UNCHANGED <<cached, bucketVars, leaseVars, scan, call, token, history>>
    BY <1>7 DEF Submit
  <2>2. copy[w] = ReservedRow
    BY <1>b, <2>1 DEF WorkInv, Work
  <2>3. new = SubmittedRow /\ new \in Rows
    BY <1>c, <2>2, AttemptRows, NewRows
  <2> HIDE DEF new
  <2>4. /\ row'[c] = SubmittedRow /\ copy'[w] = SubmittedRow /\ row[c] = ReservedRow
        /\ \A d \in Calls : d # c => row'[d] = row[d]
        /\ \A v \in Workers : v # w => copy'[v] = copy[v]
        /\ c \in Calls /\ ScanOf[c] = scan[w] /\ LeaseCurrent(w)
        /\ RowInv(ReservedRow, billable[c], lost[c])
    BY <1>b, <2>1, <2>2, <2>3, CalmWrite
  <2>5. billable[c] = lost[c] /\ lost[c] \in Nat
    BY <1>d, <2>4 DEF RowInv, ReservedRow
  <2>6. pc'[w] = "submitted" /\ \A v \in Workers : v # w => pc'[v] = pc[v]
    BY <2>1 DEF TypeOK
  <2>7. Work(w)'
    BY <2>1, <2>4, <2>5, <2>6 DEF Work, LeaseCurrent
  <2>8. RowInv(row'[c], billable'[c], lost'[c])
    BY <2>1, <2>4, <2>5 DEF RowInv, SubmittedRow
  <2>9. /\ H(row'[c]) = 1 /\ H(row[c]) = 1 /\ O(row'[c]) = 0 /\ O(row[c]) = 0
        /\ K(row'[c], billable'[c], lost'[c]) = 0 /\ K(row[c], billable[c], lost[c]) = 0
    BY <2>1, <2>4, <2>5 DEF H, O, K, SubmittedRow, ReservedRow
  <2> HIDE DEF c
  <2> QED
    BY <1>b, <1>d, <2>1, <2>4, <2>6, <2>7, <2>8, <2>9, WorkerAtCall
<1>8. ASSUME NEW w \in Workers, SubmitRefused(w) PROVE CalmInv'
  BY <1>8, <1>b DEF SubmitRefused, WorkInv, Work
<1>9. ASSUME NEW w \in Workers, Send(w) PROVE CalmInv'
  <2> DEFINE c == call[w]
  <2>1. /\ pc[w] = "sending" /\ pc' = [pc EXCEPT ![w] = "awaiting"]
        /\ billable' = [billable EXCEPT ![c] = @ + 1]
        /\ UNCHANGED <<row, cached, bucketVars, leaseVars, scan, call, token, copy, lost,
                       overtaken, trampled>>
    BY <1>9 DEF Send
  <2>2. /\ Work(w) /\ copy[w] = SubmittedRow /\ row[c] = SubmittedRow
        /\ billable[c] = lost[c]
    BY <1>b, <2>1 DEF WorkInv, Work
  <2>3. c \in Calls /\ ScanOf[c] = scan[w] /\ lost[c] \in Nat
    BY <1>c, <1>d, <2>1 DEF TokenInv
  <2>4. /\ billable'[c] = lost[c] + 1 /\ lost'[c] = lost[c]
        /\ \A d \in Calls : d # c => billable'[d] = billable[d]
    BY <2>1, <2>2, <2>3 DEF TypeOK
  <2>5. pc'[w] = "awaiting" /\ \A v \in Workers : v # w => pc'[v] = pc[v]
    BY <2>1 DEF TypeOK
  <2>6. Work(w)'
    BY <2>1, <2>2, <2>4, <2>5 DEF Work, LeaseCurrent
  <2>7. row'[c] = SubmittedRow
    BY <2>1, <2>2
  <2>8. RowInv(row'[c], billable'[c], lost'[c])
    BY <2>3, <2>4, <2>7 DEF RowInv, SubmittedRow
  <2>9. /\ H(row'[c]) = 1 /\ H(row[c]) = 1 /\ O(row'[c]) = 0 /\ O(row[c]) = 0
        /\ K(row'[c], billable'[c], lost'[c]) = 1 /\ K(row[c], billable[c], lost[c]) = 0
    BY <2>2, <2>3, <2>4, <2>7 DEF H, O, K, SubmittedRow
  <2> HIDE DEF c
  <2> QED
    BY <1>b, <1>d, <2>1, <2>2, <2>3, <2>4, <2>5, <2>6, <2>8, <2>9, WorkerAtCall
<1>18. ASSUME NEW w \in Workers, CheckBeforeSend(w) \/ CheckAnswer(w) PROVE CalmInv'
  <2>1. /\ \/ pc[w] = "submitted" /\ pc' = [pc EXCEPT ![w] = "sending"]
           \/ pc[w] = "awaiting" /\ pc' = [pc EXCEPT ![w] = "answered"]
        /\ UNCHANGED <<row, cached, bucketVars, leaseVars, scan, call, token, copy, history>>
    BY <1>18 DEF CheckBeforeSend, CheckAnswer
  <2>2. Work(w)
    BY <1>b, <2>1 DEF WorkInv
  <2>3. /\ \/ pc[w] = "submitted" /\ pc'[w] = "sending"
           \/ pc[w] = "awaiting" /\ pc'[w] = "answered"
        /\ \A v \in Workers : v # w => pc'[v] = pc[v]
    BY <2>1 DEF TypeOK
  <2>4. Work(w)'
    BY <2>1, <2>2, <2>3 DEF Work, LeaseCurrent
  <2>5. \A v \in Workers : v # w /\ pc'[v] # "idle" => Work(v)'
    BY <1>b, <2>1, <2>3, OthersKept
  <2>6. RowsInv' /\ BucketInv'
    BY <1>b, <2>1, QuietStep
  <2> QED
    BY <2>4, <2>5, <2>6 DEF CalmInv, WorkInv
<1>10. ASSUME NEW w \in Workers, NEW actual \in {0, 1}, Complete(w, actual) PROVE CalmInv'
  <2> DEFINE new == [copy[w] EXCEPT !.status = "completed", !.attempt = "completed",
                                    !.reservation = "finalized"]
             c == call[w]
  <2>1. /\ pc[w] = "answered" /\ Write(w, new) /\ pc' = [pc EXCEPT ![w] = "running"]
        /\ reserved' = Less(reserved) /\ spend' = spend + actual
        /\ billable' = IF actual = 1 THEN billable ELSE NotBilled(c)
        /\ UNCHANGED <<leaseVars, scan, call, token, sends, lost, overtaken, unreconciled>>
    BY <1>10 DEF Complete, Settle
  <2>2. copy[w] = SubmittedRow /\ billable[c] = lost[c] + 1
    BY <1>b, <2>1 DEF WorkInv, Work
  <2>3. /\ new \in Rows /\ new.status = "completed" /\ new.attempt = "completed"
        /\ new.reservation = "finalized"
    BY <1>c, NewRows, OutcomeRows
  <2> HIDE DEF new
  <2>4. /\ row'[c] = new /\ row[c] = SubmittedRow
        /\ \A d \in Calls : d # c => row'[d] = row[d]
        /\ \A v \in Workers : v # w => copy'[v] = copy[v]
        /\ c \in Calls /\ ScanOf[c] = scan[w] /\ LeaseCurrent(w)
    BY <1>b, <2>1, <2>2, <2>3, CalmWrite
  <2>5. row[c].reservation = "reserved" /\ lost[c] \in Nat
    BY <1>d, <2>4 DEF SubmittedRow
  <2>6. pc'[w] = "running" /\ \A v \in Workers : v # w => pc'[v] = pc[v]
    BY <2>1 DEF TypeOK
  <2>7. Work(w)'
    BY <2>1, <2>4, <2>6 DEF Work, LeaseCurrent
  <2>8. /\ billable'[c] = lost[c] + actual /\ lost'[c] = lost[c]
        /\ \A d \in Calls : d # c => billable'[d] = billable[d]
    BY <2>1, <2>2, <2>4, <2>5 DEF NotBilled, TypeOK
  <2>9. RowInv(row'[c], billable'[c], lost'[c])
    BY <2>3, <2>4, <2>5, <2>8 DEF RowInv
  <2>10. /\ H(row'[c]) = 0 /\ H(row[c]) = 1 /\ O(row'[c]) = 0 /\ O(row[c]) = 0
         /\ K(row'[c], billable'[c], lost'[c]) = 0 /\ K(row[c], billable[c], lost[c]) = 1
    BY <2>2, <2>3, <2>4, <2>5 DEF H, O, K
  <2>11. reserved' = reserved - 1
    BY <1>d, <1>e, <2>1, <2>4, <2>5 DEF Less
  <2> HIDE DEF c
  <2>12. /\ spend' \in Nat
         /\ spend' + K(row'[c], billable'[c], lost'[c]) - K(row[c], billable[c], lost[c])
               >= spend + billable'[c] - billable[c]
         /\ billable'[c] \in {billable[c] - 1, billable[c], billable[c] + 1}
         /\ spend' + reserved' + unreconciled' <= Limit
    BY <1>d, <2>1, <2>2, <2>5, <2>8, <2>10, <2>11
  <2>13. /\ reserved' = reserved + H(row'[c]) - H(row[c])
         /\ unreconciled' = unreconciled + O(row'[c]) - O(row[c])
    BY <1>d, <2>1, <2>10, <2>11
  <2> QED
    BY <1>b, <2>1, <2>4, <2>6, <2>7, <2>8, <2>9, <2>12, <2>13, WorkerAtCall
\* a response in hand that fails: what it cost is spent, and lost when it was paid for
<1>11. ASSUME NEW w \in Workers, NEW actual \in {0, 1}, Rejected(w) \/ StoreFails(w, actual)
       PROVE  CalmInv'
  <2> DEFINE new == [Failed(w, "failed") EXCEPT !.reservation = "finalized"]
             c == call[w]
  <2>1. /\ pc[w] = "answered" /\ Write(w, new) /\ GiveUp(w)
        /\ UNCHANGED <<cached, sends, overtaken>>
    BY <1>11 DEF Rejected, StoreFails, FailedAnswer
  <2>a. PICK paid \in {0, 1} :
           /\ reserved' = Less(reserved) /\ spend' = spend + paid /\ UNCHANGED unreconciled
           /\ IF paid = 1
              THEN lost' = [lost EXCEPT ![c] = @ + 1] /\ UNCHANGED billable
              ELSE billable' = NotBilled(c) /\ UNCHANGED lost
    <3>1. CASE Rejected(w)
      BY <3>1 DEF Rejected, Settle
    <3>2. CASE StoreFails(w, actual)
      BY <3>2 DEF StoreFails, Settle
    <3> QED
      BY <1>11, <3>1, <3>2
  <2>2. copy[w] = SubmittedRow /\ billable[c] = lost[c] + 1
    BY <1>b, <2>1 DEF WorkInv, Work
  <2>3. /\ new \in Rows /\ new.status = "failed" /\ new.attempt = "failed"
        /\ new.reservation = "finalized"
    <3>1. new \in Rows
      BY <1>c, NewRows DEF Failed
    <3>2. new.status = "failed" /\ new.attempt = "failed" /\ new.reservation = "finalized"
      BY <1>c, OutcomeRows DEF Failed
    <3> QED
      BY <3>1, <3>2
  <2> HIDE DEF new
  <2>4. /\ row'[c] = new /\ row[c] = SubmittedRow
        /\ \A d \in Calls : d # c => row'[d] = row[d]
        /\ \A v \in Workers : v # w => copy'[v] = copy[v]
        /\ c \in Calls /\ ScanOf[c] = scan[w]
    BY <1>b, <2>1, <2>2, <2>3, CalmWrite
  <2>5. row[c].reservation = "reserved" /\ lost[c] \in Nat
    BY <1>d, <2>4 DEF SubmittedRow
  <2>6. /\ billable'[c] = lost[c] + paid /\ lost'[c] = lost[c] + paid
        /\ \A d \in Calls : d # c => billable'[d] = billable[d] /\ lost'[d] = lost[d]
    BY <2>a, <2>2, <2>4, <2>5 DEF NotBilled, TypeOK
  <2>7. RowInv(row'[c], billable'[c], lost'[c])
    BY <2>3, <2>4, <2>5, <2>6 DEF RowInv
  <2>8. /\ H(row'[c]) = 0 /\ H(row[c]) = 1 /\ O(row'[c]) = 0 /\ O(row[c]) = 0
        /\ K(row'[c], billable'[c], lost'[c]) = 0 /\ K(row[c], billable[c], lost[c]) = 1
    BY <2>2, <2>3, <2>4, <2>5 DEF H, O, K
  <2>9. reserved' = reserved - 1
    BY <1>d, <1>e, <2>a, <2>4, <2>5 DEF Less
  <2> HIDE DEF c
  <2>10. /\ spend' \in Nat
         /\ spend' + K(row'[c], billable'[c], lost'[c]) - K(row[c], billable[c], lost[c])
               >= spend + billable'[c] - billable[c]
         /\ billable'[c] \in {billable[c] - 1, billable[c], billable[c] + 1}
         /\ spend' + reserved' + unreconciled' <= Limit
         /\ reserved' = reserved + H(row'[c]) - H(row[c])
         /\ unreconciled' = unreconciled + O(row'[c]) - O(row[c])
    BY <1>d, <2>a, <2>2, <2>5, <2>6, <2>8, <2>9
  <2> QED
    BY <1>b, <1>f, <2>1, <2>4, <2>6, <2>7, <2>10, WorkerAtCall
<1>12. ASSUME NEW w \in Workers, Ambiguous(w) PROVE CalmInv'
  <2> DEFINE c == call[w]
  <2>1. /\ pc[w] \in Submitted /\ Write(w, Unknown(w)) /\ GiveUp(w)
        /\ reserved' = Less(reserved) /\ unreconciled' = unreconciled + 1
        /\ UNCHANGED <<cached, history, spend>>
    BY <1>12 DEF Ambiguous, Settle
  <2>2. copy[w] = SubmittedRow
    BY <1>b, <2>1 DEF WorkInv, Work
  <2>3. /\ Unknown(w) \in Rows /\ Unknown(w).status = "provider_outcome_unknown"
        /\ Unknown(w).attempt = "provider_outcome_unknown"
        /\ Unknown(w).reservation = "reconciled_unknown"
    BY <1>c, NewRows, OutcomeRows DEF Unknown
  <2>4. /\ row'[c] = Unknown(w) /\ row[c] = SubmittedRow
        /\ \A d \in Calls : d # c => row'[d] = row[d]
        /\ \A v \in Workers : v # w => copy'[v] = copy[v]
        /\ c \in Calls /\ ScanOf[c] = scan[w]
        /\ RowInv(SubmittedRow, billable[c], lost[c])
    BY <1>b, <2>1, <2>2, <2>3, CalmWrite
  <2>5. /\ billable'[c] = billable[c] /\ lost'[c] = lost[c] /\ lost[c] \in Nat
        /\ billable[c] \in {lost[c], lost[c] + 1} /\ row[c].reservation = "reserved"
    BY <1>d, <2>1, <2>4 DEF RowInv, SubmittedRow
  <2>6. RowInv(row'[c], billable'[c], lost'[c])
    BY <2>3, <2>4, <2>5 DEF RowInv
  <2>7. /\ H(row'[c]) = 0 /\ H(row[c]) = 1 /\ O(row'[c]) = 1 /\ O(row[c]) = 0
        /\ K(row'[c], billable'[c], lost'[c]) = K(row[c], billable[c], lost[c])
        /\ K(row[c], billable[c], lost[c]) \in {0, 1}
    BY <2>3, <2>4, <2>5 DEF H, O, K
  <2>8. reserved' = reserved - 1
    BY <1>d, <1>e, <2>1, <2>4, <2>5 DEF Less
  <2> HIDE DEF c
  <2>9. /\ spend' \in Nat
        /\ spend' + K(row'[c], billable'[c], lost'[c]) - K(row[c], billable[c], lost[c])
              >= spend + billable'[c] - billable[c]
        /\ billable'[c] \in {billable[c] - 1, billable[c], billable[c] + 1}
        /\ spend' + reserved' + unreconciled' <= Limit
        /\ reserved' = reserved + H(row'[c]) - H(row[c])
        /\ unreconciled' = unreconciled + O(row'[c]) - O(row[c])
    BY <1>d, <2>1, <2>5, <2>7, <2>8
  <2> QED
    BY <1>b, <1>f, <2>1, <2>4, <2>5, <2>6, <2>9, WorkerAtCall
<1>13. ASSUME NEW s \in Scans, RecoverScan(s) PROVE CalmInv'
  <2>1. /\ Reconcile(OpenCalls(s)) /\ lease' = [lease EXCEPT ![s] = 0] /\ ~Attended(s)
        /\ UNCHANGED <<cached, leases, workerVars, sends, billable, lost, trampled>>
    BY <1>13 DEF RecoverScan
  <2>2. /\ OpenCalls(s) \in SUBSET Calls
        /\ \A c \in OpenCalls(s) : row[c].attempt \in OpenAttempts
        /\ \A c \in OpenCalls(s) : ScanOf[c] = s
    BY DEF OpenCalls
  <2>3. /\ RowsInv' /\ BucketInv'
        /\ \A c \in Calls : c \notin OpenCalls(s) => row'[c] = row[c]
    BY <1>b, <2>1, <2>2, ReconcileCalm
  <2>4. ASSUME NEW v \in Workers, pc'[v] # "idle" PROVE Work(v)'
    <3>1. pc[v] # "idle" /\ Work(v)
      BY <1>b, <2>1, <2>4 DEF WorkInv
    <3>2. scan[v] # s
      BY <2>1, <3>1 DEF Attended, Work
    <3>3. lease'[scan[v]] = lease[scan[v]]
      BY <1>c, <2>1, <3>2 DEF TypeOK
    <3>4. pc[v] \in AtCall => row'[call[v]] = row[call[v]]
      BY <1>c, <2>2, <2>3, <3>2 DEF TokenInv
    <3> QED
      BY <2>1, <3>1, <3>3, <3>4, WorkKept
  <2> QED
    BY <2>3, <2>4 DEF CalmInv, WorkInv
<1>14. ASSUME NEW c \in Calls, ReconcileAged(c) PROVE CalmInv'
  <2>1. /\ row[c].attempt \in OpenAttempts /\ Reconcile({c})
        /\ ~Worked(c)
        /\ UNCHANGED <<cached, leaseVars, workerVars, sends, billable, lost, trampled>>
    BY <1>14 DEF ReconcileAged
  <2>2. /\ RowsInv' /\ BucketInv'
        /\ \A d \in Calls : d \notin {c} => row'[d] = row[d]
    BY <1>b, <2>1, ReconcileCalm
  <2>3. ASSUME NEW v \in Workers, pc'[v] # "idle" PROVE Work(v)'
    <3>1. Work(v)
      BY <1>b, <2>1, <2>3 DEF WorkInv
    <3>2. pc[v] \in AtCall => row'[call[v]] = row[call[v]]
      BY <1>c, <2>1, <2>2 DEF Worked
    <3> QED
      BY <2>1, <3>1, <3>2, WorkKept
  <2> QED
    BY <2>2, <2>3 DEF CalmInv, WorkInv
<1>15. ASSUME NEW c \in Calls, NEW actual \in {0, 1}, Resolve(c, actual) PROVE CalmInv'
  <2> DEFINE to == IF actual = 1 THEN "completed" ELSE "provider_confirmed_not_billed"
             new == [row[c] EXCEPT !.attempt = "reconciled", !.reservation = "finalized",
                                   !.status = to]
  <2>1. /\ row[c].attempt = "provider_outcome_unknown" /\ row' = [row EXCEPT ![c] = new]
        /\ row[c].reservation = "reconciled_unknown" =>
              unreconciled' = Less(unreconciled) /\ spend' = spend + actual
        /\ billable' = IF actual = 1 THEN billable ELSE NotBilled(c)
        /\ UNCHANGED <<cached, reserved, leaseVars, workerVars, sends, lost, overtaken, trampled>>
    BY <1>15 DEF Resolve
  <2>2. RowInv(row[c], billable[c], lost[c]) /\ row[c] \in Rows
    BY <1>b, <1>d DEF RowsInv
  <2>3. /\ row[c].reservation = "reconciled_unknown" /\ lost[c] \in Nat
        /\ billable[c] \in {lost[c], lost[c] + 1}
    BY <1>d, <2>1, <2>2 DEF RowInv
  <2>4. /\ new.status \in {"completed", "provider_confirmed_not_billed"}
        /\ new.attempt = "reconciled" /\ new.reservation = "finalized"
    BY <2>2 DEF Rows
  <2> HIDE DEF new
  <2>5. row'[c] = new /\ \A d \in Calls : d # c => row'[d] = row[d]
    BY <2>1 DEF TypeOK
  <2>6. /\ billable'[c] \in {lost[c], lost[c] + 1} /\ lost'[c] = lost[c]
        /\ billable'[c] = IF actual = 1 THEN billable[c] ELSE lost[c]
        /\ \A d \in Calls : d # c => billable'[d] = billable[d]
    BY <2>1, <2>3 DEF NotBilled, TypeOK
  <2>7. RowInv(row'[c], billable'[c], lost'[c])
    BY <2>3, <2>4, <2>5, <2>6 DEF RowInv
  <2>8. /\ H(row'[c]) = 0 /\ H(row[c]) = 0 /\ O(row'[c]) = 0 /\ O(row[c]) = 1
        /\ K(row'[c], billable'[c], lost'[c]) = 0
        /\ K(row[c], billable[c], lost[c]) = billable[c] - lost[c]
    BY <2>3, <2>4, <2>5, <2>6 DEF H, O, K
  <2>9. unreconciled' = unreconciled - 1 /\ spend' = spend + actual
    BY <1>d, <1>e, <2>1, <2>3 DEF Less
  <2>10. /\ spend' \in Nat
         /\ spend' + K(row'[c], billable'[c], lost'[c]) - K(row[c], billable[c], lost[c])
               >= spend + billable'[c] - billable[c]
         /\ billable'[c] \in {billable[c] - 1, billable[c], billable[c] + 1}
         /\ spend' + reserved' + unreconciled' <= Limit
         /\ reserved' = reserved + H(row'[c]) - H(row[c])
         /\ unreconciled' = unreconciled + O(row'[c]) - O(row[c])
    BY <1>d, <2>1, <2>3, <2>6, <2>8, <2>9
  <2>11. BucketInv'
    BY <1>b, <2>1, <2>5, <2>6, <2>10, BucketOne
  <2>12. RowsInv'
    <3>1. ASSUME NEW d \in Calls, d # c PROVE RowInv(row'[d], billable'[d], lost'[d])
      BY <1>b, <2>1, <2>5, <2>6, <3>1 DEF RowsInv
    <3> QED
      BY <2>7, <3>1 DEF RowsInv
  <2>13. ASSUME NEW v \in Workers, pc'[v] # "idle" PROVE Work(v)'
    <3>1. Work(v)
      BY <1>b, <2>1, <2>13 DEF WorkInv
    <3>2. pc[v] \in AtCall => call[v] # c
      <4>1. pc[v] \in AtCall => row[call[v]] \in {PreparedRow, ReservedRow, SubmittedRow}
        BY <3>1 DEF Work
      <4> QED
        BY <2>1, <4>1 DEF PreparedRow, ReservedRow, SubmittedRow
    <3>3. pc[v] \in AtCall =>
             /\ row'[call[v]] = row[call[v]] /\ billable'[call[v]] = billable[call[v]]
            /\ lost'[call[v]] = lost[call[v]]
      BY <1>c, <2>1, <2>5, <2>6, <3>2
    <3> QED
      BY <2>1, <3>1, <3>3, WorkKept
  <2> QED
    BY <2>11, <2>12, <2>13 DEF CalmInv, WorkInv
<1>16. ASSUME NEW w \in Workers, Crash(w) PROVE CalmInv'
  <2>1. /\ pc' = [pc EXCEPT ![w] = "idle"]
        /\ UNCHANGED <<row, cached, bucketVars, leaseVars, scan, call, token, copy, history>>
    BY <1>16 DEF Crash
  <2>2. pc'[w] = "idle" /\ \A v \in Workers : v # w => pc'[v] = pc[v]
    BY <2>1 DEF TypeOK
  <2>3. ASSUME NEW v \in Workers, pc'[v] # "idle" PROVE Work(v)'
    <3>1. v # w /\ Work(v)
      BY <1>b, <2>2, <2>3 DEF WorkInv
    <3> QED
      BY <2>1, <2>2, <3>1, WorkKept
  <2>4. RowsInv' /\ BucketInv'
    BY <1>b, <2>1, QuietStep
  <2> QED
    BY <2>3, <2>4 DEF CalmInv, WorkInv
<1>17. CASE UNCHANGED vars
  <2>1. ASSUME NEW v \in Workers, pc'[v] # "idle" PROVE Work(v)'
    <3>1. Work(v)
      BY <1>17, <1>b, <2>1 DEF WorkInv, vars
    <3> QED
      BY <1>17, <3>1, WorkKept DEF vars
  <2>2. RowsInv' /\ BucketInv'
    BY <1>17, <1>b, QuietStep DEF vars
  <2> QED
    BY <2>1, <2>2 DEF CalmInv, WorkInv
<1> QED
  BY <1>1, <1>2, <1>3, <1>4, <1>5, <1>6, <1>7, <1>8, <1>9, <1>10, <1>11, <1>12,
     <1>13, <1>14, <1>15, <1>16, <1>17, <1>18 DEF Next, WorkerStep
----------------------------------------------------------------------------
(* Whatever recovery overtakes.                                            *)

\* A step that leaves a taken row taken, stores no answer for c and brings no worker
\* past submitting it; a worker that takes c up finds it not on the network.
LEMMA FreshKept ==
  ASSUME NEW c \in Calls, Fresh(c),
         TakenRow(row[c]) => TakenRow(row'[c]),
         cached'[c] => cached[c],
         \A w \in Workers : pc'[w] \in Submitted /\ call'[w] = c =>
            pc[w] \in Submitted /\ call[w] = c,
         \A w \in Workers : pc'[w] \in {"prepared", "reserved"} /\ call'[w] = c =>
            \/ ~row'[c].network
            \/ /\ pc[w] \in {"prepared", "reserved"} /\ call[w] = c
               /\ row'[c].network => row[c].network
               /\ LeaseCurrent(w)' => LeaseCurrent(w)
  PROVE  Fresh(c)'
<1>1. ASSUME NEW w \in Workers, pc'[w] \in Submitted, call'[w] = c
      PROVE  TakenRow(row'[c]) /\ ~cached'[c]
  <2>1. pc[w] \in Submitted /\ call[w] = c
    BY <1>1
  <2> QED
    BY <2>1 DEF Fresh
<1>2. ASSUME NEW v \in Workers, NEW w \in Workers, pc'[v] \in Submitted, call'[v] = c,
             pc'[w] \in Submitted, call'[w] = c
      PROVE  v = w
  <2>1. pc[v] \in Submitted /\ call[v] = c /\ pc[w] \in Submitted /\ call[w] = c
    BY <1>2
  <2> QED
    BY <2>1 DEF Fresh
<1>3. ASSUME NEW w \in Workers, pc'[w] \in {"prepared", "reserved"}, call'[w] = c
      PROVE  ~row'[c].network \/ ~LeaseCurrent(w)'
  <2>1. CASE /\ pc[w] \in {"prepared", "reserved"} /\ call[w] = c
             /\ row'[c].network => row[c].network
             /\ LeaseCurrent(w)' => LeaseCurrent(w)
    <3>1. ~row[c].network \/ ~LeaseCurrent(w)
      BY <2>1 DEF Fresh
    <3> QED
      BY <2>1, <3>1
  <2> QED
    BY <1>3, <2>1
<1>4. cached'[c] => TakenRow(row'[c])
  BY DEF Fresh
<1> QED
  BY <1>1, <1>2, <1>3, <1>4 DEF Fresh

\* What a worker records, and the calls it does not record anything of.
LEMMA FreshWrite ==
  ASSUME TypeOK, TokenInv, CopyInv, FreshInv, NEW w \in Workers, pc[w] \in AtCall,
         NEW new \in Rows, Write(w, new), NEW k \in Calls, k = call[w],
         UNCHANGED <<call, scan, token>>, \A s \in Scans : lease'[s] \in {lease[s], 0},
         \A v \in Workers : v # w => pc'[v] = pc[v],
         \A c \in Calls : c # k => cached'[c] = cached[c],
         trampled \subseteq trampled', k \in trampled' \/ Fresh(k)',
         /\ pc'[w] \in {"prepared", "reserved"} => new.status = "prepared" /\ ~new.network
         /\ pc'[w] \in Submitted => new.status = "in_flight" /\ new.network
  PROVE  CopyInv' /\ FreshInv'
<1>1. /\ copy'[w] = new /\ \A v \in Workers : v # w => copy'[v] = copy[v]
      /\ \A c \in Calls : c # call[w] => row'[c] = row[c]
  BY WriteTypes
<1>2. CopyInv'
  <2>1. ASSUME NEW v \in Workers
        PROVE  /\ pc'[v] \in {"prepared", "reserved"} =>
                     copy'[v].status = "prepared" /\ ~copy'[v].network
               /\ pc'[v] \in Submitted => copy'[v].status = "in_flight" /\ copy'[v].network
    <3>1. CASE v = w
      BY <1>1, <3>1
    <3>2. CASE v # w
      BY <1>1, <3>2 DEF CopyInv
    <3> QED
      BY <3>1, <3>2
  <2> QED
    BY <2>1 DEF CopyInv
<1>3. ASSUME NEW v \in Workers, pc[v] # "idle", LeaseCurrent(v)' PROVE LeaseCurrent(v)
  <2>1. scan[v] \in Scans /\ token[v] # 0
    BY <1>3 DEF TokenInv, TypeOK
  <2> QED
    BY <1>3, <2>1 DEF LeaseCurrent
<1>4. ASSUME NEW c \in Calls, c # call[w], c \notin trampled' PROVE Fresh(c)'
  <2>1. Fresh(c) /\ row'[c] = row[c] /\ cached'[c] = cached[c]
    BY <1>1, <1>4 DEF FreshInv
  <2>2. ASSUME NEW v \in Workers, pc'[v] \in AtCall, call'[v] = c
        PROVE  v # w /\ pc'[v] = pc[v] /\ call[v] = c /\ (LeaseCurrent(v)' => LeaseCurrent(v))
    BY <1>3, <1>4, <2>2
  <2> QED
    BY <2>1, <2>2, FreshKept
<1>5. FreshInv'
  BY <1>4 DEF FreshInv
<1> QED
  BY <1>2, <1>5

\* Leases are only given up; workers stay where they are, leave their calls or wait for
\* their answers; rows are reconciled.
LeasesDrop == \A s \in Scans : lease'[s] \in {lease[s], 0}
WorkersMoveOn ==
    \A v \in Workers : \/ pc'[v] = pc[v] \/ pc'[v] \notin AtCall
                       \/ pc[v] \in Submitted /\ pc'[v] \in Submitted
RowsStayTaken ==
    \A c \in Calls : /\ row'[c].network => row[c].network
                     /\ TakenRow(row[c]) => TakenRow(row'[c])

\* A step of someone who is not at a call, or one that moves a worker on without a
\* word to the database: a row may be reconciled, never put back on the network.
LEMMA FreshQuiet ==
  ASSUME TypeOK, TokenInv, CopyInv, FreshInv,
         UNCHANGED <<cached, copy, call, scan, token, trampled>>,
         LeasesDrop, WorkersMoveOn, RowsStayTaken
  PROVE  CopyInv' /\ FreshInv'
<1>1. CopyInv'
  BY DEF CopyInv, WorkersMoveOn
<1>2. ASSUME NEW v \in Workers, pc[v] # "idle", LeaseCurrent(v)' PROVE LeaseCurrent(v)
  <2>1. scan[v] \in Scans /\ token[v] # 0
    BY <1>2 DEF TokenInv, TypeOK
  <2> QED
    BY <1>2, <2>1 DEF LeaseCurrent, LeasesDrop
<1>3. ASSUME NEW c \in Calls, c \notin trampled PROVE Fresh(c)'
  <2>1. Fresh(c)
    BY <1>3 DEF FreshInv
  <2>2. ASSUME NEW v \in Workers, pc'[v] \in {"prepared", "reserved"}, call'[v] = c
        PROVE  /\ pc[v] \in {"prepared", "reserved"} /\ call[v] = c
               /\ row'[c].network => row[c].network
               /\ LeaseCurrent(v)' => LeaseCurrent(v)
    BY <1>2, <2>2 DEF WorkersMoveOn, RowsStayTaken
  <2>3. \A v \in Workers : pc'[v] \in Submitted /\ call'[v] = c =>
           pc[v] \in Submitted /\ call[v] = c
    BY DEF WorkersMoveOn
  <2>4. (TakenRow(row[c]) => TakenRow(row'[c])) /\ (cached'[c] => cached[c])
    BY DEF RowsStayTaken
  <2> QED
    BY <2>1, <2>2, <2>3, <2>4, FreshKept
<1> QED
  BY <1>1, <1>3 DEF FreshInv

\* Every step keeps a call that was not trampled with one submitted attempt.
LEMMA FreshStep == IndInv /\ [Next]_vars => CopyInv' /\ FreshInv'
<1> SUFFICES ASSUME TypeOK, TokenInv, CopyInv, FreshInv, [Next]_vars
             PROVE  CopyInv' /\ FreshInv'
  BY DEF IndInv
<1> USE DEF bucketVars, leaseVars, workerVars, history
<1>a. \A w \in Workers : copy[w] \in Rows /\ call[w] \in Calls /\ scan[w] \in Scans
  BY DEF TypeOK
<1>b. \A c \in Calls : row[c] \in Rows
  BY DEF TypeOK
\* the record of a worker at call k that is refused before it submits
<1>c. ASSUME NEW w \in Workers, pc[w] \in {"prepared", "reserved"}, NEW new \in Rows,
             Write(w, new), new.status \in Reusable, new.network = copy[w].network, GiveUp(w),
             trampled' = Trample(w), UNCHANGED cached
      PROVE  CopyInv' /\ FreshInv'
  <2>1. PICK k \in Calls : k = call[w]
    BY <1>a
  <2>2. trampled \subseteq trampled' /\ (TakenRow(row[k]) => k \in trampled')
    BY <1>c, <2>1 DEF Trample, Taken, Unused, TakenRow
  <2>3. row'[k].status \in Reusable /\ row'[k].network = row[k].network
    <3>1. new.status # copy[w].status
      BY <1>c DEF CopyInv
    <3> QED
      BY <1>c, <2>1, <3>1, WriteTypes
  <2>4. ASSUME k \notin trampled' PROVE Fresh(k)'
    <3>1. Fresh(k) /\ ~TakenRow(row[k])
      BY <2>2, <2>4 DEF FreshInv
    <3>2. \A v \in Workers : pc'[v] \in AtCall => v # w /\ pc'[v] = pc[v] /\ call'[v] = call[v]
      BY <1>c, GiveUpTypes
    <3>3. ASSUME NEW v \in Workers, pc[v] \in AtCall, LeaseCurrent(v)' PROVE LeaseCurrent(v)
      <4>1. scan[v] \in Scans /\ token[v] # 0 /\ scan'[v] = scan[v] /\ token'[v] = token[v]
        BY <1>c, <3>3, GiveUpTypes DEF TokenInv, TypeOK
      <4>2. lease'[scan[v]] \in {lease[scan[v]], 0}
        BY <1>c, <4>1, GiveUpTypes
      <4> QED
        BY <3>3, <4>1, <4>2 DEF LeaseCurrent
    <3>4. cached'[k] => cached[k]
      BY <1>c
    <3>5. \A v \in Workers : pc'[v] \in {"prepared", "reserved"} /\ call'[v] = k =>
             \/ ~row'[k].network
             \/ /\ pc[v] \in {"prepared", "reserved"} /\ call[v] = k
                /\ row'[k].network => row[k].network
                /\ LeaseCurrent(v)' => LeaseCurrent(v)
      BY <2>3, <3>2, <3>3
    <3> QED
      BY <3>1, <3>2, <3>4, <3>5, FreshKept
  <2>5. /\ UNCHANGED <<call, scan, token>> /\ \A s \in Scans : lease'[s] \in {lease[s], 0}
        /\ \A v \in Workers : v # w => pc'[v] = pc[v]
        /\ pc'[w] = "idle"
    BY <1>c, GiveUpTypes
  <2> QED
    BY <1>c, <2>1, <2>2, <2>4, <2>5, FreshWrite
\* the record of a worker past submitting call k, which it then leaves
<1>d. ASSUME NEW w \in Workers, pc[w] \in Submitted, NEW new \in Rows, Write(w, new),
             new.status # "in_flight", new.status # "absent", new.network = copy[w].network,
             UNCHANGED <<call, scan, token, trampled>>,
             \A s \in Scans : lease'[s] \in {lease[s], 0},
             \A v \in Workers : v # w => pc'[v] = pc[v], pc'[w] \notin AtCall,
             \A c \in Calls : c # call[w] => cached'[c] = cached[c],
             cached'[call[w]] => cached[call[w]] \/ new.status \notin Reusable
      PROVE  CopyInv' /\ FreshInv'
  <2>1. PICK k \in Calls : k = call[w]
    BY <1>a
  <2>2. /\ row'[k].status = new.status /\ row'[k].network = row[k].network
    <3>1. new.status # copy[w].status
      BY <1>d DEF CopyInv
    <3> QED
      BY <1>d, <2>1, <3>1, WriteTypes
  <2>3. ASSUME k \notin trampled' PROVE Fresh(k)'
    <3>1. Fresh(k)
      BY <1>d, <2>3 DEF FreshInv
    <3>2. TakenRow(row[k]) /\ ~cached[k]
      BY <1>d, <2>1, <3>1 DEF Fresh
    <3>3. \A v \in Workers : ~(pc'[v] \in Submitted /\ call'[v] = k)
      <4>1. ASSUME NEW v \in Workers, pc'[v] \in Submitted, call'[v] = k PROVE FALSE
        <5>1. v # w /\ pc[v] \in Submitted /\ call[v] = k
          BY <1>d, <4>1
        <5> QED
          BY <1>d, <2>1, <3>1, <5>1 DEF Fresh
      <4> QED
        BY <4>1
    <3>4. ASSUME NEW v \in Workers, pc'[v] \in {"prepared", "reserved"}, call'[v] = k
          PROVE  ~LeaseCurrent(v)'
      <4>1. v # w /\ pc[v] \in {"prepared", "reserved"} /\ call[v] = k
        BY <1>d, <3>4
      <4>2. ~LeaseCurrent(v)
        BY <3>1, <3>2, <4>1 DEF Fresh, TakenRow
      <4>3. scan[v] \in Scans /\ token[v] # 0
        BY <4>1 DEF TokenInv, TypeOK
      <4> QED
        BY <1>d, <4>2, <4>3 DEF LeaseCurrent
    <3>5. cached'[k] => TakenRow(row'[k])
      BY <1>d, <2>1, <2>2, <3>2 DEF TakenRow
    <3> QED
      BY <3>3, <3>4, <3>5 DEF Fresh
  <2> QED
    BY <1>d, <2>1, <2>3, FreshWrite
<1>1. ASSUME NEW w \in Workers, NEW s \in Scans, ClaimScan(w, s) PROVE CopyInv' /\ FreshInv'
  <2>1. /\ lease'[s] = leases[s] + 1
        /\ \A t \in Scans : t # s => lease'[t] = lease[t]
        /\ pc'[w] = "running"
        /\ \A v \in Workers : v # w => pc'[v] = pc[v] /\ scan'[v] = scan[v] /\ token'[v] = token[v]
        /\ UNCHANGED <<row, cached, bucketVars, call, copy, history>>
    BY <1>1 DEF ClaimScan, TypeOK
  <2>2. CopyInv'
    BY <2>1 DEF CopyInv
  <2>3. ASSUME NEW v \in Workers, v # w, pc[v] # "idle", LeaseCurrent(v)' PROVE LeaseCurrent(v)
    <3>1. scan[v] \in Scans /\ token[v] \in 1 .. leases[scan[v]] /\ leases[scan[v]] \in Nat
      BY <2>3 DEF TokenInv, TypeOK
    <3>2. scan[v] # s
      BY <2>1, <2>3, <3>1 DEF LeaseCurrent
    <3> QED
      BY <2>1, <2>3, <3>1, <3>2 DEF LeaseCurrent
  <2>4. ASSUME NEW c \in Calls, c \notin trampled PROVE Fresh(c)'
    <3>1. Fresh(c)
      BY <2>4 DEF FreshInv
    <3>2. ASSUME NEW v \in Workers, pc'[v] \in {"prepared", "reserved"}, call'[v] = c
          PROVE  /\ pc[v] \in {"prepared", "reserved"} /\ call[v] = c
                 /\ row'[c].network => row[c].network
                 /\ LeaseCurrent(v)' => LeaseCurrent(v)
      <4>1. v # w /\ pc[v] \in {"prepared", "reserved"} /\ call[v] = c
        BY <2>1, <3>2
      <4> QED
        BY <2>1, <2>3, <4>1
    <3>3. \A v \in Workers : pc'[v] \in Submitted /\ call'[v] = c =>
             pc[v] \in Submitted /\ call[v] = c
      BY <2>1
    <3> QED
      BY <2>1, <3>1, <3>2, <3>3, FreshKept
  <2> QED
    BY <2>1, <2>2, <2>4 DEF FreshInv
<1>2. ASSUME NEW w \in Workers, LeaveScan(w) PROVE CopyInv' /\ FreshInv'
  <2>1. GiveUp(w) /\ UNCHANGED <<row, cached, bucketVars, copy, history>>
    BY <1>2 DEF LeaveScan
  <2>2. LeasesDrop /\ WorkersMoveOn /\ RowsStayTaken /\ UNCHANGED <<call, scan, token>>
    BY <2>1, GiveUpTypes DEF LeasesDrop, WorkersMoveOn, RowsStayTaken
  <2> QED
    BY <2>1, <2>2, FreshQuiet
<1>3. ASSUME NEW w \in Workers, NEW k \in Calls, Prepare(w, k) PROVE CopyInv' /\ FreshInv'
  <2>1. /\ row' = [row EXCEPT ![k] = PreparedRow] /\ copy' = [copy EXCEPT ![w] = PreparedRow]
        /\ call' = [call EXCEPT ![w] = k] /\ pc' = [pc EXCEPT ![w] = "prepared"]
        /\ Unused(k) /\ UNCHANGED <<cached, bucketVars, leaseVars, scan, token, history>>
    BY <1>3 DEF Prepare, PreparedRow
  <2>2. PreparedRow.status = "prepared" /\ ~PreparedRow.network
    BY DEF PreparedRow
  <2> HIDE DEF PreparedRow
  <2>3. /\ row'[k] = PreparedRow /\ \A c \in Calls : c # k => row'[c] = row[c]
        /\ copy'[w] = PreparedRow /\ pc'[w] = "prepared" /\ call'[w] = k
        /\ \A v \in Workers : v # w => copy'[v] = copy[v] /\ pc'[v] = pc[v] /\ call'[v] = call[v]
    BY <2>1 DEF TypeOK
  <2>4. CopyInv'
    <3>1. ASSUME NEW v \in Workers
          PROVE  /\ pc'[v] \in {"prepared", "reserved"} =>
                       copy'[v].status = "prepared" /\ ~copy'[v].network
                 /\ pc'[v] \in Submitted => copy'[v].status = "in_flight" /\ copy'[v].network
      <4>1. CASE v = w
        BY <2>2, <2>3, <4>1
      <4>2. CASE v # w
        BY <2>3, <4>2 DEF CopyInv
      <4> QED
        BY <4>1, <4>2
    <3> QED
      BY <3>1 DEF CopyInv
  <2>5. ASSUME NEW c \in Calls, c \notin trampled PROVE Fresh(c)'
    <3>1. Fresh(c)
      BY <2>5 DEF FreshInv
    <3>2. TakenRow(row[c]) => TakenRow(row'[c])
      BY <2>1, <2>3 DEF TakenRow, Unused
    <3>3. ASSUME NEW v \in Workers, pc'[v] \in {"prepared", "reserved"}, call'[v] = c
          PROVE  \/ ~row'[c].network
                 \/ /\ pc[v] \in {"prepared", "reserved"} /\ call[v] = c
                    /\ row'[c].network => row[c].network
                    /\ LeaseCurrent(v)' => LeaseCurrent(v)
      <4>1. CASE c = k
        BY <2>2, <2>3, <4>1
      <4>2. CASE c # k
        <5>1. v # w /\ row'[c] = row[c]
          BY <2>3, <3>3, <4>2
        <5> QED
          BY <2>1, <2>3, <3>3, <5>1 DEF LeaseCurrent
      <4> QED
        BY <4>1, <4>2
    <3>4. \A v \in Workers : pc'[v] \in Submitted /\ call'[v] = c =>
             pc[v] \in Submitted /\ call[v] = c
      BY <2>3
    <3>5. cached'[c] => cached[c]
      BY <2>1
    <3> QED
      BY <3>1, <3>2, <3>3, <3>4, <3>5, FreshKept
  <2> QED
    BY <2>1, <2>4, <2>5 DEF FreshInv
<1>4. ASSUME NEW w \in Workers, NEW k \in Calls, ReplayCached(w, k) PROVE CopyInv' /\ FreshInv'
  <2> DEFINE hit == [status |-> "cache_hit", attempt |-> "cache_hit",
                     reservation |-> "none", network |-> FALSE]
  <2>1. /\ Unused(k) /\ row' = [row EXCEPT ![k] = hit]
        /\ UNCHANGED <<cached, bucketVars, leaseVars, workerVars, history>>
    BY <1>4 DEF ReplayCached
  <2>2. ~hit.network
    OBVIOUS
  <2> HIDE DEF hit
  <2>3. row'[k] = hit /\ \A c \in Calls : c # k => row'[c] = row[c]
    BY <2>1 DEF TypeOK
  <2>4. RowsStayTaken
    BY <2>1, <2>2, <2>3 DEF RowsStayTaken, TakenRow, Unused
  <2>5. LeasesDrop /\ WorkersMoveOn
    BY <2>1 DEF LeasesDrop, WorkersMoveOn
  <2> QED
    BY <2>1, <2>4, <2>5, FreshQuiet
<1>5. ASSUME NEW w \in Workers, Reserve(w) PROVE CopyInv' /\ FreshInv'
  <2> DEFINE new == [copy[w] EXCEPT !.attempt = "reserved", !.reservation = "reserved"]
  <2>1. /\ pc[w] = "prepared" /\ Write(w, new) /\ pc' = [pc EXCEPT ![w] = "reserved"]
        /\ UNCHANGED <<cached, spend, unreconciled, leaseVars, scan, call, token, history>>
    BY <1>5 DEF Reserve
  <2>2. new \in Rows /\ new.status = copy[w].status /\ new.network = copy[w].network
    BY <1>a, NewRows
  <2> HIDE DEF new
  <2>3. PICK k \in Calls : k = call[w]
    BY <1>a
  <2>4. row'[k].status = row[k].status /\ row'[k].network = row[k].network
    BY <2>1, <2>2, <2>3, WriteTypes
  <2>5. pc'[w] = "reserved" /\ \A v \in Workers : v # w => pc'[v] = pc[v]
    BY <2>1 DEF TypeOK
  <2>6. ASSUME k \notin trampled PROVE Fresh(k)'
    <3>1. Fresh(k)
      BY <2>6 DEF FreshInv
    <3>2. TakenRow(row[k]) => TakenRow(row'[k])
      BY <2>4 DEF TakenRow
    <3>3. \A v \in Workers : pc'[v] \in {"prepared", "reserved"} /\ call'[v] = k =>
             /\ pc[v] \in {"prepared", "reserved"} /\ call[v] = k
             /\ row'[k].network => row[k].network
             /\ LeaseCurrent(v)' => LeaseCurrent(v)
      BY <2>1, <2>4, <2>5 DEF LeaseCurrent
    <3>4. \A v \in Workers : pc'[v] \in Submitted /\ call'[v] = k =>
             pc[v] \in Submitted /\ call[v] = k
      BY <2>1, <2>5
    <3>5. cached'[k] => cached[k]
      BY <2>1
    <3> QED
      BY <3>1, <3>2, <3>3, <3>4, <3>5, FreshKept
  <2>7. new.status = "prepared" /\ ~new.network
    BY <2>1, <2>2 DEF CopyInv
  <2> QED
    BY <2>1, <2>2, <2>3, <2>5, <2>6, <2>7, FreshWrite
<1>6. ASSUME NEW w \in Workers, ReserveRefused(w) PROVE CopyInv' /\ FreshInv'
  <2>1. PICK s \in Reusable : Write(w, Failed(w, s))
    BY <1>6 DEF ReserveRefused
  <2>2. /\ Failed(w, s) \in Rows /\ Failed(w, s).status = s
        /\ Failed(w, s).network = copy[w].network
    BY <1>a, FailedRows DEF Reusable
  <2>3. pc[w] = "prepared" /\ GiveUp(w) /\ trampled' = Trample(w) /\ UNCHANGED cached
    BY <1>6 DEF ReserveRefused
  <2> QED
    BY <1>c, <2>1, <2>2, <2>3
<1>7. ASSUME NEW w \in Workers, Submit(w) PROVE CopyInv' /\ FreshInv'
  <2> DEFINE new == [copy[w] EXCEPT !.status = "in_flight", !.attempt = "in_flight",
                                    !.network = TRUE]
  <2>1. /\ pc[w] = "reserved" /\ LeaseCurrent(w) /\ Write(w, new)
        /\ pc' = [pc EXCEPT ![w] = "submitted"]
        /\ UNCHANGED <<cached, bucketVars, leaseVars, scan, call, token, history>>
    BY <1>7 DEF Submit
  <2>2. new \in Rows /\ new.status = "in_flight" /\ new.network = TRUE
    BY <1>a, NewRows
  <2> HIDE DEF new
  <2>3. PICK k \in Calls : k = call[w]
    BY <1>a
  <2>4. TakenRow(row'[k])
    <3>1. copy[w].status = "prepared" /\ ~copy[w].network
      BY <2>1 DEF CopyInv
    <3>2. new.status # copy[w].status /\ new.network # copy[w].network
      BY <2>2, <3>1
    <3>3. row'[k].status = "in_flight" /\ row'[k].network = TRUE
      BY <2>1, <2>2, <2>3, <3>2, WriteTypes
    <3> QED
      BY <3>3 DEF TakenRow
  <2>5. pc'[w] = "submitted" /\ \A v \in Workers : v # w => pc'[v] = pc[v]
    BY <2>1 DEF TypeOK
  <2>6. ASSUME k \notin trampled PROVE Fresh(k)'
    <3>1. Fresh(k)
      BY <2>6 DEF FreshInv
    <3>2. ~row[k].network
      BY <2>1, <2>3, <3>1 DEF Fresh
    <3>3. /\ ~cached[k] /\ \A v \in Workers : ~(pc[v] \in Submitted /\ call[v] = k)
      BY <3>1, <3>2 DEF Fresh, TakenRow
    <3>4. ASSUME NEW v \in Workers, pc'[v] \in {"prepared", "reserved"}, call'[v] = k
          PROVE  ~LeaseCurrent(v)'
      <4>1. v # w /\ pc[v] \in {"prepared", "reserved"} /\ call[v] = k
        BY <2>1, <2>5, <3>4
      <4>2. scan[v] = ScanOf[k] /\ scan[w] = ScanOf[k]
        BY <2>1, <2>3, <4>1 DEF TokenInv
      <4>3. token[v] # token[w]
        BY <2>1, <4>1, <4>2 DEF TokenInv
      <4> QED
        BY <2>1, <4>2, <4>3 DEF LeaseCurrent
    <3>5. ASSUME NEW v \in Workers, pc'[v] \in Submitted, call'[v] = k PROVE v = w
      BY <2>1, <2>5, <3>3, <3>5
    <3>6. ~cached'[k]
      BY <2>1, <3>3
    <3> QED
      BY <2>4, <3>4, <3>5, <3>6 DEF Fresh
  <2> QED
    BY <2>1, <2>2, <2>3, <2>5, <2>6, FreshWrite
<1>8. ASSUME NEW w \in Workers, SubmitRefused(w) PROVE CopyInv' /\ FreshInv'
  <2> DEFINE new == [Failed(w, "failed_before_network") EXCEPT !.reservation = "finalized"]
  <2>1. /\ pc[w] = "reserved" /\ Write(w, new) /\ GiveUp(w) /\ trampled' = Trample(w)
        /\ UNCHANGED cached
    BY <1>8 DEF SubmitRefused
  <2>2. /\ new \in Rows /\ new.status = "failed_before_network"
        /\ new.network = copy[w].network
    BY <1>a, FailedRows DEF Reusable
  <2> HIDE DEF new
  <2> QED
    BY <1>c, <2>1, <2>2
<1>9. ASSUME NEW w \in Workers, CheckBeforeSend(w) \/ Send(w) \/ CheckAnswer(w)
      PROVE  CopyInv' /\ FreshInv'
  <2>1. PICK l \in Submitted :
           /\ pc[w] \in Submitted /\ pc' = [pc EXCEPT ![w] = l]
           /\ UNCHANGED <<row, cached, leaseVars, scan, call, token, copy, trampled>>
    BY <1>9 DEF CheckBeforeSend, Send, CheckAnswer
  <2>2. /\ pc'[w] \in Submitted
        /\ \A v \in Workers : v # w => pc'[v] = pc[v]
    BY <2>1 DEF TypeOK
  <2>3. LeasesDrop /\ WorkersMoveOn /\ RowsStayTaken
    BY <2>1, <2>2 DEF LeasesDrop, WorkersMoveOn, RowsStayTaken
  <2> QED
    BY <2>1, <2>3, FreshQuiet
<1>10. ASSUME NEW w \in Workers, NEW actual \in {0, 1}, Complete(w, actual)
       PROVE  CopyInv' /\ FreshInv'
  <2> DEFINE new == [copy[w] EXCEPT !.status = "completed", !.attempt = "completed",
                                    !.reservation = "finalized"]
  <2>1. /\ pc[w] = "answered" /\ Write(w, new) /\ pc' = [pc EXCEPT ![w] = "running"]
        /\ cached' = [cached EXCEPT ![call[w]] = TRUE]
        /\ UNCHANGED <<leaseVars, scan, call, token, trampled>>
    BY <1>10 DEF Complete
  <2>2. new \in Rows /\ new.status = "completed" /\ new.network = copy[w].network
    BY <1>a, NewRows
  <2> HIDE DEF new
  <2>3. /\ pc'[w] = "running" /\ \A v \in Workers : v # w => pc'[v] = pc[v]
        /\ \A c \in Calls : c # call[w] => cached'[c] = cached[c]
    BY <2>1 DEF TypeOK
  <2> QED
    BY <1>d, <2>1, <2>2, <2>3
<1>11. ASSUME NEW w \in Workers, NEW actual \in {0, 1}, Rejected(w) \/ StoreFails(w, actual)
       PROVE  CopyInv' /\ FreshInv'
  <2> DEFINE new == [Failed(w, "failed") EXCEPT !.reservation = "finalized"]
  <2>1. /\ pc[w] = "answered" /\ Write(w, new) /\ GiveUp(w) /\ UNCHANGED <<cached, trampled>>
    BY <1>11 DEF Rejected, StoreFails, FailedAnswer
  <2>2. new \in Rows /\ new.status = "failed" /\ new.network = copy[w].network
    BY <1>a, FailedRows DEF Reusable
  <2> HIDE DEF new
  <2> QED
    BY <1>d, <2>1, <2>2, GiveUpTypes
<1>12. ASSUME NEW w \in Workers, Ambiguous(w) PROVE CopyInv' /\ FreshInv'
  <2>1. /\ pc[w] \in Submitted /\ Write(w, Unknown(w)) /\ GiveUp(w)
        /\ UNCHANGED <<cached, trampled>>
    BY <1>12 DEF Ambiguous
  <2>2. /\ Unknown(w) \in Rows /\ Unknown(w).status = "provider_outcome_unknown"
        /\ Unknown(w).network = copy[w].network
    BY <1>a, NewRows DEF Unknown
  <2> QED
    BY <1>d, <2>1, <2>2, GiveUpTypes
\* recovery reconciles rows: one that was on the network is never reusable
<1>e. ASSUME NEW stale \in SUBSET Calls, Reconcile(stale),
             UNCHANGED <<cached, workerVars, trampled>>,
             \A s \in Scans : lease'[s] \in {lease[s], 0}
      PROVE  CopyInv' /\ FreshInv'
  <2>1. \A c \in Calls : row'[c] = IF c \in stale THEN Reconciled(row[c]) ELSE row[c]
    BY <1>e DEF Reconcile
  <2>2. ASSUME NEW c \in Calls
        PROVE  /\ row'[c].network => row[c].network
               /\ TakenRow(row[c]) => TakenRow(row'[c])
    BY <1>b, <2>1, ReconciledRow DEF TakenRow
  <2>3. LeasesDrop /\ WorkersMoveOn /\ RowsStayTaken
    BY <1>e, <2>2 DEF LeasesDrop, WorkersMoveOn, RowsStayTaken
  <2> QED
    BY <1>e, <2>3, FreshQuiet
<1>13. ASSUME NEW s \in Scans, RecoverScan(s) PROVE CopyInv' /\ FreshInv'
  <2>1. /\ Reconcile(OpenCalls(s)) /\ UNCHANGED <<cached, workerVars, trampled>>
        /\ \A t \in Scans : lease'[t] \in {lease[t], 0}
    BY <1>13 DEF RecoverScan, TypeOK
  <2>2. OpenCalls(s) \in SUBSET Calls
    BY DEF OpenCalls
  <2> QED
    BY <1>e, <2>1, <2>2
<1>14. ASSUME NEW c \in Calls, ReconcileAged(c) PROVE CopyInv' /\ FreshInv'
  <2>1. Reconcile({c}) /\ UNCHANGED <<cached, workerVars, trampled, lease>>
    BY <1>14 DEF ReconcileAged
  <2> QED
    BY <1>e, <2>1
<1>15. ASSUME NEW k \in Calls, NEW actual \in {0, 1}, Resolve(k, actual)
       PROVE  CopyInv' /\ FreshInv'
  <2> DEFINE to == IF actual = 1 THEN "completed" ELSE "provider_confirmed_not_billed"
             new == [row[k] EXCEPT !.attempt = "reconciled", !.reservation = "finalized",
                                   !.status = to]
  <2>1. /\ row' = [row EXCEPT ![k] = new]
        /\ UNCHANGED <<cached, reserved, leaseVars, workerVars, sends, lost, overtaken, trampled>>
    BY <1>15 DEF Resolve
  <2>2. new.status \notin Reusable \cup {"absent"} /\ new.network = row[k].network
    BY <1>b DEF Rows
  <2> HIDE DEF new
  <2>3. row'[k] = new /\ \A c \in Calls : c # k => row'[c] = row[c]
    BY <2>1 DEF TypeOK
  <2>4. RowsStayTaken
    BY <2>2, <2>3 DEF RowsStayTaken, TakenRow
  <2>5. LeasesDrop /\ WorkersMoveOn
    BY <2>1 DEF LeasesDrop, WorkersMoveOn
  <2> QED
    BY <2>1, <2>4, <2>5, FreshQuiet
<1>16. ASSUME NEW w \in Workers, Crash(w) PROVE CopyInv' /\ FreshInv'
  <2>1. /\ pc' = [pc EXCEPT ![w] = "idle"]
        /\ UNCHANGED <<row, cached, bucketVars, leaseVars, scan, call, token, copy, history>>
    BY <1>16 DEF Crash
  <2>2. pc'[w] = "idle" /\ \A v \in Workers : v # w => pc'[v] = pc[v]
    BY <2>1 DEF TypeOK
  <2>3. LeasesDrop /\ WorkersMoveOn /\ RowsStayTaken
    BY <2>1, <2>2 DEF LeasesDrop, WorkersMoveOn, RowsStayTaken
  <2> QED
    BY <2>1, <2>3, FreshQuiet
<1>17. CASE UNCHANGED vars
  <2>1. LeasesDrop /\ WorkersMoveOn /\ RowsStayTaken
    BY <1>17 DEF vars, LeasesDrop, WorkersMoveOn, RowsStayTaken
  <2> QED
    BY <1>17, <2>1, FreshQuiet DEF vars
<1> QED
  BY <1>1, <1>2, <1>3, <1>4, <1>5, <1>6, <1>7, <1>8, <1>9, <1>10, <1>11, <1>12,
     <1>13, <1>14, <1>15, <1>16, <1>17 DEF Next, WorkerStep
----------------------------------------------------------------------------
(* Theorems.                                                               *)

\* The inductive invariant holds in the initial state: no row, no lease, an empty bucket.
LEMMA InitInv == Init => IndInv
<1> SUFFICES ASSUME Init PROVE IndInv
  OBVIOUS
<1>1. TypeOK
  <2>1. (CHOOSE c \in Calls : TRUE) \in Calls /\ (CHOOSE s \in Scans : TRUE) \in Scans
    BY SpendConstants
  <2>2. NoRow \in Rows
    BY DEF NoRow, Rows
  <2> QED
    BY <2>1, <2>2 DEF Init, TypeOK
<1>2. TokenInv
  BY DEF Init, TokenInv
<1>3. WorkInv
  BY DEF Init, WorkInv
<1>4. RowsInv
  BY DEF Init, RowsInv, RowInv, NoRow
<1>5. BucketInv
  <2>1. Held = {} /\ Open = {} /\ AtRisk = {} /\ Requests = {}
    BY DEF Init, Held, Open, AtRisk, Requests, NoRow
  <2> QED
    BY <2>1, SpendConstants, FS_EmptySet DEF Init, BucketInv
<1>6. CopyInv /\ FreshInv
  BY DEF Init, CopyInv, FreshInv, Fresh
<1> QED
  BY <1>1, <1>2, <1>3, <1>4, <1>5, <1>6 DEF IndInv, CalmInv

\* The inductive invariant of the bucket, the rows and the workers.
THEOREM Inductive == Spec => []IndInv
<1>1. IndInv /\ [Next]_vars => IndInv'
  BY TokenStep, CalmStep, FreshStep DEF IndInv
<1> QED
  BY <1>1, InitInv, PTL DEF Spec

\* Every reservation is counted once in the daily bucket, through crashes, refusals,
\* ambiguous outcomes and operator reconciliations (reserve_provider_call,
\* finish_provider_call, reconcile_stale_api_call_attempts and
\* resolve_unknown_provider_call), until recovery overtakes a worker at its call.
THEOREM LedgerSound == Spec => []LedgerMatchesRows
<1>1. IndInv => LedgerMatchesRows
  BY DEF IndInv, CalmInv, BucketInv, Held, Open, LedgerMatchesRows
<1> QED
  BY <1>1, Inductive, PTL

\* What the requests of any number of concurrent scans may have cost stays within the
\* daily limit, and a request that may have been billed is sent again only when its paid
\* answer could not be stored (reserve_provider_call, _request), until recovery overtakes
\* a worker at its call.
THEOREM LimitHolds == Spec => []SpendWithinLimit
<1>1. IndInv => SpendWithinLimit
  <2> SUFFICES ASSUME TypeOK, RowsInv, BucketInv
               PROVE  Exposure <= Limit /\ \A c \in Calls : billable[c] <= 1 + lost[c]
    BY DEF IndInv, CalmInv, SpendWithinLimit
  <2>1. \A c \in Calls : billable[c] <= 1 + lost[c]
    <3>1. ASSUME NEW c \in Calls PROVE billable[c] <= 1 + lost[c]
      <4>1. billable[c] \in {lost[c], lost[c] + 1} /\ lost[c] \in Nat
        BY DEF RowsInv, RowInv, TypeOK
      <4> QED
        BY <4>1
    <3> QED
      BY <3>1
  <2>2. Held \in SUBSET Calls /\ Open \in SUBSET Calls /\ Held \cap Open = {}
    BY DEF Held, Open
  <2>3. AtRisk \subseteq Held \cup Open
    BY DEF Held, Open, AtRisk
  <2>4. Cardinality(Held \cup Open) = Cardinality(Held) + Cardinality(Open)
    BY <2>2, CountUnion
  <2>5. IsFiniteSet(Held \cup Open)
    BY <2>2, SpendConstants, FS_Subset
  <2>6. Cardinality(AtRisk) <= Cardinality(Held \cup Open) /\ Cardinality(AtRisk) \in Nat
    BY <2>3, <2>5, FS_Subset, FS_CardinalityType
  <2>7. Cardinality(Held) \in Nat /\ Cardinality(Open) \in Nat
    BY <2>2, SpendConstants, FS_Subset, FS_CardinalityType
  <2>8. /\ reserved = Cardinality(Held) /\ unreconciled = Cardinality(Open)
        /\ Cardinality(Requests) <= spend + Cardinality(AtRisk)
        /\ spend + reserved + unreconciled <= Limit
        /\ spend \in Nat /\ Limit \in Nat /\ Cardinality(Requests) \in Nat
    BY SpendConstants, FS_CardinalityType DEF BucketInv, TypeOK
  <2>9. Exposure = Cardinality(Requests)
    BY DEF Exposure, Requests
  <2>10. Exposure <= Limit
    BY <2>4, <2>6, <2>7, <2>8, <2>9
  <2> QED
    BY <2>1, <2>10
<1> QED
  BY <1>1, Inductive, PTL

\* Once the answer of a planned request is stored, no request goes out for it again,
\* however often leases are lost between the checks of _request and what it does next,
\* unless a worker without a lease has overwritten the row of another's submitted attempt.
THEOREM AnsweredNeverResent == Spec => CompletedNeverResent
<1>1. IndInv /\ [Next]_vars =>
        [\A c \in Calls \ trampled : cached[c] => sends'[c] = sends[c]]_vars
  <2> SUFFICES ASSUME TypeOK, FreshInv, Next, NEW c \in Calls, c \notin trampled, cached[c]
               PROVE  sends'[c] = sends[c]
    BY DEF IndInv
  <2>1. ASSUME NEW w \in Workers, Send(w) PROVE sends'[c] = sends[c]
    <3>1. pc[w] \in Submitted
      BY <2>1 DEF Send
    <3>2. call[w] # c
      BY <3>1 DEF FreshInv, Fresh
    <3> QED
      BY <2>1, <3>2 DEF Send, TypeOK
  <2>2. (\E w \in Workers : Send(w)) \/ UNCHANGED sends
    BY DEF Next, WorkerStep, ClaimScan, LeaveScan, Prepare, ReplayCached, Reserve,
       ReserveRefused, Submit, SubmitRefused, CheckBeforeSend, CheckAnswer, Complete,
       FailedAnswer, Rejected, StoreFails, Ambiguous, RecoverScan, ReconcileAged, Resolve,
       Crash, history
  <2> QED
    BY <2>1, <2>2
<1> QED
  BY <1>1, Inductive, PTL DEF Spec, CompletedNeverResent
----------------------------------------------------------------------------
(* Stored responses: what a paid call brought back, as ResponseCache keeps it *)

USE DEF RequestLabels, RowStates, Backends
----------------------------------------------------------------------------
(* The inductive invariant.                                                *)

\* The object of a checksum is there and intact, or was harmed from outside.
Kept(c) == blob[c] = c \/ c \in harmed

\* What a request holds at each step: the provider's answer to its key, then the
\* object of that answer, then a row of its own that nobody else sees.
Request(p) ==
    /\ at[p] # "idle" => key[p] \in Keys
    /\ at[p] \in {"answered", "stored", "inserted", "pointed"} =>
          payload[p] \in Contents /\ <<key[p], payload[p]>> \in answers
    /\ at[p] \in {"stored", "inserted", "pointed"} => Kept(payload[p])
    /\ at[p] \in {"inserted", "pointed"} <=> held[p] # 0
    /\ held[p] # 0 =>
          /\ held[p] \in Ids /\ rows[held[p]].state = "pending"
          /\ rows[held[p]].key = key[p] /\ rows[held[p]].checksum = payload[p]

RequestInv ==
    /\ \A p \in Procs : Request(p)
    /\ \A p, q \in Procs : held[p] # 0 /\ held[p] = held[q] => p = q

\* Every row is an answer of the provider to the row's key, its object was put before
\* it, and a visible row's key has a pointer.
Row(i) ==
    /\ <<rows[i].key, rows[i].checksum>> \in answers
    /\ Kept(rows[i].checksum)
    /\ Visible(i) => pointer[rows[i].key] # 0

StoredInv ==
    /\ \A i \in Ids : Row(i)
    /\ \A k \in Keys : pointer[k] # 0 =>
          pointer[k] \in Ids /\ Visible(pointer[k]) /\ rows[pointer[k]].key = k
    /\ \A i \in bundle : i \in Ids /\ Visible(i)

BlobInv == \A c \in Contents : blob[c] # None => Kept(c)

\* As long as no two transactions overlap, a pending row is the newest of its key and
\* the pointer is at the newest visible row.
OrderInv ==
    \A i, j \in Ids : rows[i].key = rows[j].key /\ rows[i].key \notin overlapped =>
        /\ rows[i].state = "pending" /\ i # j => j < i /\ rows[j].state # "pending"
        /\ Visible(i) => i <= pointer[rows[i].key]

\* The types of the variables.
Types ==
    /\ backend \in Backends
    /\ rows \in Seq(ResponseRows)
    /\ pointer \in [Keys -> Nat]
    /\ locked \in [Keys -> Procs \cup {None}]
    /\ blob \in [Contents -> Contents \cup {Damaged, None}]
    /\ at \in [Procs -> RequestLabels]
    /\ key \in [Procs -> Keys \cup {None}] /\ payload \in [Procs -> Contents \cup {None}]
    /\ held \in [Procs -> Nat] /\ seen \in [Procs -> Nat]
    /\ answers \subseteq Keys \X Contents
    /\ overlapped \subseteq Keys /\ harmed \subseteq Contents

CacheInv == Types /\ RequestInv /\ StoredInv /\ BlobInv /\ OrderInv /\ ServedIsAnswer
----------------------------------------------------------------------------
(* Rows and greatest elements.                                             *)

\* A nonempty set of numbers up to n has a greatest one.
LEMMA MaxExists ==
  ASSUME NEW n \in Nat, NEW T \in SUBSET (0 .. n), T # {}
  PROVE  Max(T) \in T /\ \A j \in T : Max(T) >= j
<1> DEFINE D == {n - i : i \in T}
           R == {ss \in Nat \X Nat : ss[1] < ss[2]}
<1>1. \A i \in T : n - i \in Nat
  OBVIOUS
<1>2. D \subseteq Nat /\ D # {}
  BY <1>1
<1>3. IsWellFoundedOn(R, Nat)
  BY NatLessThanWellFounded DEF OpToRel
<1>4. \E x \in D : \A y \in D : ~(<<y, x>> \in R)
  <2> HIDE DEF R, D
  <2> QED
    BY <1>2, <1>3, WFMin
<1>5. PICK k \in T : \A y \in D : ~(<<y, n - k>> \in R)
  BY <1>4
<1>6. ASSUME NEW j \in T PROVE k >= j
  <2>1. ~(<<n - j, n - k>> \in R)
    BY <1>5
  <2>2. ~(n - j < n - k)
    BY <1>1, <2>1
  <2> QED
    BY <2>2
<1> QED
  BY <1>6 DEF Max

\* The fields of the rows.
LEMMA RowTypes ==
  ASSUME Types
  PROVE  /\ Len(rows) \in Nat
         /\ \A i \in Ids : /\ rows[i] \in ResponseRows /\ rows[i].key \in Keys
                                 /\ rows[i].checksum \in Contents /\ rows[i].state \in RowStates
<1>1. rows \in Seq(ResponseRows)
  BY DEF Types
<1>2. Len(rows) \in Nat /\ \A i \in Ids : rows[i] \in ResponseRows
  BY <1>1 DEF Ids
<1>3. \A r \in ResponseRows : r.key \in Keys /\ r.checksum \in Contents /\ r.state \in RowStates
  BY DEF ResponseRows
<1> QED
  BY <1>2, <1>3

\* A row changes its state and nothing else.
LEMMA SetState ==
  ASSUME Types, NEW i \in Ids, NEW to \in RowStates, rows' = [rows EXCEPT ![i].state = to]
  PROVE  /\ rows' \in Seq(ResponseRows) /\ Len(rows') = Len(rows) /\ Ids' = Ids
         /\ \A j \in Ids : rows'[j].key = rows[j].key /\ rows'[j].checksum = rows[j].checksum
         /\ \A j \in Ids : j # i => rows'[j] = rows[j]
         /\ rows'[i].state = to
<1> DEFINE new == [rows[i] EXCEPT !.state = to]
<1>1. rows[i] \in ResponseRows
  BY RowTypes
<1>2. /\ new \in ResponseRows /\ new.key = rows[i].key /\ new.checksum = rows[i].checksum
      /\ new.state = to
  BY <1>1 DEF ResponseRows
<1>3. rows' = [rows EXCEPT ![i] = new]
  OBVIOUS
<1> HIDE DEF new
<1>4. rows' \in Seq(ResponseRows) /\ Len(rows') = Len(rows)
  <2>1. rows \in Seq(ResponseRows) /\ new \in ResponseRows /\ i \in 1 .. Len(rows)
    BY <1>2 DEF Types, Ids
  <2> QED
    BY <1>3, <2>1
<1>5. rows'[i] = new /\ \A j \in Ids : j # i => rows'[j] = rows[j]
  BY <1>3 DEF Types, Ids
<1> QED
  BY <1>2, <1>4, <1>5 DEF Ids

\* What a lookup, a database replay and a bundle return for a key is the payload of a
\* row of that key.
LEMMA ReadsAreRows ==
  ASSUME Types, StoredInv, NEW k \in Keys
  PROVE  /\ Lookup(k) # None => \E i \in Ids : rows[i].key = k /\ rows[i].checksum = Lookup(k)
         /\ ReplayRow(k) # 0 /\ ReadRow(ReplayRow(k)) # None =>
              \E i \in Ids : rows[i].key = k /\ rows[i].checksum = ReadRow(ReplayRow(k))
         /\ BundleRow(k) # 0 => BundleRow(k) \in Ids /\ rows[BundleRow(k)].key = k
<1>1. \A i \in Ids : ReadRow(i) # None => ReadRow(i) = rows[i].checksum
  BY DEF ReadRow
<1>2. Current(k) # 0 => Current(k) \in Ids /\ rows[Current(k)].key = k
  BY DEF Current, StoredInv
<1>3. Newest(k) # 0 => Newest(k) \in Ids /\ rows[Newest(k)].key = k
  <2> DEFINE T == {0} \cup {i \in Ids : Visible(i) /\ rows[i].key = k}
  <2>1. Len(rows) \in Nat /\ T \in SUBSET (0 .. Len(rows)) /\ T # {}
    BY RowTypes DEF Ids
  <2>2. Max(T) \in T
    BY <2>1, MaxExists
  <2> QED
    BY <2>2 DEF Newest
<1>4. BundleRow(k) # 0 => BundleRow(k) \in Ids /\ rows[BundleRow(k)].key = k
  <2> DEFINE T == {i \in bundle : rows[i].key = k}
  <2>1. Len(rows) \in Nat /\ T \in SUBSET (0 .. Len(rows))
    BY RowTypes DEF Ids, StoredInv
  <2>2. T # {} => Max(T) \in T
    BY <2>1, MaxExists
  <2>3. T \subseteq Ids
    BY DEF StoredInv
  <2> QED
    BY <2>2, <2>3 DEF BundleRow
<1>5. Lookup(k) # None => \E i \in Ids : rows[i].key = k /\ rows[i].checksum = Lookup(k)
  BY <1>1, <1>2 DEF Lookup
<1>6. ReplayRow(k) # 0 /\ ReadRow(ReplayRow(k)) # None =>
         \E i \in Ids : rows[i].key = k /\ rows[i].checksum = ReadRow(ReplayRow(k))
  BY <1>1, <1>2, <1>3 DEF ReplayRow
<1> QED
  BY <1>4, <1>5, <1>6
----------------------------------------------------------------------------
(* Steps.                                                                  *)

\* A request that a step does not concern.
LEMMA RequestKept ==
  ASSUME NEW p \in Procs, Request(p),
         at'[p] = at[p], key'[p] = key[p], payload'[p] = payload[p], held'[p] = held[p],
         answers \subseteq answers', \A c \in Contents : Kept(c) => Kept(c)',
         held[p] # 0 => held[p] \in Ids' /\ rows'[held[p]] = rows[held[p]]
  PROVE  Request(p)'
BY DEF Request

\* The end of a request.
LEMMA RequestEnded ==
  ASSUME Types, RequestInv, NEW p \in Procs, RequestEnds(p),
         answers \subseteq answers', \A c \in Contents : Kept(c) => Kept(c)',
         \A q \in Procs : q # p /\ held[q] # 0 => held[q] \in Ids' /\ rows'[held[q]] = rows[held[q]]
  PROVE  /\ RequestInv'
         /\ at' \in [Procs -> RequestLabels]
         /\ key' \in [Procs -> Keys \cup {None}] /\ payload' \in [Procs -> Contents \cup {None}]
         /\ held' \in [Procs -> Nat] /\ seen' \in [Procs -> Nat]
<1>1. /\ at' = [at EXCEPT ![p] = "idle"] /\ key' = [key EXCEPT ![p] = None]
      /\ payload' = [payload EXCEPT ![p] = None] /\ held' = [held EXCEPT ![p] = 0]
      /\ seen' = [seen EXCEPT ![p] = 0]
  BY DEF RequestEnds, Goto
<1>2. /\ at' \in [Procs -> RequestLabels]
      /\ key' \in [Procs -> Keys \cup {None}] /\ payload' \in [Procs -> Contents \cup {None}]
      /\ held' \in [Procs -> Nat] /\ seen' \in [Procs -> Nat]
  BY <1>1 DEF Types
<1>3. /\ at'[p] = "idle" /\ held'[p] = 0
      /\ \A q \in Procs : q # p =>
            at'[q] = at[q] /\ key'[q] = key[q] /\ payload'[q] = payload[q] /\ held'[q] = held[q]
  BY <1>1 DEF Types
<1>4. Request(p)'
  BY <1>3 DEF Request
<1>5. \A q \in Procs : q # p => Request(q)'
  BY <1>3, RequestKept DEF RequestInv
<1>6. \A q, r \in Procs : held'[q] # 0 /\ held'[q] = held'[r] => q = r
  BY <1>3 DEF RequestInv
<1> QED
  BY <1>2, <1>4, <1>5, <1>6 DEF RequestInv

\* A step of one request that touches no row: it keeps its row, if it has one.
LEMMA RequestMoved ==
  ASSUME Types, RequestInv, NEW p \in Procs, UNCHANGED <<rows, held>>,
         \A q \in Procs : q # p =>
            at'[q] = at[q] /\ key'[q] = key[q] /\ payload'[q] = payload[q],
         answers \subseteq answers', \A c \in Contents : Kept(c) => Kept(c)',
         Request(p)'
  PROVE  RequestInv'
<1>1. \A q \in Procs : held[q] # 0 => held[q] \in Ids' /\ rows'[held[q]] = rows[held[q]]
  BY DEF RequestInv, Request, Ids
<1>2. \A q \in Procs : q # p => Request(q)'
  BY <1>1, RequestKept DEF RequestInv
<1> QED
  BY <1>2 DEF RequestInv

\* A step that touches neither rows nor pointers, nor the bundle.
LEMMA RowsUntouched ==
  ASSUME Types, StoredInv, OrderInv, UNCHANGED <<rows, pointer, bundle, overlapped>>,
         answers \subseteq answers', \A c \in Contents : Kept(c) => Kept(c)'
  PROVE  StoredInv' /\ OrderInv'
<1>1. \A i \in Ids : Row(i)'
  BY RowTypes DEF StoredInv, Row, Visible
<1>2. StoredInv'
  BY <1>1 DEF StoredInv, Ids, Visible
<1>3. OrderInv'
  BY DEF OrderInv, Ids, Visible
<1> QED
  BY <1>2, <1>3

\* A pending row is lost with its transaction.
LEMMA RowLost ==
  ASSUME Types, StoredInv, OrderInv, NEW i \in Ids, rows[i].state = "pending",
         rows' = [rows EXCEPT ![i].state = "lost"],
         UNCHANGED <<pointer, bundle, overlapped, answers, blob, harmed>>
  PROVE  StoredInv' /\ OrderInv'
<1>1. /\ Ids' = Ids
      /\ \A j \in Ids : rows'[j].key = rows[j].key /\ rows'[j].checksum = rows[j].checksum
      /\ \A j \in Ids : j # i => rows'[j] = rows[j]
      /\ rows'[i].state = "lost"
  BY SetState
<1>2. \A j \in Ids : rows'[j].state = "committed" <=> rows[j].state = "committed"
  BY <1>1
<1>3. \A j \in Ids : rows'[j].state = "pending" => rows[j].state = "pending"
  BY <1>1
<1>4. \A j \in Ids : Row(j)'
  BY <1>1, <1>2 DEF StoredInv, Row, Visible, Kept
<1>5. StoredInv'
  BY <1>1, <1>2, <1>4 DEF StoredInv, Visible
<1>6. OrderInv'
  BY <1>1, <1>2, <1>3 DEF OrderInv, Visible
<1> QED
  BY <1>5, <1>6

\* The transaction of a request is rolled back.
LEMMA Aborted ==
  ASSUME Types, RequestInv, StoredInv, OrderInv, NEW p \in Procs, Abort(p), RequestEnds(p),
         UNCHANGED <<backend, pointer, blob, bundle, answers, served, overlapped, harmed>>
  PROVE  Types' /\ RequestInv' /\ StoredInv' /\ OrderInv'
<1>1. \A c \in Contents : Kept(c) => Kept(c)'
  BY DEF Kept
<1>2. locked' \in [Keys -> Procs \cup {None}]
  BY DEF Abort, Types
<1>3. CASE held[p] = 0
  <2>1. rows' = rows
    BY <1>3 DEF Abort
  <2>2. \A q \in Procs : q # p /\ held[q] # 0 => held[q] \in Ids' /\ rows'[held[q]] = rows[held[q]]
    BY <2>1 DEF RequestInv, Request, Ids
  <2>3. StoredInv' /\ OrderInv'
    BY <1>1, <2>1, RowsUntouched
  <2> QED
    BY <1>1, <1>2, <2>1, <2>2, <2>3, RequestEnded DEF Types
<1>4. CASE held[p] # 0
  <2>1. held[p] \in Ids /\ rows[held[p]].state = "pending"
    BY <1>4 DEF RequestInv, Request
  <2>2. rows' = [rows EXCEPT ![held[p]].state = "lost"]
    BY <1>4 DEF Abort
  <2>3. /\ rows' \in Seq(ResponseRows) /\ Ids' = Ids
        /\ \A j \in Ids : j # held[p] => rows'[j] = rows[j]
    BY <2>1, <2>2, SetState
  <2>4. \A q \in Procs : q # p /\ held[q] # 0 => held[q] \in Ids' /\ rows'[held[q]] = rows[held[q]]
    BY <1>4, <2>3 DEF RequestInv, Request
  <2>5. StoredInv' /\ OrderInv'
    BY <2>1, <2>2, RowLost
  <2> QED
    BY <1>1, <1>2, <2>3, <2>4, <2>5, RequestEnded DEF Types
<1> QED
  BY <1>3, <1>4

\* A step that only returns a stored payload.
LEMMA Served ==
  ASSUME CacheInv, NEW k \in Keys, NEW c, Serve(k, c),
         \E i \in Ids : rows[i].key = k /\ rows[i].checksum = c,
         UNCHANGED <<backend, rows, pointer, locked, blob, bundle, at, key, payload, held, seen,
                     answers, overlapped, harmed>>
  PROVE  CacheInv'
<1>1. <<k, c>> \in answers
  BY DEF CacheInv, StoredInv, Row
<1>2. ServedIsAnswer'
  BY <1>1 DEF Serve, CacheInv, ServedIsAnswer
<1>3. \A d \in Contents : Kept(d) => Kept(d)'
  BY DEF Kept
<1>4. StoredInv' /\ OrderInv'
  BY <1>3, RowsUntouched DEF CacheInv
<1>5. RequestInv'
  BY DEF CacheInv, RequestInv, Request, Kept, Ids
<1>6. Types' /\ BlobInv'
  BY DEF CacheInv, Types, BlobInv, Kept
<1> QED
  BY <1>2, <1>4, <1>5, <1>6 DEF CacheInv

\* Every step preserves the inductive invariant.
LEMMA CacheStep == CacheInv /\ [CacheNext]_(cacheVars) => CacheInv'
<1> SUFFICES ASSUME CacheInv, [CacheNext]_(cacheVars) PROVE CacheInv'
  OBVIOUS
<1>a. Types /\ RequestInv /\ StoredInv /\ BlobInv /\ OrderInv /\ served \subseteq answers
  BY DEF CacheInv, ServedIsAnswer
<1>b. \A p \in Procs : Request(p)
  BY <1>a DEF RequestInv
<1>c. UNCHANGED <<blob, harmed>> => (\A c \in Contents : Kept(c) => Kept(c)') /\ BlobInv'
  BY <1>a DEF BlobInv, Kept
<1>1. ASSUME NEW p \in Procs, NEW k \in Keys, CacheHit(p, k) PROVE CacheInv'
  BY <1>1, <1>a, ReadsAreRows, Served DEF CacheHit
<1>2. ASSUME NEW p \in Procs, NEW k \in Keys, NEW refresh \in BOOLEAN, StartCall(p, k, refresh)
      PROVE  CacheInv'
  <2>1. /\ at[p] = "idle" /\ at' = [at EXCEPT ![p] = "calling"] /\ key' = [key EXCEPT ![p] = k]
        /\ UNCHANGED <<backend, rows, pointer, locked, blob, bundle, payload, held, seen,
                       answers, served, overlapped, harmed>>
    BY <1>2 DEF StartCall, Goto
  <2>2. at' \in [Procs -> RequestLabels] /\ key' \in [Procs -> Keys \cup {None}]
    BY <1>a, <2>1 DEF Types
  <2>3. /\ at'[p] = "calling" /\ key'[p] = k
        /\ \A q \in Procs : q # p => at'[q] = at[q] /\ key'[q] = key[q]
    BY <1>a, <2>1 DEF Types
  <2>4. Request(p)'
    BY <1>b, <2>1, <2>3 DEF Request
  <2>5. RequestInv'
    BY <1>a, <1>c, <2>1, <2>3, <2>4, RequestMoved
  <2>6. StoredInv' /\ OrderInv'
    BY <1>a, <1>c, <2>1, RowsUntouched
  <2> QED
    BY <1>a, <1>c, <2>1, <2>2, <2>5, <2>6 DEF CacheInv, Types, ServedIsAnswer
<1>3. ASSUME NEW p \in Procs, NEW c \in Contents, Answer(p, c) PROVE CacheInv'
  <2>1. /\ at[p] = "calling" /\ at' = [at EXCEPT ![p] = "answered"]
        /\ payload' = [payload EXCEPT ![p] = c] /\ answers' = answers \cup {<<key[p], c>>}
        /\ UNCHANGED <<backend, rows, pointer, locked, blob, bundle, key, held, seen,
                       served, overlapped, harmed>>
    BY <1>3 DEF Answer, Goto
  <2>2. key[p] \in Keys
    BY <1>b, <2>1 DEF Request
  <2>3. /\ at' \in [Procs -> RequestLabels] /\ payload' \in [Procs -> Contents \cup {None}]
        /\ answers' \subseteq Keys \X Contents /\ answers \subseteq answers'
    BY <1>a, <2>1, <2>2 DEF Types
  <2>4. /\ at'[p] = "answered" /\ payload'[p] = c
        /\ \A q \in Procs : q # p => at'[q] = at[q] /\ payload'[q] = payload[q]
    BY <1>a, <2>1 DEF Types
  <2>5. Request(p)'
    <3>1. held'[p] = 0
      BY <1>b, <2>1 DEF Request
    <3>2. key'[p] = key[p]
      BY <2>1
    <3>3. <<key'[p], payload'[p]>> \in answers'
      <4>1. <<key[p], c>> \in answers'
        <5> DEFINE x == <<key[p], c>>
        <5>1. answers' = answers \cup {x}
          BY <2>1
        <5> HIDE DEF x
        <5>2. x \in answers'
          BY <5>1
        <5> QED
          BY <5>2 DEF x
      <4>2. payload'[p] = c
        BY <2>4
      <4> QED
        BY <3>2, <4>1, <4>2
    <3> QED
      BY <2>2, <2>4, <3>1, <3>2, <3>3 DEF Request
  <2>6. RequestInv'
    BY <1>a, <1>c, <2>1, <2>3, <2>4, <2>5, RequestMoved
  <2>7. StoredInv' /\ OrderInv'
    BY <1>a, <1>c, <2>1, <2>3, RowsUntouched
  <2> QED
    BY <1>a, <1>c, <2>1, <2>3, <2>6, <2>7 DEF CacheInv, Types, ServedIsAnswer
<1>4. ASSUME NEW p \in Procs, RequestEnds(p),
             UNCHANGED <<backend, rows, pointer, locked, blob, bundle, answers, served,
                         overlapped, harmed>>
      PROVE  CacheInv'
  <2>1. \A q \in Procs : q # p /\ held[q] # 0 => held[q] \in Ids' /\ rows'[held[q]] = rows[held[q]]
    BY <1>4, <1>b DEF Request, Ids
  <2>2. StoredInv' /\ OrderInv'
    BY <1>4, <1>a, <1>c, RowsUntouched
  <2> QED
    BY <1>4, <1>a, <1>c, <2>1, <2>2, RequestEnded DEF CacheInv, Types, ServedIsAnswer
<1>5. ASSUME NEW p \in Procs, CallFails(p) PROVE CacheInv'
  BY <1>4, <1>5 DEF CallFails
<1>6. ASSUME NEW p \in Procs, PutBlob(p) PROVE CacheInv'
  <2>1. CASE Conflicts(payload[p])
    BY <1>4, <1>6, <2>1 DEF PutBlob
  <2>2. CASE ~Conflicts(payload[p])
    <3> DEFINE c == payload[p]
    <3>1. /\ at[p] = "answered" /\ at' = [at EXCEPT ![p] = "stored"]
          /\ blob' = IF blob[c] = None THEN [blob EXCEPT ![c] = c] ELSE blob
          /\ UNCHANGED <<key, payload, held, seen>>
          /\ UNCHANGED <<backend, rows, pointer, locked, bundle, answers, served, overlapped, harmed>>
      BY <1>6, <2>2 DEF PutBlob, Goto
    <3>2. c \in Contents
      BY <1>b, <3>1 DEF Request
    <3>3. blob' \in [Contents -> Contents \cup {Damaged, None}]
      BY <1>a, <3>1, <3>2 DEF Types
    <3>4. \A d \in Contents : Kept(d) => Kept(d)'
      BY <1>a, <3>1, <3>2 DEF Types, Kept
    <3>5. Kept(c)'
      BY <1>a, <3>1, <3>2 DEF Types, Kept, BlobInv
    <3>6. BlobInv'
      BY <1>a, <3>1, <3>2, <3>4, <3>5 DEF Types, BlobInv
    <3>7. /\ at' \in [Procs -> RequestLabels] /\ at'[p] = "stored"
          /\ \A q \in Procs : q # p => at'[q] = at[q]
      BY <1>a, <3>1 DEF Types
    <3>8. Request(p)'
      BY <1>b, <3>1, <3>5, <3>7 DEF Request
    <3>9. RequestInv'
      BY <1>a, <3>1, <3>4, <3>7, <3>8, RequestMoved
    <3>10. StoredInv' /\ OrderInv'
      BY <1>a, <3>1, <3>4, RowsUntouched
    <3> QED
      BY <1>a, <3>1, <3>3, <3>6, <3>7, <3>9, <3>10 DEF CacheInv, Types, ServedIsAnswer
  <2> QED
    BY <2>1, <2>2
<1>7. ASSUME NEW p \in Procs, InsertRow(p) PROVE CacheInv'
  <2> DEFINE k == key[p]
             c == payload[p]
             new == [key |-> k, checksum |-> c, state |-> "pending", expired |-> FALSE]
  <2>0. PICK n \in Nat : n = Len(rows) + 1
    BY <1>a DEF Types
  <2>1. /\ at[p] = "stored" /\ rows' = Append(rows, new) /\ held' = [held EXCEPT ![p] = n]
        /\ seen' = [seen EXCEPT ![p] = pointer[k]] /\ at' = [at EXCEPT ![p] = "inserted"]
        /\ overlapped' = IF \E i \in Ids : rows[i].key = k /\ rows[i].state = "pending"
                         THEN overlapped \cup {k} ELSE overlapped
        /\ UNCHANGED <<backend, pointer, locked, blob, bundle, key, payload, answers, served, harmed>>
    BY <1>7, <2>0 DEF InsertRow, Goto
  <2>2. /\ k \in Keys /\ c \in Contents /\ <<k, c>> \in answers /\ Kept(c)
    BY <1>b, <2>1 DEF Request
  <2>3. /\ new \in ResponseRows /\ new.key = k /\ new.checksum = c /\ new.state = "pending"
    BY <2>2 DEF ResponseRows
  <2>4. rows \in Seq(ResponseRows) /\ Len(rows) \in Nat
    BY <1>a DEF Types
  <2> HIDE DEF new
  <2>5. /\ rows' \in Seq(ResponseRows) /\ Len(rows') = n /\ rows'[n] = new
        /\ \A i \in 1 .. Len(rows) : rows'[i] = rows[i]
    BY <2>0, <2>1, <2>3, <2>4
  <2>6. /\ n \in Nat /\ n # 0 /\ n \notin Ids /\ n \in Ids' /\ Ids' = Ids \cup {n}
        /\ \A i \in Ids : rows'[i] = rows[i] /\ i < n
    BY <2>0, <2>4, <2>5 DEF Ids
  <2>7. /\ at' \in [Procs -> RequestLabels] /\ held' \in [Procs -> Nat] /\ seen' \in [Procs -> Nat]
        /\ overlapped' \subseteq Keys
    BY <1>a, <2>1, <2>2, <2>6 DEF Types
  <2>8. /\ at'[p] = "inserted" /\ held'[p] = n
        /\ \A q \in Procs : q # p => at'[q] = at[q] /\ held'[q] = held[q]
    BY <1>a, <2>1 DEF Types
  <2>9. RequestInv'
    <3>1. Request(p)'
      BY <1>c, <2>1, <2>2, <2>3, <2>5, <2>6, <2>8 DEF Request
    <3>2. \A q \in Procs : held[q] # 0 => held[q] \in Ids' /\ rows'[held[q]] = rows[held[q]]
      BY <1>b, <2>6 DEF Request
    <3>3. \A q \in Procs : q # p => Request(q)'
      BY <1>b, <1>c, <2>1, <2>8, <3>2, RequestKept
    <3>4. \A q \in Procs : held[q] # n
      BY <1>b, <2>6 DEF Request
    <3>5. \A q, r \in Procs : held'[q] # 0 /\ held'[q] = held'[r] => q = r
      BY <1>a, <2>8, <3>4 DEF RequestInv
    <3> QED
      BY <3>1, <3>3, <3>5 DEF RequestInv
  <2>10. StoredInv'
    <3>1. ASSUME NEW i \in Ids PROVE Row(i)'
      BY <1>a, <2>1, <2>6, <3>1 DEF StoredInv, Row, Visible, Kept
    <3>2. Row(n)'
      BY <2>1, <2>2, <2>3, <2>5 DEF Row, Visible, Kept
    <3> QED
      BY <1>a, <2>1, <2>6, <3>1, <3>2 DEF StoredInv, Visible
  <2>11. OrderInv'
    <3> SUFFICES ASSUME NEW i \in Ids', NEW j \in Ids', rows'[i].key = rows'[j].key,
                        rows'[i].key \notin overlapped'
                 PROVE  /\ rows'[i].state = "pending" /\ i # j =>
                              j < i /\ rows'[j].state # "pending"
                        /\ rows'[i].state = "committed" => i <= pointer'[rows'[i].key]
      BY DEF OrderInv, Visible
    <3>1. overlapped \subseteq overlapped'
      BY <2>1
    <3>2. CASE i # n /\ j # n
      BY <1>a, <2>1, <2>6, <3>1, <3>2 DEF OrderInv, Visible
    <3>3. CASE i = n
      BY <2>1, <2>3, <2>5, <2>6, <3>3
    <3>4. CASE i # n /\ j = n
      <4>1. i \in Ids /\ rows[i].key = k /\ rows'[i] = rows[i]
        BY <2>3, <2>5, <2>6, <3>4
      <4>2. rows[i].state # "pending"
        BY <2>1, <4>1
      <4>3. rows[i].state = "committed" => i <= pointer[k]
        BY <1>a, <3>1, <4>1 DEF OrderInv, Visible
      <4> QED
        BY <2>1, <4>1, <4>2, <4>3
    <3> QED
      BY <3>2, <3>3, <3>4
  <2> QED
    BY <1>a, <1>c, <2>1, <2>5, <2>7, <2>9, <2>10, <2>11 DEF CacheInv, Types, ServedIsAnswer
<1>8. ASSUME NEW p \in Procs, Abort(p), RequestEnds(p),
             UNCHANGED <<backend, pointer, blob, bundle, answers, served, overlapped, harmed>>
      PROVE  CacheInv'
  BY <1>8, <1>a, <1>c, Aborted DEF CacheInv, ServedIsAnswer
<1>9. ASSUME NEW p \in Procs, PointKey(p) PROVE CacheInv'
  <2>1. CASE seen[p] = 0 /\ pointer[key[p]] # 0
    BY <1>8, <1>9, <2>1 DEF PointKey
  <2>2. CASE ~(seen[p] = 0 /\ pointer[key[p]] # 0)
    <3>1. /\ at[p] = "inserted" /\ locked' = [locked EXCEPT ![key[p]] = p]
          /\ at' = [at EXCEPT ![p] = "pointed"]
          /\ UNCHANGED <<rows, key, payload, held, seen>>
          /\ UNCHANGED <<backend, pointer, blob, bundle, answers, served, overlapped, harmed>>
      BY <1>9, <2>2 DEF PointKey, Goto
    <3>2. /\ at' \in [Procs -> RequestLabels] /\ locked' \in [Keys -> Procs \cup {None}]
          /\ at'[p] = "pointed" /\ \A q \in Procs : q # p => at'[q] = at[q]
      BY <1>a, <3>1 DEF Types
    <3>3. Request(p)'
      BY <1>b, <3>1, <3>2 DEF Request, Kept, Ids
    <3>4. RequestInv'
      BY <1>a, <1>c, <3>1, <3>2, <3>3, RequestMoved
    <3>5. StoredInv' /\ OrderInv'
      BY <1>a, <1>c, <3>1, RowsUntouched
    <3> QED
      BY <1>a, <1>c, <3>1, <3>2, <3>4, <3>5 DEF CacheInv, Types, ServedIsAnswer
  <2> QED
    BY <2>1, <2>2
<1>10. ASSUME NEW p \in Procs, Commit(p) PROVE CacheInv'
  <2> DEFINE k == key[p]
             c == payload[p]
             n == held[p]
  <2>1. /\ at[p] = "pointed" /\ rows' = [rows EXCEPT ![n].state = "committed"]
        /\ pointer' = [pointer EXCEPT ![k] = n] /\ locked' = [locked EXCEPT ![k] = None]
        /\ Serve(k, c) /\ RequestEnds(p)
        /\ UNCHANGED <<backend, blob, bundle, answers, overlapped, harmed>>
    BY <1>10 DEF Commit
  <2>2. /\ k \in Keys /\ <<k, c>> \in answers /\ n # 0 /\ n \in Ids
        /\ rows[n].state = "pending" /\ rows[n].key = k
    BY <1>b, <2>1 DEF Request
  <2>3. n \in Nat
    BY <2>2 DEF Ids
  <2>4. /\ rows' \in Seq(ResponseRows) /\ Ids' = Ids
        /\ \A j \in Ids : rows'[j].key = rows[j].key /\ rows'[j].checksum = rows[j].checksum
        /\ \A j \in Ids : j # n => rows'[j] = rows[j]
        /\ rows'[n].state = "committed"
    BY <1>a, <2>1, <2>2, SetState
  <2> HIDE DEF k, c, n
  <2>5. /\ pointer' \in [Keys -> Nat] /\ locked' \in [Keys -> Procs \cup {None}]
        /\ pointer'[k] = n /\ \A l \in Keys : l # k => pointer'[l] = pointer[l]
    BY <1>a, <2>1, <2>2, <2>3 DEF Types
  <2>6. \A q \in Procs : q # p /\ held[q] # 0 => held[q] \in Ids' /\ rows'[held[q]] = rows[held[q]]
    <3>1. ASSUME NEW q \in Procs, q # p, held[q] # 0
          PROVE  held[q] \in Ids' /\ rows'[held[q]] = rows[held[q]]
      <4>1. held[q] \in Ids /\ held[q] # n
        BY <1>a, <1>b, <3>1 DEF Request, RequestInv, n
      <4> QED
        BY <2>4, <4>1
    <3> QED
      BY <3>1
  <2>7. RequestInv'
    BY <1>a, <1>c, <2>1, <2>6, RequestEnded
  <2>8. StoredInv'
    <3>1. ASSUME NEW i \in Ids PROVE Row(i)'
      <4>1. rows[i].key \in Keys /\ rows[i].checksum \in Contents /\ Row(i)
        BY <1>a, RowTypes DEF StoredInv
      <4>2. i # n => rows'[i].state = rows[i].state
        BY <2>4
      <4>3. Visible(i)' => pointer'[rows[i].key] # 0
        BY <2>2, <2>4, <2>5, <4>1, <4>2 DEF Row, Visible
      <4>4. rows'[i].key = rows[i].key /\ rows'[i].checksum = rows[i].checksum
        BY <2>4
      <4>5. <<rows'[i].key, rows'[i].checksum>> \in answers'
        BY <2>1, <4>1, <4>4 DEF Row
      <4>6. Kept(rows[i].checksum)'
        BY <2>1, <4>1, <4>4 DEF Row, Kept
      <4> QED
        BY <4>3, <4>4, <4>5, <4>6 DEF Row
    <3>2. \A l \in Keys : pointer'[l] # 0 =>
             pointer'[l] \in Ids' /\ rows'[pointer'[l]].state = "committed"
                /\ rows'[pointer'[l]].key = l
      BY <1>a, <2>2, <2>4, <2>5 DEF StoredInv, Visible
    <3>3. \A i \in bundle : i \in Ids /\ rows'[i].state = "committed"
      BY <1>a, <2>2, <2>4 DEF StoredInv, Visible
    <3> QED
      BY <2>1, <2>4, <3>1, <3>2, <3>3 DEF StoredInv, Visible
  <2>9. OrderInv'
    <3> SUFFICES ASSUME NEW i \in Ids, NEW j \in Ids, rows[i].key = rows[j].key,
                        rows[i].key \notin overlapped
                 PROVE  /\ rows'[i].state = "pending" /\ i # j =>
                              j < i /\ rows'[j].state # "pending"
                        /\ rows'[i].state = "committed" => i <= pointer'[rows[i].key]
      BY <2>1, <2>4 DEF OrderInv, Visible
    <3>1. \A l \in Ids : rows'[l].state = "pending" => rows[l].state = "pending" /\ l # n
      BY <2>4
    <3>2. rows'[i].state = "pending" /\ i # j => j < i /\ rows'[j].state # "pending"
      BY <1>a, <3>1 DEF OrderInv
    <3>3. rows[i].key = k => i <= n
      <4>1. CASE i = n
        BY <2>3, <4>1
      <4>2. CASE i # n /\ rows[i].key = k
        <5>1. i < n
          BY <1>a, <2>2, <4>2 DEF OrderInv
        <5> QED
          BY <2>3, <5>1 DEF Ids
      <4> QED
        BY <4>1, <4>2
    <3>4. rows[i].key # k => i # n /\ rows'[i] = rows[i]
      BY <2>2, <2>4
    <3>5. rows[i].key \in Keys
      BY <1>a, RowTypes
    <3>6. rows'[i].state = "committed" => i <= pointer'[rows[i].key]
      BY <1>a, <2>5, <3>3, <3>4, <3>5 DEF OrderInv, Visible
    <3> QED
      BY <3>2, <3>6
  <2>10. served' \subseteq answers'
    BY <1>a, <2>1, <2>2 DEF Serve
  <2> QED
    BY <1>a, <1>c, <2>1, <2>4, <2>5, <2>6, <2>7, <2>8, <2>9, <2>10, RequestEnded
    DEF CacheInv, Types, ServedIsAnswer
<1>11. ASSUME NEW p \in Procs, RequestCrash(p) PROVE CacheInv'
  BY <1>8, <1>11 DEF RequestCrash
<1>12. ASSUME NEW k \in Keys, ReplayFromDatabase(k) PROVE CacheInv'
  BY <1>12, <1>a, ReadsAreRows, Served DEF ReplayFromDatabase
<1>13. ASSUME NEW k \in Keys, ReplayFromBundle(k) PROVE CacheInv'
  BY <1>13, <1>a, ReadsAreRows, Served DEF ReplayFromBundle
<1>14. CASE Export
  <2>1. /\ bundle' = {i \in Ids : Visible(i)}
        /\ UNCHANGED <<backend, rows, pointer, locked, blob, at, key, payload, held, seen,
                       answers, served, overlapped, harmed>>
    BY <1>14 DEF Export
  <2>2. StoredInv'
    BY <1>a, <2>1 DEF StoredInv, Row, Visible, Ids, Kept
  <2>3. OrderInv' /\ RequestInv'
    BY <1>a, <2>1 DEF OrderInv, RequestInv, Request, Visible, Ids, Kept
  <2> QED
    BY <1>a, <1>c, <2>1, <2>2, <2>3 DEF CacheInv, Types, ServedIsAnswer
<1>15. ASSUME NEW i \in Ids, Expires(i) PROVE CacheInv'
  <2> DEFINE new == [rows[i] EXCEPT !.expired = TRUE]
  <2>1. /\ Visible(i) /\ rows' = [rows EXCEPT ![i] = new]
        /\ UNCHANGED <<backend, pointer, locked, blob, bundle, at, key, payload, held, seen,
                       answers, served, overlapped, harmed>>
    BY <1>15 DEF Expires
  <2>2. rows[i] \in ResponseRows /\ rows \in Seq(ResponseRows)
    BY <1>a, RowTypes DEF Types
  <2>3. /\ new \in ResponseRows /\ new.key = rows[i].key /\ new.checksum = rows[i].checksum
        /\ new.state = rows[i].state
    BY <2>2 DEF ResponseRows
  <2> HIDE DEF new
  <2>4. /\ rows' \in Seq(ResponseRows) /\ Len(rows') = Len(rows) /\ rows'[i] = new
        /\ \A j \in Ids : j # i => rows'[j] = rows[j]
    BY <2>1, <2>2, <2>3 DEF Ids
  <2>5. /\ Ids' = Ids
        /\ \A j \in Ids : /\ rows'[j].key = rows[j].key /\ rows'[j].checksum = rows[j].checksum
                                /\ rows'[j].state = rows[j].state
    BY <2>3, <2>4 DEF Ids
  <2>6. StoredInv'
    BY <1>a, <2>1, <2>5 DEF StoredInv, Row, Visible, Kept
  <2>7. OrderInv'
    BY <1>a, <2>1, <2>5 DEF OrderInv, Visible
  <2>8. \A q \in Procs : Request(q)'
    BY <1>b, <2>1, <2>5 DEF Request, Kept
  <2>9. RequestInv'
    BY <1>a, <2>1, <2>8 DEF RequestInv
  <2> QED
    BY <1>a, <1>c, <2>1, <2>4, <2>6, <2>7, <2>9 DEF CacheInv, Types, ServedIsAnswer
<1>16. ASSUME NEW c \in Contents, NEW damage \in {Damaged, None}, Harm(c, damage) PROVE CacheInv'
  <2>1. /\ blob' = [blob EXCEPT ![c] = damage] /\ harmed' = harmed \cup {c}
        /\ UNCHANGED <<backend, rows, pointer, locked, bundle, at, key, payload, held, seen,
                       answers, served, overlapped>>
    BY <1>16 DEF Harm
  <2>2. blob' \in [Contents -> Contents \cup {Damaged, None}] /\ harmed' \subseteq Contents
    BY <1>a, <2>1 DEF Types
  <2>3. \A d \in Contents : Kept(d) => Kept(d)'
    BY <1>a, <2>1 DEF Types, Kept
  <2>4. BlobInv'
    BY <1>a, <2>1, <2>3 DEF Types, BlobInv, Kept
  <2>5. StoredInv' /\ OrderInv'
    BY <1>a, <2>1, <2>3, RowsUntouched
  <2>6. \A q \in Procs : Request(q)'
    BY <1>b, <2>1, <2>3 DEF Request, Ids
  <2>7. RequestInv'
    BY <1>a, <2>1, <2>6 DEF RequestInv
  <2> QED
    BY <1>a, <2>1, <2>2, <2>4, <2>5, <2>7 DEF CacheInv, Types, ServedIsAnswer
<1>17. CASE UNCHANGED cacheVars
  <2>1. StoredInv' /\ OrderInv'
    BY <1>17, <1>a, <1>c, RowsUntouched DEF cacheVars
  <2>2. RequestInv'
    BY <1>17, <1>a DEF cacheVars, RequestInv, Request, Kept, Ids
  <2> QED
    BY <1>17, <1>a, <1>c, <2>1, <2>2 DEF cacheVars, CacheInv, Types, ServedIsAnswer
<1> QED
  BY <1>1, <1>2, <1>3, <1>5, <1>6, <1>7, <1>9, <1>10, <1>11, <1>12, <1>13, <1>14, <1>15,
     <1>16, <1>17 DEF CacheNext, Storing
----------------------------------------------------------------------------
(* Theorems.                                                               *)

\* The inductive invariant of requests, rows, objects and pointers.
THEOREM CacheInductive == CacheSpec => []CacheInv
<1>1. ASSUME CacheInit PROVE CacheInv
  <2>1. rows = <<>> /\ Len(rows) = 0 /\ Ids = {} /\ rows \in Seq(ResponseRows)
    BY <1>1 DEF CacheInit, Ids
  <2>2. Types
    BY <1>1, <2>1 DEF CacheInit, Types
  <2>3. RequestInv /\ StoredInv /\ BlobInv /\ OrderInv /\ ServedIsAnswer
    BY <1>1, <2>1 DEF CacheInit, RequestInv, Request, StoredInv, BlobInv, OrderInv, ServedIsAnswer
  <2> QED
    BY <2>2, <2>3 DEF CacheInv
<1> QED
  BY <1>1, CacheStep, PTL DEF CacheSpec

\* Whatever lookup_cached_response, a request, DatabaseReplayTransport or
\* BundleReplayTransport returns for a key is an answer of the provider to that request.
THEOREM ServesAnswers == CacheSpec => []ServedIsAnswer
BY CacheInductive, PTL DEF CacheInv

\* A committed row is readable unless its object was harmed from outside, and its key
\* has a pointer that leads to a row of that key (RawResponseCache.set, BlobStore.put).
THEOREM RowsAreReadable == CacheSpec => []RowsReadable
<1>1. ASSUME CacheInv PROVE RowsReadable
  <2>1. CacheTypeOK
    <3>1. Types /\ RequestInv /\ StoredInv /\ ServedIsAnswer
      BY <1>1 DEF CacheInv
    <3>2. \A k \in Keys : pointer[k] = 0 \/ (pointer[k] \in Ids /\ Visible(pointer[k]))
      BY <3>1 DEF StoredInv
    <3>3. bundle \subseteq Ids
      BY <3>1 DEF StoredInv
    <3>4. \A p \in Procs : /\ at[p] \in {"inserted", "pointed"} <=> held[p] # 0
                           /\ held[p] # 0 => held[p] \in Ids /\ rows[held[p]].state = "pending"
      BY <3>1 DEF RequestInv, Request
    <3>5. served \subseteq Keys \X Contents
      BY <3>1 DEF Types, ServedIsAnswer
    <3> QED
      BY <3>1, <3>2, <3>3, <3>4, <3>5 DEF Types, CacheTypeOK
  <2>2. ASSUME NEW i \in Ids, Visible(i)
        PROVE  /\ rows[i].checksum \in harmed \/ ReadRow(i) # None
               /\ Current(rows[i].key) # 0
    <3>1. Row(i) /\ rows[i].key \in Keys /\ rows[i].checksum \in Contents
      BY <1>1, RowTypes DEF CacheInv, StoredInv
    <3>2. rows[i].checksum # None
      BY <3>1, CacheConstants
    <3>3. rows[i].checksum \in harmed \/ ReadRow(i) # None
      BY <3>1, <3>2 DEF Row, Kept, ReadRow
    <3>4. pointer[rows[i].key] # 0
      BY <2>2, <3>1 DEF Row
    <3>5. rows[pointer[rows[i].key]].key = rows[i].key
      BY <1>1, <3>1, <3>4 DEF CacheInv, StoredInv
    <3>6. Current(rows[i].key) # 0
      BY <3>4, <3>5 DEF Current
    <3> QED
      BY <3>3, <3>6
  <2> QED
    BY <2>1, <2>2 DEF RowsReadable
<1> QED
  BY <1>1, CacheInductive, PTL

\* A bundle that has every response of a key replays the one the database replays, as
\* long as no two transactions stored responses for the key at the same time.
THEOREM BundlesAgree == CacheSpec => []BundleAgrees
<1>1. ASSUME CacheInv PROVE BundleAgrees
  <2> SUFFICES ASSUME NEW k \in Keys, k \notin overlapped, BundleRow(k) # 0,
                      \A i \in Ids : rows[i].key = k /\ Visible(i) => i \in bundle
               PROVE  BundleRow(k) = ReplayRow(k)
    BY DEF BundleAgrees
  <2> DEFINE T == {i \in bundle : rows[i].key = k}
  <2>1. Types /\ StoredInv /\ OrderInv
    BY <1>1 DEF CacheInv
  <2>2. Len(rows) \in Nat /\ T \in SUBSET (0 .. Len(rows)) /\ T \subseteq Ids
    BY <2>1, RowTypes DEF Ids, StoredInv
  <2>3. T # {} /\ BundleRow(k) = Max(T)
    BY DEF BundleRow
  <2>4. Max(T) \in T /\ \A j \in T : Max(T) >= j
    BY <2>2, <2>3, MaxExists
  <2>5. PICK m \in Ids : m = Max(T) /\ m \in bundle /\ rows[m].key = k /\ Visible(m)
    BY <2>1, <2>2, <2>4 DEF StoredInv
  <2>6. pointer[k] # 0 /\ pointer[k] \in Ids /\ Visible(pointer[k]) /\ rows[pointer[k]].key = k
    BY <2>1, <2>5 DEF StoredInv, Row
  <2>7. m <= pointer[k]
    BY <2>1, <2>5 DEF OrderInv
  <2>8. m >= pointer[k]
    BY <2>4, <2>5, <2>6
  <2>9. m = pointer[k]
    BY <2>2, <2>5, <2>6, <2>7, <2>8 DEF Ids
  <2>10. ReplayRow(k) = pointer[k]
    BY <2>6 DEF ReplayRow, Current
  <2> QED
    BY <2>3, <2>5, <2>9, <2>10
<1> QED
  BY <1>1, CacheInductive, PTL
=============================================================================
