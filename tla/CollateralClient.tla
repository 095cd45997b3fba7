-------------------------- MODULE CollateralClient --------------------------
(***************************************************************************)
(* The collateral contract client (crates/collateral/src/lib.rs) and the   *)
(* contract it drives.  Each client transaction (deposit,                  *)
(* reclaim_collateral, finalize_reclaim, deny_reclaim, slash_collateral)   *)
(* signs one call, sends it and awaits its receipt; the call executes      *)
(* atomically on chain or reverts and changes nothing.  What a call does   *)
(* is the runtime bytecode embedded by sol! (line 13): its storage is      *)
(* executorToMiner, collaterals, collateralUnderPendingReclaims, reclaims  *)
(* and the reclaim id counter; a deleted reclaim is the all-zero struct.   *)
(*                                                                         *)
(* The client passes a u128 executor id as the 16 big-endian bytes of a    *)
(* FixedBytes<16>; reclaims() reads a request back and turns it into a     *)
(* Reclaim with a u16 executor_id (Reclaim::from).                         *)
(*                                                                         *)
(* Left out: signer and provider set-up, URL and checksum arguments (only  *)
(* logged in events), events, and the getters, which read one slot.        *)
(***************************************************************************)
EXTENDS Integers, Sequences, FiniteSets, FiniteSetsExt

CONSTANTS
    ExecutorIds,      \* u128 executor ids (small values)
    MinerAccounts,    \* miner accounts signing transactions
    Trustee,          \* TRUSTEE, the account allowed to deny and slash
    NoOwner,          \* address(0): the executor has no miner
    MinCollateralIncrease,
    DecisionTimeout,  \* DECISION_TIMEOUT, in ticks of block time
    Amounts,          \* the msg.value a deposit may carry
    MaxDeposited,     \* bound on the sum of all deposits
    MaxRequests,      \* bound on the reclaim requests created
    MaxTime           \* bound on block time

ASSUME ExecutorIds \subseteq Nat \ {0} /\ Amounts \subseteq Nat
ASSUME NoOwner \notin MinerAccounts /\ Trustee \notin MinerAccounts

VARIABLES
    executorToMiner,  \* executor -> owning miner, or NoOwner
    collaterals,      \* executor -> collateral held
    pendingReclaims,  \* executor -> collateralUnderPendingReclaims
    reclaims,         \* request id -> reclaim struct (zero when deleted)
    reclaimCount,     \* the last reclaim request id handed out
    now,              \* block.timestamp
    paid,             \* miner -> value the contract has sent it
    burned,           \* value slashed to address(0)
    deposited,        \* miner -> value it deposited (history)
    slashed,          \* miner -> its collateral the trustee burned (history)
    lastReclaim       \* the Reclaim the last reclaims() call returned

vars == <<executorToMiner, collaterals, pendingReclaims, reclaims, reclaimCount,
          now, paid, burned, deposited, slashed, lastReclaim>>

NoReclaim == [none |-> TRUE]

RequestIds == 1..MaxRequests

\* The all-zero Reclaim struct: never written, or deleted.
ZeroReclaim == [executorId |-> 0, miner |-> NoOwner, amount |-> 0, denyTimeout |-> 0]

-----------------------------------------------------------------------------
\* x.to_be_bytes() as an n-byte sequence, most significant byte first.
RECURSIVE ToBeBytes(_, _)
ToBeBytes(x, n) == IF n = 0 THEN <<>> ELSE Append(ToBeBytes(x \div 256, n - 1), x % 256)

\* Reclaim::from: executor_id = u16::from_be_bytes(tuple.0[0..2]).
ReclaimFrom(bytes) == [executor_id |-> bytes[1] * 256 + bytes[2]]

\* What reclaimCollateral may claim: collateral not already pending
\* (a checked subtraction, so it reverts when pending exceeds collateral).
AvailableToReclaim(e) == collaterals[e] - pendingReclaims[e]

\* Ghost bookkeeping: what miner m has put in and neither been paid back
\* nor had slashed.  A slash charges the owner at most this much.
OwnBalance(m) == deposited[m] - paid[m] - slashed[m]

TypeOK ==
    /\ executorToMiner \in [ExecutorIds -> MinerAccounts \cup {NoOwner}]
    /\ collaterals \in [ExecutorIds -> Nat]
    /\ pendingReclaims \in [ExecutorIds -> Nat]
    /\ reclaims \in [RequestIds -> [executorId : ExecutorIds \cup {0},
                                    miner : MinerAccounts \cup {NoOwner},
                                    amount : Nat, denyTimeout : Nat]]
    /\ reclaimCount \in 0..MaxRequests
    /\ now \in 0..MaxTime
    /\ paid \in [MinerAccounts -> Nat] /\ burned \in Nat
    /\ deposited \in [MinerAccounts -> Nat] /\ slashed \in [MinerAccounts -> Nat]

Init ==
    /\ executorToMiner = [e \in ExecutorIds |-> NoOwner]
    /\ collaterals = [e \in ExecutorIds |-> 0]
    /\ pendingReclaims = [e \in ExecutorIds |-> 0]
    /\ reclaims = [i \in RequestIds |-> ZeroReclaim]
    /\ reclaimCount = 0
    /\ now = 0
    /\ paid = [m \in MinerAccounts |-> 0]
    /\ burned = 0
    /\ deposited = [m \in MinerAccounts |-> 0]
    /\ slashed = [m \in MinerAccounts |-> 0]
    /\ lastReclaim = NoReclaim

-----------------------------------------------------------------------------
\* deposit(executor_id, amount) signed by miner m: the first depositor
\* becomes the executor's miner, later deposits must come from it.
Deposit(m, e, amt) ==
    /\ amt >= MinCollateralIncrease
    /\ executorToMiner[e] \in {NoOwner, m}
    /\ MapThenSumSet(LAMBDA x : deposited[x], MinerAccounts) + amt <= MaxDeposited
    /\ executorToMiner' = [executorToMiner EXCEPT ![e] = m]
    /\ collaterals' = [collaterals EXCEPT ![e] = @ + amt]
    /\ deposited' = [deposited EXCEPT ![m] = @ + amt]
    /\ UNCHANGED <<pendingReclaims, reclaims, reclaimCount, now, paid, burned, slashed, lastReclaim>>

\* reclaim_collateral(executor_id) signed by miner m: opens a request for
\* everything not already pending, decidable until now + DECISION_TIMEOUT.
ReclaimCollateral(m, e) ==
    /\ executorToMiner[e] = m
    /\ AvailableToReclaim(e) > 0
    /\ reclaimCount < MaxRequests
    /\ reclaimCount' = reclaimCount + 1
    /\ reclaims' = [reclaims EXCEPT ![reclaimCount + 1] =
                      [executorId |-> e, miner |-> m, amount |-> AvailableToReclaim(e),
                       denyTimeout |-> now + DecisionTimeout]]
    /\ pendingReclaims' = [pendingReclaims EXCEPT ![e] = @ + AvailableToReclaim(e)]
    /\ UNCHANGED <<executorToMiner, collaterals, now, paid, burned, deposited, slashed, lastReclaim>>

\* Mutant: finalization without the collateral-covers-amount check.
FinalizeReclaimUnchecked(id) ==
    LET r == reclaims[id]
    IN  /\ r.amount # 0
        /\ r.denyTimeout < now
        /\ reclaims' = [reclaims EXCEPT ![id] = ZeroReclaim]
        /\ pendingReclaims' = [pendingReclaims EXCEPT ![r.executorId] = @ - r.amount]
        /\ collaterals' = [collaterals EXCEPT ![r.executorId] = @ - r.amount]
        /\ paid' = [paid EXCEPT ![r.miner] = @ + r.amount]
        /\ executorToMiner' = [executorToMiner EXCEPT ![r.executorId] = NoOwner]
        /\ UNCHANGED <<reclaimCount, now, burned, deposited, slashed, lastReclaim>>

\* finalize_reclaim(id), any signer, once the deny window has passed: pays
\* the request's miner and clears the executor's miner.
FinalizeReclaim(id) ==
    LET r == reclaims[id]
    IN  /\ r.amount # 0
        /\ r.denyTimeout < now
        /\ collaterals[r.executorId] >= r.amount
        /\ reclaims' = [reclaims EXCEPT ![id] = ZeroReclaim]
        /\ pendingReclaims' = [pendingReclaims EXCEPT ![r.executorId] = @ - r.amount]
        /\ collaterals' = [collaterals EXCEPT ![r.executorId] = @ - r.amount]
        /\ paid' = [paid EXCEPT ![r.miner] = @ + r.amount]
        /\ executorToMiner' = [executorToMiner EXCEPT ![r.executorId] = NoOwner]
        /\ UNCHANGED <<reclaimCount, now, burned, deposited, slashed, lastReclaim>>

\* Mutant: a denial that deletes the request but leaves it pending.
DenyReclaimKeepingPending(id) ==
    LET r == reclaims[id]
    IN  /\ r.amount # 0
        /\ now <= r.denyTimeout
        /\ reclaims' = [reclaims EXCEPT ![id] = ZeroReclaim]
        /\ UNCHANGED <<executorToMiner, collaterals, pendingReclaims, reclaimCount, now,
                       paid, burned, deposited, slashed, lastReclaim>>

\* Mutant: a denial that releases the amount but keeps the request.
DenyReclaimKeepingRequest(id) ==
    LET r == reclaims[id]
    IN  /\ r.amount # 0
        /\ now <= r.denyTimeout
        /\ pendingReclaims' = [pendingReclaims EXCEPT ![r.executorId] = @ - r.amount]
        /\ UNCHANGED <<executorToMiner, collaterals, reclaims, reclaimCount, now, paid, burned,
                       deposited, slashed, lastReclaim>>

\* deny_reclaim(id) signed by the trustee, within the deny window.
DenyReclaim(id) ==
    LET r == reclaims[id]
    IN  /\ r.amount # 0
        /\ now <= r.denyTimeout
        /\ pendingReclaims' = [pendingReclaims EXCEPT ![r.executorId] = @ - r.amount]
        /\ reclaims' = [reclaims EXCEPT ![id] = ZeroReclaim]
        /\ UNCHANGED <<executorToMiner, collaterals, reclaimCount, now, paid, burned,
                       deposited, slashed, lastReclaim>>

\* slash_collateral(executor_id) signed by the trustee: burns all of the
\* executor's collateral and clears its miner; open requests stay open.
SlashCollateral(e) ==
    /\ collaterals[e] # 0
    /\ burned' = burned + collaterals[e]
    /\ collaterals' = [collaterals EXCEPT ![e] = 0]
    /\ executorToMiner' = [executorToMiner EXCEPT ![e] = NoOwner]
    /\ slashed' = IF executorToMiner[e] = NoOwner THEN slashed
                  ELSE [slashed EXCEPT ![executorToMiner[e]] =
                          @ + Min({collaterals[e], OwnBalance(executorToMiner[e])})]
    /\ UNCHANGED <<pendingReclaims, reclaims, reclaimCount, now, paid, deposited, lastReclaim>>

\* reclaims(reclaim_request_id): read the request, convert it to a Reclaim
\* (an id never handed out reads the zero struct).
Reclaims(id) ==
    /\ lastReclaim' = [request |-> id,
                       executor_id |-> ReclaimFrom(ToBeBytes(reclaims[id].executorId, 16)).executor_id]
    /\ UNCHANGED <<executorToMiner, collaterals, pendingReclaims, reclaims, reclaimCount,
                   now, paid, burned, deposited, slashed>>

\* Block time advances.
Tick ==
    /\ now < MaxTime
    /\ now' = now + 1
    /\ UNCHANGED <<executorToMiner, collaterals, pendingReclaims, reclaims, reclaimCount,
                   paid, burned, deposited, slashed, lastReclaim>>

Next ==
    \/ \E m \in MinerAccounts, e \in ExecutorIds, a \in Amounts : Deposit(m, e, a)
    \/ \E m \in MinerAccounts, e \in ExecutorIds : ReclaimCollateral(m, e)
    \/ \E id \in 1..reclaimCount : FinalizeReclaim(id) \/ DenyReclaim(id)
    \/ \E id \in RequestIds : Reclaims(id)
    \/ \E e \in ExecutorIds : SlashCollateral(e)
    \/ Tick

Spec == Init /\ [][Next]_vars

-----------------------------------------------------------------------------
(* Properties                                                               *)

\* The contract's pending total per executor is exactly the sum of its open
\* requests, through deposits, new requests, finalization, denial and
\* slashing: what reclaimCollateral treats as available is not stale.
PendingMatchesReclaims ==
    \A e \in ExecutorIds :
        pendingReclaims[e] =
            MapThenSumSet(LAMBDA i : reclaims[i].amount,
                          {i \in 1..reclaimCount : reclaims[i].executorId = e})

\* Escrow: the contract never sends a miner more than that miner deposited
\* and did not have slashed (collateral is paid back only to whoever put
\* it in, and a slash is final).  A slash is charged to the executor's
\* miner only up to that miner's own balance, which only weakens the check.
NoPayoutBeyondDeposits ==
    \A m \in MinerAccounts : paid[m] + slashed[m] <= deposited[m]

\* The Reclaim that reclaims() returns for a request names the executor
\* the request was made for (the executor id round-trips through the
\* contract's bytes).
ReclaimNamesItsExecutor ==
    lastReclaim # NoReclaim =>
        lastReclaim.executor_id = reclaims[lastReclaim.request].executorId
=============================================================================
