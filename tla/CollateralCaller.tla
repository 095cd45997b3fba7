-------------------------- MODULE CollateralCaller --------------------------
(***************************************************************************)
(* The transactions of crates/collateral/src/lib.rs as their callers see   *)
(* them.  Each client function builds one contract call, sends it          *)
(* (tx.send().await?, which first estimates gas against the chain's state  *)
(* and fails when the call would revert) and then awaits its receipt       *)
(* (tx.get_receipt().await?).  Either await may return Err; the second one *)
(* may return Err for a transaction that is already in the mempool and is  *)
(* mined later.  Transactions of one sender are mined in nonce order,      *)
(* those of different senders in any order; a transaction that can no      *)
(* longer execute when mined reverts and changes nothing.                  *)
(*                                                                         *)
(* The callers are not in this repository: the spec leaves the retry       *)
(* policy to them, so a caller whose call returned Err may retry the same  *)
(* call or give up.                                                        *)
(***************************************************************************)
EXTENDS CollateralClient

CONSTANTS
    MaxCalls,   \* bound on the calls callers make
    MaxSends    \* bound on the transactions sent

VARIABLES
    call,       \* account -> the call it is making (Idle when none)
    mempool,    \* account -> its sent, unmined transactions, in nonce order
    ledger,     \* call id -> [op, applied]: how often the call took effect
    sends       \* transactions sent so far

callerVars == <<call, mempool, ledger, sends>>

allVars == <<vars, callerVars>>

Accounts == MinerAccounts \cup {Trustee}

Idle == [state |-> "idle"]

\* The calls each signer makes: miners deposit, reclaim and finalize
\* (finalizeReclaim takes any signer); the trustee denies and slashes.
OpsOf(a) ==
    IF a = Trustee
    THEN [kind : {"deny"}, id : RequestIds] \cup [kind : {"slash"}, exec : ExecutorIds]
    ELSE [kind : {"deposit"}, exec : ExecutorIds, amt : Amounts]
           \cup [kind : {"reclaim"}, exec : ExecutorIds]
           \cup [kind : {"finalize"}, id : RequestIds]

\* What the contract does when a's transaction carrying op executes.
Effect(a, op) ==
    CASE op.kind = "deposit"  -> Deposit(a, op.exec, op.amt)
      [] op.kind = "reclaim"  -> ReclaimCollateral(a, op.exec)
      [] op.kind = "finalize" -> FinalizeReclaim(op.id)
      [] op.kind = "deny"     -> DenyReclaim(op.id)
      [] op.kind = "slash"    -> SlashCollateral(op.exec)

CallerInit ==
    /\ call = [a \in Accounts |-> Idle]
    /\ mempool = [a \in Accounts |-> <<>>]
    /\ ledger = <<>>
    /\ sends = 0

\* A caller invokes one of the client functions.
Begin(a, op) ==
    /\ call[a] = Idle
    /\ Len(ledger) < MaxCalls
    /\ ledger' = Append(ledger, [op |-> op, applied |-> 0])
    /\ call' = [call EXCEPT ![a] = [state |-> "sending", op |-> op,
                                    cid |-> Len(ledger) + 1]]
    /\ UNCHANGED <<vars, mempool, sends>>

\* tx.send().await succeeds: the call estimates without reverting and the
\* signed transaction enters the mempool behind a's earlier ones.
SendTx(a) ==
    /\ call[a].state = "sending"
    /\ sends < MaxSends
    /\ ENABLED Effect(a, call[a].op)
    /\ mempool' = [mempool EXCEPT ![a] = Append(@, [op |-> call[a].op, cid |-> call[a].cid])]
    /\ call' = [call EXCEPT ![a].state = "awaiting"]
    /\ sends' = sends + 1
    /\ UNCHANGED <<vars, ledger>>

\* tx.send().await? returns Err (estimation reverts, or the RPC fails):
\* nothing was sent.
SendFails(a) ==
    /\ call[a].state = "sending"
    /\ call' = [call EXCEPT ![a].state = "err"]
    /\ UNCHANGED <<vars, mempool, ledger, sends>>

\* The chain mines a's next transaction: it executes, or reverts when the
\* contract's checks no longer hold.  The receipt a's caller awaits is that
\* of a's last transaction, available once it is mined.
Mine(a) ==
    /\ mempool[a] # <<>>
    /\ LET t == Head(mempool[a])
       IN  /\ mempool' = [mempool EXCEPT ![a] = Tail(@)]
           /\ \/ /\ Effect(a, t.op)
                 /\ ledger' = [ledger EXCEPT ![t.cid].applied = @ + 1]
              \/ /\ ~ENABLED Effect(a, t.op)
                 /\ UNCHANGED <<vars, ledger>>
           /\ call' = IF call[a].state = "awaiting" /\ Len(mempool[a]) = 1
                      THEN [call EXCEPT ![a].state = "mined"] ELSE call
    /\ UNCHANGED sends

\* tx.get_receipt().await returns the receipt: the function returns Ok.
Receipt(a) ==
    /\ call[a].state = "mined"
    /\ call' = [call EXCEPT ![a] = Idle]
    /\ UNCHANGED <<vars, mempool, ledger, sends>>

\* tx.get_receipt().await? returns Err while the transaction is pending or
\* after it was mined: the function returns Err, the transaction stays.
ReceiptLost(a) ==
    /\ call[a].state \in {"awaiting", "mined"}
    /\ call' = [call EXCEPT ![a].state = "err"]
    /\ UNCHANGED <<vars, mempool, ledger, sends>>

\* The caller retries a call that returned Err ...
Retry(a) ==
    /\ call[a].state = "err"
    /\ call' = [call EXCEPT ![a].state = "sending"]
    /\ UNCHANGED <<vars, mempool, ledger, sends>>

\* ... or gives it up.
GiveUp(a) ==
    /\ call[a].state = "err"
    /\ call' = [call EXCEPT ![a] = Idle]
    /\ UNCHANGED <<vars, mempool, ledger, sends>>

CallerNext ==
    \/ \E a \in Accounts : \E op \in OpsOf(a) : Begin(a, op)
    \/ \E a \in Accounts :
          \/ SendTx(a) \/ SendFails(a) \/ Mine(a) \/ Receipt(a)
          \/ ReceiptLost(a) \/ Retry(a) \/ GiveUp(a)
    \/ (\E id \in RequestIds : Reclaims(id)) /\ UNCHANGED callerVars
    \/ Tick /\ UNCHANGED callerVars

\* The contract's initial state with every caller idle.
CallerSpecInit == Init /\ CallerInit

CallerSpec == CallerSpecInit /\ [][CallerNext]_allVars

-----------------------------------------------------------------------------
(* Properties                                                               *)

\* A finalize or deny call takes effect on chain at most once, whatever
\* receipts are lost and however often its caller retries it: request ids
\* are never reused, each decision deletes its request, the contract
\* reverts a decision on a deleted request, and one sender's transactions
\* are mined in nonce order.
DecisionCallsTakeEffectOnce ==
    \A c \in DOMAIN ledger :
        ledger[c].op.kind \in {"finalize", "deny"} => ledger[c].applied <= 1

\* Spec section 1: the chain client surfaces success or failure per call
\* and the caller decides on retries, so a call retried after an Err takes
\* effect at most once, whatever the call.
CallTakesEffectOnce ==
    \A c \in DOMAIN ledger : ledger[c].applied <= 1
=============================================================================
