------------------------------ MODULE MCEnsemble ------------------------------
(***************************************************************************)
(* The instance of Ensemble: the jobs the programs of 09 run, and some     *)
(* nodes, threads and replicas for the others.                             *)
(***************************************************************************)
EXTENDS Ensemble, TLC

TwoAndOne == <<2, 1, 0>>

TwoAccounts == <<100, 100>>
TwoSmallOnes == <<50, 50>>

T == INSTANCE Transactions WITH Opening <- TwoAccounts, Jobs <- <<>>

Drafted == <<T!Deposit(1, 10), T!Deposit(1, 20), T!Transfer(1, 2, 30), T!Audit>>

Versioned ==
    <<T!Deposit(1, 10), T!FundedTransfer(1, 2, 60), T!FundedTransfer(1, 2, 70), T!Audit>>

(* The two withdrawals of write_skew.rs, and a deposit. *)
Skewed == <<T!WithdrawCovered(1, 150), T!WithdrawCovered(2, 150), T!Deposit(1, 10)>>

Locked == <<T!Transfer(1, 2, 30), T!Transfer(2, 1, 30), T!Deposit(1, 10), T!Audit>>

PushAndPop == <<<<"push", "pop">>, <<"push", "pop", "push">>, <<"pop", "pop">>>>

=============================================================================
